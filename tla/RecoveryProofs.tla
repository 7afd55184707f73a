--------------------------- MODULE RecoveryProofs ---------------------------
(* Theorems about RecoveryPipeline, for every value of its constants.      *)
EXTENDS RecoveryPipeline, TLAPS

USE ConstantsAssumption
-----------------------------------------------------------------------------
(* The operators on rows and tables keep the types. *)

\* A category found for a type is one of the three.
LEMMA ClassifyCategory == ASSUME NEW t PROVE Classify(t) \in Categories
BY DEF Classify, Categories

\* An outcome changes type, category and status of a flag row, not its job.
LEMMA AfterOutcomeRow ==
    ASSUME NEW r \in FlagRow, NEW o
    PROVE  AfterOutcome(r, o) \in FlagRow /\ AfterOutcome(r, o).job = r.job
<1> DEFINE t == CASE o \in {"METER_NOT_FOUND_INSTALL", "ADDRESS_VALID_UNREGISTERED"}
                       -> "UNMETERED_CONSUMPTION"
                  [] o = "ADDRESS_INVALID" -> "FRAUDULENT_ACCOUNT"
                  [] o = "ILLEGAL_CONNECTION_FOUND" -> "UNAUTHORISED_CONSUMPTION"
                  [] OTHER -> r.type
           c == CASE o \in {"METER_NOT_FOUND_INSTALL",
                            "ADDRESS_VALID_UNREGISTERED",
                            "CATEGORY_MISMATCH_CONFIRMED",
                            "ILLEGAL_CONNECTION_FOUND"} -> "REVENUE_LEAKAGE"
                  [] o = "ADDRESS_INVALID" -> "DATA_QUALITY"
                  [] OTHER -> r.category
           s == CASE o = "METER_FOUND_OK" -> "FALSE_POSITIVE"
                  [] o \in LeakageConfirming /\ r.status = "OPEN" -> "ACKNOWLEDGED"
                  [] OTHER -> r.status
<1>1. t \in AnomalyTypes
  BY DEF AnomalyTypes, LeakageTypes, FlagRow
<1>2. c \in Categories \cup {"NULL"}
  BY DEF Categories, FlagRow
<1>3. s \in FlagStatuses
  BY DEF FlagStatuses, FlagRow
<1>4. AfterOutcome(r, o) = [[[r EXCEPT !.type = t] EXCEPT !.category = c]
                              EXCEPT !.status = s]
  BY DEF AfterOutcome, FlagRow
<1> HIDE DEF t, c, s
<1>5. QED
  BY <1>1, <1>2, <1>3, <1>4 DEF FlagRow

\* The event table of TypeOK.
EventTable == [Events -> EventRow \cup {Absent}]

LEMMA InsertTable ==
    ASSUME NEW tbl \in EventTable, NEW f \in Flags, NEW e \in Events
    PROVE  InsertUnlessExists(tbl, f, e) \in EventTable
BY DEF InsertUnlessExists, EventTable, EventRow, EventStatuses, PreSign

LEMMA SignTable ==
    ASSUME NEW tbl \in EventTable, NEW f PROVE Sign(tbl, f) \in EventTable
BY DEF Sign, EventTable, EventRow, EventStatuses, PreSign, Absent

LEMMA FieldVerifyTable ==
    ASSUME NEW tbl \in EventTable, NEW f PROVE FieldVerify(tbl, f) \in EventTable
BY DEF FieldVerify, EventTable, EventRow, EventStatuses, PreSign, Absent

\* While two identifiers are free, the trigger's and the handler's are free and
\* different.
LEMMA FreshIds ==
    ASSUME FreeEvents \ {TriggerId} # {}
    PROVE  /\ TriggerId \in FreeEvents
           /\ HandlerId \in FreeEvents
           /\ TriggerId # HandlerId
BY DEF TriggerId, HandlerId

\* What ConfirmAnomaly's trigger and its handler insert together: nothing, or
\* one event of the confirmed flag if that had none.
LEMMA ConfirmInsertsAtMostOne ==
    ASSUME NEW u \in Auditors, TypeOK, ConfirmWrite(u)
    PROVE  LET f == request[u].flag
           IN  \/ event' = event
               \/ /\ ~HasEvent(event, f)
                  /\ \E e \in FreeEvents :
                       event' = [event EXCEPT ![e] =
                         [flag |-> f, status |-> "PENDING", recovered |-> 0]]
<1> DEFINE c   == request[u]
           f   == c.flag
           new == [flag[f] EXCEPT !.fraud = c.fraud, !.category = c.category,
                     !.status = IF c.fraud = "TRUE" THEN "CONFIRMED"
                                ELSE "FALSE_POSITIVE"]
           row == [flag |-> f, status |-> "PENDING", recovered |-> 0]
           triggered == AutoCreate(event, flag[f], new, f, TriggerId)
<1>1. /\ TriggerId \in FreeEvents
      /\ HandlerId \in FreeEvents
  BY FreshIds DEF ConfirmWrite
<1>2. event' \in {triggered, InsertUnlessExists(triggered, f, HandlerId)}
  BY DEF ConfirmWrite
<1>3. triggered \in {event, InsertUnlessExists(event, f, TriggerId)}
  BY DEF AutoCreate
<1> HIDE DEF c, new, triggered
<1>4. CASE HasEvent(event, f)
  BY <1>2, <1>3, <1>4 DEF InsertUnlessExists
<1>5. CASE ~HasEvent(event, f)
  <2>1. CASE triggered = event
    BY <1>1, <1>2, <1>5, <2>1 DEF InsertUnlessExists, c
  <2>2. CASE triggered = InsertUnlessExists(event, f, TriggerId)
    <3>1. triggered = [event EXCEPT ![TriggerId] = row]
      BY <1>5, <2>2 DEF InsertUnlessExists
    <3>2. HasEvent(triggered, f)
      BY <1>1, <3>1 DEF HasEvent, FreeEvents, TypeOK
    <3>3. event' = triggered
      BY <1>2, <3>2 DEF InsertUnlessExists
    <3>4. QED
      BY <1>1, <1>5, <3>1, <3>3 DEF c
  <2>3. QED
    BY <1>3, <2>1, <2>2
<1>6. QED
  BY <1>4, <1>5 DEF c
-----------------------------------------------------------------------------
(* Type correctness. *)

LEMMA TypeInit == Init => TypeOK
BY DEF Init, DetectedRow, TypeOK, FlagRow, AnomalyTypes, FlagStatuses

\* One step for each action of Next.
LEMMA TypeStep == TypeOK /\ [Next]_vars => TypeOK'
<1> SUFFICES ASSUME TypeOK, [Next]_vars PROVE TypeOK'
  OBVIOUS
<1>1. ASSUME NEW f \in Flags, NEW j \in Jobs, LinkFlag(f, j) PROVE TypeOK'
  BY <1>1 DEF LinkFlag, TypeOK, FlagRow
<1>2. ASSUME NEW u \in Auditors, NEW f \in Flags, NEW fraud \in {"TRUE", "FALSE"},
             NEW override \in Overrides, ConfirmRead(u, f, fraud, override)
      PROVE  TypeOK'
  <2>1. Classify(flag[f].type) \in Categories
    BY ClassifyCategory
  <2>2. request'[u] \in RequestRow
    BY <1>2, <2>1 DEF ConfirmRead, TypeOK, FlagRow, RequestRow, Categories
  <2>3. QED
    BY <1>2, <2>2 DEF ConfirmRead, TypeOK
<1>3. ASSUME NEW u \in Auditors, ConfirmWrite(u) PROVE TypeOK'
  <2> DEFINE f == request[u].flag
  <2>1. request[u] \in RequestRow /\ f \in Flags
    BY <1>3 DEF ConfirmWrite, TypeOK, RequestRow
  <2>2. flag' \in [Flags -> FlagRow]
    <3>1. flag[f] \in FlagRow
      BY <2>1 DEF TypeOK
    <3>2. QED
      BY <1>3, <2>1, <3>1
         DEF ConfirmWrite, TypeOK, RequestRow, FlagRow, FlagStatuses
  <2>3. event' \in [Events -> EventRow \cup {Absent}]
    BY <1>3, <2>1, ConfirmInsertsAtMostOne
       DEF TypeOK, EventRow, EventStatuses, PreSign, FreeEvents
  <2>4. reply' \in Events \cup {NoEvent}
    <3>1. HandlerId \in Events
      BY <1>3, FreshIds DEF ConfirmWrite, FreeEvents
    <3>2. QED
      BY <1>3, <3>1 DEF ConfirmWrite
  <2>5. QED
    BY <1>3, <2>2, <2>3, <2>4 DEF ConfirmWrite, TypeOK
<1>4. ASSUME NEW u \in Auditors, ConfirmAbort(u) PROVE TypeOK'
  BY <1>4 DEF ConfirmAbort, TypeOK
<1>5. ASSUME NEW f \in Flags, NEW s \in FlagStatuses, UpdateAnomalyStatus(f, s)
      PROVE  TypeOK'
  BY <1>5 DEF UpdateAnomalyStatus, TypeOK, FlagRow
<1>6. ASSUME NEW j \in Jobs, NEW o \in Outcomes, RecordFieldJobOutcome(j, o)
      PROVE  TypeOK'
  <2>1. outcome' \in [Jobs -> Outcomes \cup {"NULL"}]
    BY <1>6 DEF RecordFieldJobOutcome, TypeOK
  <2>2. CASE UNCHANGED <<flag, event>>
    BY <1>6, <2>1, <2>2 DEF RecordFieldJobOutcome, TypeOK
  <2>3. ASSUME NEW f \in Flags,
               flag' = [flag EXCEPT ![f] = AfterOutcome(flag[f], o)],
               event' \in {event, FieldVerify(event, f)}
        PROVE  TypeOK'
    <3>1. AfterOutcome(flag[f], o) \in FlagRow
      BY AfterOutcomeRow DEF TypeOK
    <3>2. FieldVerify(event, f) \in EventTable
      BY FieldVerifyTable DEF TypeOK, EventTable
    <3>3. QED
      BY <1>6, <2>1, <2>3, <3>1, <3>2
         DEF RecordFieldJobOutcome, TypeOK, EventTable
  <2>4. QED
    BY <1>6, <2>2, <2>3 DEF RecordFieldJobOutcome
<1>7. ASSUME NEW e \in Events, NEW ghs \in Amounts, ConfirmRecovery(e, ghs)
      PROVE  TypeOK'
  <2>1. event[e] \in EventRow
    BY <1>7 DEF ConfirmRecovery, TypeOK, Absent
  <2>2. [event[e] EXCEPT !.status = "CONFIRMED", !.recovered = ghs] \in EventRow
    BY <2>1 DEF EventRow, EventStatuses, PreSign
  <2>3. event' = [event EXCEPT ![e] =
          [event[e] EXCEPT !.status = "CONFIRMED", !.recovered = ghs]]
    BY <1>7, <2>1 DEF ConfirmRecovery, TypeOK, EventRow
  <2>4. QED
    BY <1>7, <2>2, <2>3 DEF ConfirmRecovery, TypeOK
<1>8. ASSUME NEW e \in Events, NEW ghs \in Amounts, CollectRecovery(e, ghs)
      PROVE  TypeOK'
  <2>1. event[e] \in EventRow
    BY <1>8 DEF CollectRecovery, TypeOK, Absent
  <2>2. [event[e] EXCEPT !.status = "COLLECTED", !.recovered = ghs] \in EventRow
    BY <2>1 DEF EventRow, EventStatuses
  <2>3. event' = [event EXCEPT ![e] =
          [event[e] EXCEPT !.status = "COLLECTED", !.recovered = ghs]]
    BY <1>8, <2>1 DEF CollectRecovery, TypeOK, EventRow
  <2>4. QED
    BY <1>8, <2>2, <2>3 DEF CollectRecovery, TypeOK
<1>9. ASSUME NEW a \in Audits, NEW f \in Flags, CreateAuditEvent(a, f)
      PROVE  TypeOK'
  BY <1>9 DEF CreateAuditEvent, TypeOK, AuditRow, NoAudit, WritableStatus
<1>10. ASSUME NEW a \in Audits, NEW s \in WritableStatus, UpdateAuditEvent(a, s)
       PROVE  TypeOK'
  BY <1>10 DEF UpdateAuditEvent, Mutable, TypeOK, AuditRow, NoAudit
<1>11. ASSUME NEW a \in Audits, LockAudit(a) PROVE TypeOK'
  <2>1. audit[a] \in AuditRow
    BY <1>11 DEF LockAudit, Mutable, TypeOK, NoAudit
  <2>2. [audit[a] EXCEPT !.locked = TRUE] \in AuditRow
    BY <2>1 DEF AuditRow
  <2>3. QED
    BY <1>11, <2>2 DEF LockAudit, TypeOK
<1>12. ASSUME NEW a \in Audits, AssignAuditEvent(a) PROVE TypeOK'
  BY <1>12 DEF AssignAuditEvent, Mutable, TypeOK, AuditRow, NoAudit, WritableStatus
<1>13. ASSUME NEW a \in Audits, UpdateGRAStatus(a) PROVE TypeOK'
  <2>1. Sign(event, audit[a].flag) \in EventTable
    BY SignTable DEF TypeOK, EventTable
  <2>2. QED
    BY <1>13, <2>1
       DEF UpdateGRAStatus, Mutable, TypeOK, AuditRow, NoAudit, EventTable
<1>14. CASE UNCHANGED vars
  BY <1>14 DEF vars, TypeOK
<1>15. QED
  BY <1>1, <1>2, <1>3, <1>4, <1>5, <1>6, <1>7, <1>8, <1>9, <1>10, <1>11, <1>12,
     <1>13, <1>14 DEF Next, FlagStep, EventStep, AuditStep

\* Every table holds rows of its type in every reachable state.
THEOREM TypeCorrect == Spec => []TypeOK
BY TypeInit, TypeStep, PTL DEF Spec
-----------------------------------------------------------------------------
(* How a step moves the event table: nothing; one event of a flag that had *)
(* none; or the events of one flag along the edges of the ledger.          *)

Opened(e, f) ==
    /\ event[e] = Absent
    /\ ~HasEvent(event, f)
    /\ event' = [event EXCEPT ![e] =
                   [flag |-> f, status |-> "PENDING", recovered |-> 0]]

Moved(f) ==
    \A e \in Events :
        \/ event'[e] = event[e]
        \/ /\ event[e].flag = f
           /\ event'[e].flag = f
           /\ <<event[e].status, event'[e].status>> \in Ledger!Edges

EventsMove ==
    \/ UNCHANGED event
    \/ \E e \in Events, f \in Flags : Opened(e, f)
    \/ \E f \in Flags : Moved(f)

LEMMA StepMovesEvents == TypeOK /\ [Next]_vars => EventsMove
<1> SUFFICES ASSUME TypeOK, [Next]_vars PROVE EventsMove
  OBVIOUS
<1> USE DEF EventsMove
<1>1. ASSUME NEW u \in Auditors, ConfirmWrite(u) PROVE EventsMove
  <2>1. request[u].flag \in Flags
    BY <1>1 DEF ConfirmWrite, TypeOK, RequestRow
  <2>2. QED
    BY <1>1, <2>1, ConfirmInsertsAtMostOne DEF Opened, FreeEvents
<1>2. ASSUME NEW j \in Jobs, NEW o \in Outcomes, RecordFieldJobOutcome(j, o)
      PROVE  EventsMove
  <2>1. ASSUME NEW f \in Flags, event' = FieldVerify(event, f) PROVE Moved(f)
    <3> SUFFICES ASSUME NEW e \in Events, event[e].flag = f,
                        event[e].status = "PENDING"
                 PROVE  /\ event'[e].flag = f
                        /\ <<"PENDING", event'[e].status>> \in Ledger!Edges
      BY <2>1 DEF Moved, FieldVerify
    <3>1. event[e] \in EventRow
      BY DEF TypeOK, Absent
    <3>2. event'[e] = [event[e] EXCEPT !.status = "FIELD_VERIFIED"]
      BY <2>1 DEF FieldVerify
    <3>3. QED
      BY <3>1, <3>2 DEF EventRow, Ledger!Edges
  <2>2. QED
    BY <1>2, <2>1 DEF RecordFieldJobOutcome
<1>3. ASSUME NEW e \in Events, NEW ghs \in Amounts,
             ConfirmRecovery(e, ghs) \/ CollectRecovery(e, ghs)
      PROVE  EventsMove
  <2>1. event[e] \in EventRow
    BY <1>3 DEF ConfirmRecovery, CollectRecovery, TypeOK, Absent
  <2>2. Moved(event[e].flag)
    BY <1>3, <2>1 DEF ConfirmRecovery, CollectRecovery, Moved, TypeOK, EventRow,
       Ledger!Edges
  <2>3. QED
    BY <2>1, <2>2 DEF EventRow
<1>4. ASSUME NEW a \in Audits, UpdateGRAStatus(a) PROVE EventsMove
  <2> DEFINE f == audit[a].flag
  <2>1. f \in Flags
    BY <1>4 DEF UpdateGRAStatus, Mutable, TypeOK, AuditRow, NoAudit
  <2>2. ASSUME NEW e \in Events, event[e].flag = f, event[e].status \in PreSign
        PROVE  /\ event'[e].flag = f
               /\ <<event[e].status, event'[e].status>> \in Ledger!Edges
    <3>1. event[e] \in EventRow
      BY <2>1, <2>2 DEF TypeOK, Absent
    <3>2. event'[e] = [event[e] EXCEPT !.status = "GRA_SIGNED"]
      BY <1>4, <2>2 DEF UpdateGRAStatus, Sign
    <3>3. QED
      BY <2>2, <3>1, <3>2 DEF EventRow, PreSign, Ledger!Edges
  <2>3. ASSUME NEW e \in Events, ~(event[e].flag = f /\ event[e].status \in PreSign)
        PROVE  event'[e] = event[e]
    BY <1>4, <2>3 DEF UpdateGRAStatus, Sign
  <2>4. Moved(f)
    BY <2>2, <2>3 DEF Moved
  <2>5. QED
    BY <2>1, <2>4
<1>5. CASE UNCHANGED event
  BY <1>5
<1>6. QED
  BY <1>1, <1>2, <1>3, <1>4, <1>5
     DEF Next, FlagStep, EventStep, AuditStep, vars, LinkFlag, ConfirmRead,
         ConfirmAbort, UpdateAnomalyStatus, CreateAuditEvent, UpdateAuditEvent,
         LockAudit, AssignAuditEvent
-----------------------------------------------------------------------------
(* One recovery event per flag. *)

LEMMA OneEventStep == TypeOK /\ TypeOK' /\ OneEventPerFlag /\ EventsMove
                        => OneEventPerFlag'
<1> SUFFICES ASSUME TypeOK, TypeOK', OneEventPerFlag, EventsMove
             PROVE  OneEventPerFlag'
  OBVIOUS
<1>1. ASSUME NEW e \in Events, NEW f \in Flags, Opened(e, f)
      PROVE  OneEventPerFlag'
  BY <1>1 DEF OneEventPerFlag, Opened, HasEvent, TypeOK, EventRow, Absent
<1>2. ASSUME NEW f \in Flags, Moved(f) PROVE OneEventPerFlag'
  <2>1. \A e \in Events : /\ event'[e].flag = event[e].flag
                          /\ event[e] = Absent => event'[e] = Absent
    BY <1>2 DEF Moved, Absent, Ledger!Edges
  <2>2. QED
    BY <2>1 DEF OneEventPerFlag
<1>3. QED
  BY <1>1, <1>2 DEF EventsMove, OneEventPerFlag

\* However many auditors confirm a flag, and although the trigger and the
\* handler both insert, it has at most one recovery event.
THEOREM AtMostOneEvent == Spec => []OneEventPerFlag
<1>1. Init => OneEventPerFlag
  BY DEF Init, OneEventPerFlag
<1>2. TypeOK /\ TypeOK' /\ OneEventPerFlag /\ [Next]_vars => OneEventPerFlag'
  BY StepMovesEvents, OneEventStep
<1>3. QED
  BY <1>1, <1>2, TypeCorrect, PTL DEF Spec
-----------------------------------------------------------------------------
(* The pipeline implements the ledger. *)

\* With one event per flag, a flag's line in the ledger is its event's status.
LEMMA StageOfEvent ==
    ASSUME NEW tbl, NEW e \in Events,
           \A d \in Events : tbl[d].flag = tbl[e].flag => d = e
    PROVE  LedgerStage(tbl, tbl[e].flag) = tbl[e].status
<1>1. HasEvent(tbl, tbl[e].flag)
  BY DEF HasEvent
<1>2. (CHOOSE d \in Events : tbl[d].flag = tbl[e].flag) = e
  OBVIOUS
<1>3. QED
  BY <1>1, <1>2 DEF LedgerStage

\* Flags whose events a step leaves alone keep their line.
LEMMA StageKept ==
    ASSUME NEW t1, NEW t2, NEW f,
           \A e \in Events : t1[e].flag = f \/ t2[e].flag = f => t1[e] = t2[e]
    PROVE  LedgerStage(t1, f) = LedgerStage(t2, f)
<1>1. HasEvent(t1, f) <=> HasEvent(t2, f)
  BY DEF HasEvent
<1>2. (CHOOSE e \in Events : t1[e].flag = f) = (CHOOSE e \in Events : t2[e].flag = f)
  <2>1. \A e \in Events : t1[e].flag = f <=> t2[e].flag = f
    OBVIOUS
  <2>2. QED
    BY <2>1
<1>3. CASE HasEvent(t1, f)
  <2> DEFINE e == CHOOSE x \in Events : t1[x].flag = f
  <2>1. e \in Events /\ t1[e].flag = f
    BY <1>3 DEF HasEvent
  <2>2. QED
    BY <1>1, <1>2, <1>3, <2>1 DEF LedgerStage
<1>4. CASE ~HasEvent(t1, f)
  BY <1>1, <1>4 DEF LedgerStage
<1>5. QED
  BY <1>3, <1>4

LEMMA EventsMoveLedger ==
    TypeOK /\ TypeOK' /\ OneEventPerFlag /\ OneEventPerFlag' /\ EventsMove
      => [Ledger!Next]_([f \in Flags |-> LedgerStage(event, f)])
<1> SUFFICES ASSUME TypeOK, TypeOK', OneEventPerFlag, OneEventPerFlag', EventsMove
             PROVE  [Ledger!Next]_([f \in Flags |-> LedgerStage(event, f)])
  OBVIOUS
<1> DEFINE line(f) == LedgerStage(event, f)
           stage == [f \in Flags |-> line(f)]
<1>1. ASSUME NEW e \in Events, NEW f \in Flags, Opened(e, f)
      PROVE  Ledger!Open(f)
  <2>1. line(f) = "NONE"
    BY <1>1 DEF Opened, LedgerStage
  <2>2. event'[e].flag = f /\ event'[e].status = "PENDING" /\ event'[e] # Absent
    BY <1>1 DEF Opened, TypeOK, Absent
  <2>3. LedgerStage(event', f) = "PENDING"
    BY <2>2, StageOfEvent DEF OneEventPerFlag
  <2>4. ASSUME NEW g \in Flags, g # f PROVE LedgerStage(event', g) = line(g)
    <3>1. \A d \in Events : event[d].flag = g \/ event'[d].flag = g
                              => event[d] = event'[d]
      BY <1>1, <2>2, <2>4 DEF Opened, Absent, TypeOK
    <3>2. QED
      BY <3>1, StageKept
  <2>5. QED
    BY <2>1, <2>3, <2>4 DEF Ledger!Open
<1>2. ASSUME NEW f \in Flags, Moved(f) PROVE Ledger!Advance(f) \/ UNCHANGED stage
  <2>1. ASSUME NEW g \in Flags, g # f PROVE LedgerStage(event', g) = line(g)
    <3>1. \A d \in Events : event[d].flag = g \/ event'[d].flag = g
                              => event[d] = event'[d]
      BY <1>2, <2>1 DEF Moved
    <3>2. QED
      BY <3>1, StageKept
  <2>2. CASE \E e \in Events : event[e].flag = f /\ event'[e] # event[e]
    <3> PICK e \in Events : event[e].flag = f /\ event'[e] # event[e]
      BY <2>2
    <3>1. /\ event'[e].flag = f
          /\ <<event[e].status, event'[e].status>> \in Ledger!Edges
      BY <1>2 DEF Moved
    <3>2. event[e] # Absent /\ event'[e] # Absent
      BY <3>1 DEF Absent
    <3>3. line(f) = event[e].status /\ LedgerStage(event', f) = event'[e].status
      BY <3>1, <3>2, StageOfEvent DEF OneEventPerFlag
    <3>4. event'[e].status \in {"FIELD_VERIFIED", "CONFIRMED", "GRA_SIGNED",
                                "COLLECTED"}
      BY <3>1 DEF Ledger!Edges
    <3>5. QED
      BY <2>1, <3>1, <3>3, <3>4 DEF Ledger!Advance
  <2>3. CASE \A e \in Events : event[e].flag = f => event'[e] = event[e]
    <3>1. \A d \in Events : event'[d] = event[d]
      BY <1>2, <2>3 DEF Moved
    <3>2. LedgerStage(event', f) = line(f)
      BY <3>1, StageKept
    <3>3. QED
      BY <2>1, <3>2
  <2>4. QED
    BY <2>2, <2>3
<1>3. QED
  BY <1>1, <1>2 DEF EventsMove, Ledger!Next

\* The tables implement the abstract ledger: the recovery of a flag is opened
\* once and then only advances along the documented transitions.
THEOREM Refinement == Spec => ImplementsLedger
<1>1. Init => Ledger!Init
  BY DEF Init, Ledger!Init, LedgerStage, HasEvent, Absent
<1>2. TypeOK /\ TypeOK' /\ OneEventPerFlag /\ OneEventPerFlag' /\ [Next]_vars
        => [Ledger!Next]_([f \in Flags |-> LedgerStage(event, f)])
  BY StepMovesEvents, EventsMoveLedger
<1>3. QED
  BY <1>1, <1>2, TypeCorrect, AtMostOneEvent, PTL
     DEF Spec, ImplementsLedger, Ledger!Spec
-----------------------------------------------------------------------------
(* Amounts, visits and signatures. *)

\* An event carries a positive amount when it is CONFIRMED or COLLECTED, and
\* none before it is confirmed.
THEOREM AmountsFollowStatuses == Spec => []AmountFollowsStatus
<1>1. Init => AmountFollowsStatus
  BY DEF Init, AmountFollowsStatus, Absent
<1>2. TypeOK /\ AmountFollowsStatus /\ [Next]_vars => AmountFollowsStatus'
  <2> SUFFICES ASSUME TypeOK, AmountFollowsStatus, [Next]_vars
               PROVE  AmountFollowsStatus'
    OBVIOUS
  <2>1. ASSUME NEW u \in Auditors, ConfirmWrite(u) PROVE AmountFollowsStatus'
    BY <2>1, ConfirmInsertsAtMostOne DEF AmountFollowsStatus, TypeOK, FreeEvents
  <2>2. ASSUME NEW j \in Jobs, NEW o \in Outcomes, RecordFieldJobOutcome(j, o)
        PROVE  AmountFollowsStatus'
    <3>1. ASSUME NEW f \in Flags, event' = FieldVerify(event, f), NEW e \in Events
          PROVE  \/ event'[e] = event[e]
                 \/ /\ event[e].status = "PENDING"
                    /\ event'[e].status = "FIELD_VERIFIED"
                    /\ event'[e].recovered = event[e].recovered
      BY <3>1 DEF FieldVerify, TypeOK, EventRow, Absent
    <3>2. QED
      BY <2>2, <3>1 DEF RecordFieldJobOutcome, AmountFollowsStatus
  <2>3. ASSUME NEW e \in Events, NEW ghs \in Amounts,
               ConfirmRecovery(e, ghs) \/ CollectRecovery(e, ghs)
        PROVE  AmountFollowsStatus'
    <3>1. event[e] \in EventRow
      BY <2>3 DEF ConfirmRecovery, CollectRecovery, TypeOK, Absent
    <3>2. /\ event'[e].status \in {"CONFIRMED", "COLLECTED"}
          /\ event'[e].recovered = ghs
          /\ ghs > 0
      BY <2>3, <3>1 DEF ConfirmRecovery, CollectRecovery, TypeOK, EventRow
    <3>3. \A d \in Events \ {e} : event'[d] = event[d]
      BY <2>3 DEF ConfirmRecovery, CollectRecovery, TypeOK
    <3>4. QED
      BY <3>2, <3>3 DEF AmountFollowsStatus
  <2>4. ASSUME NEW a \in Audits, UpdateGRAStatus(a) PROVE AmountFollowsStatus'
    <3>1. \A e \in Events : event'[e] = event[e] \/ event'[e].status = "GRA_SIGNED"
      <4> SUFFICES ASSUME NEW e \in Events, event[e].status \in PreSign,
                          event'[e] = [event[e] EXCEPT !.status = "GRA_SIGNED"]
                   PROVE  event'[e].status = "GRA_SIGNED"
        BY <2>4 DEF UpdateGRAStatus, Sign
      <4>1. event[e] \in EventRow
        BY DEF TypeOK, Absent, PreSign
      <4>2. QED
        BY <4>1 DEF EventRow
    <3>2. QED
      BY <3>1 DEF AmountFollowsStatus
  <2>5. CASE UNCHANGED event
    BY <2>5 DEF AmountFollowsStatus
  <2>6. QED
    BY <2>1, <2>2, <2>3, <2>4, <2>5
       DEF Next, FlagStep, EventStep, AuditStep, vars, LinkFlag, ConfirmRead,
           ConfirmAbort, UpdateAnomalyStatus, CreateAuditEvent, UpdateAuditEvent,
           LockAudit, AssignAuditEvent
<1>3. QED
  BY <1>1, <1>2, TypeCorrect, PTL DEF Spec

\* A visited flag keeps its job, and a job its outcome.
LEMMA JobsStay ==
    TypeOK /\ [Next]_vars =>
      /\ \A f \in Flags : flag[f].job # NoJob => flag'[f].job = flag[f].job
      /\ \A j \in Jobs : outcome[j] # "NULL" => outcome'[j] # "NULL"
<1> SUFFICES ASSUME TypeOK, [Next]_vars
             PROVE  /\ \A f \in Flags : flag[f].job # NoJob
                                          => flag'[f].job = flag[f].job
                    /\ \A j \in Jobs : outcome[j] # "NULL" => outcome'[j] # "NULL"
  OBVIOUS
<1>1. \A j \in Jobs : outcome[j] # "NULL" => outcome'[j] # "NULL"
  BY DEF Next, FlagStep, EventStep, AuditStep, vars, LinkFlag, ConfirmRead,
         ConfirmWrite, ConfirmAbort, UpdateAnomalyStatus, RecordFieldJobOutcome,
         ConfirmRecovery, CollectRecovery, CreateAuditEvent, UpdateAuditEvent,
         LockAudit, AssignAuditEvent, UpdateGRAStatus, TypeOK
<1>2. ASSUME NEW f \in Flags, NEW j \in Jobs, LinkFlag(f, j)
      PROVE  \A g \in Flags : flag[g].job # NoJob => flag'[g].job = flag[g].job
  BY <1>2 DEF LinkFlag, TypeOK
<1>3. ASSUME NEW u \in Auditors, ConfirmWrite(u)
      PROVE  \A g \in Flags : flag'[g].job = flag[g].job
  <2>1. request[u].flag \in Flags
    BY <1>3 DEF ConfirmWrite, TypeOK, RequestRow
  <2>2. flag[request[u].flag] \in FlagRow
    BY <2>1 DEF TypeOK
  <2>3. QED
    BY <1>3, <2>1, <2>2 DEF ConfirmWrite, TypeOK, FlagRow
<1>4. ASSUME NEW f \in Flags, NEW s \in FlagStatuses, UpdateAnomalyStatus(f, s)
      PROVE  \A g \in Flags : flag'[g].job = flag[g].job
  BY <1>4 DEF UpdateAnomalyStatus, TypeOK, FlagRow
<1>5. ASSUME NEW j \in Jobs, NEW o \in Outcomes, RecordFieldJobOutcome(j, o)
      PROVE  \A g \in Flags : flag'[g].job = flag[g].job
  <2>1. \A g \in Flags : AfterOutcome(flag[g], o).job = flag[g].job
    BY AfterOutcomeRow DEF TypeOK
  <2>2. QED
    BY <1>5, <2>1 DEF RecordFieldJobOutcome, TypeOK
<1>6. ASSUME UNCHANGED flag
      PROVE  \A g \in Flags : flag'[g].job = flag[g].job
  BY <1>6
<1>7. \A f \in Flags : flag[f].job # NoJob => flag'[f].job = flag[f].job
  BY <1>2, <1>3, <1>4, <1>5, <1>6
     DEF Next, FlagStep, EventStep, AuditStep, vars, ConfirmRead, ConfirmAbort,
         ConfirmRecovery, CollectRecovery, CreateAuditEvent, UpdateAuditEvent,
         LockAudit, AssignAuditEvent, UpdateGRAStatus
<1>8. QED
  BY <1>1, <1>7

\* Nothing but a recorded field visit verifies an event.
THEOREM VerifiedOnlyByVisit == Spec => []VerifiedByVisit
<1>1. Init => VerifiedByVisit
  BY DEF Init, VerifiedByVisit, Absent
<1>2. TypeOK /\ TypeOK' /\ VerifiedByVisit /\ [Next]_vars => VerifiedByVisit'
  <2> SUFFICES ASSUME TypeOK, TypeOK', VerifiedByVisit, [Next]_vars,
                      NEW e \in Events, event'[e].status = "FIELD_VERIFIED"
               PROVE  /\ flag'[event'[e].flag].job # NoJob
                      /\ outcome'[flag'[event'[e].flag].job] # "NULL"
    BY DEF VerifiedByVisit
  <2>1. CASE /\ event[e].flag = event'[e].flag
             /\ event[e].status = "FIELD_VERIFIED"
    <3>1. event[e].flag \in Flags
      BY <2>1 DEF TypeOK, EventRow, Absent
    <3>2. flag[event[e].flag].job \in Jobs
      BY <2>1, <3>1 DEF VerifiedByVisit, TypeOK, FlagRow
    <3>3. QED
      BY <2>1, <3>1, <3>2, JobsStay DEF VerifiedByVisit
  <2>2. CASE ~(/\ event[e].flag = event'[e].flag
               /\ event[e].status = "FIELD_VERIFIED")
    <3>1. PICK j \in Jobs, o \in Outcomes, f \in Flags :
             /\ RecordFieldJobOutcome(j, o)
             /\ flag[f].job = j
             /\ event' = FieldVerify(event, f)
      <4>1. ASSUME NEW u \in Auditors, ConfirmWrite(u) PROVE FALSE
        BY <2>2, <4>1, ConfirmInsertsAtMostOne DEF TypeOK, FreeEvents
      <4>2. ASSUME NEW d \in Events, NEW ghs \in Amounts,
                   ConfirmRecovery(d, ghs) \/ CollectRecovery(d, ghs)
            PROVE  FALSE
        BY <2>2, <4>2 DEF ConfirmRecovery, CollectRecovery, TypeOK, EventRow, Absent
      <4>3. ASSUME NEW a \in Audits, UpdateGRAStatus(a) PROVE FALSE
        <5>1. event'[e] # event[e]
          BY <2>2
        <5>2. /\ event[e].status \in PreSign
              /\ event'[e] = [event[e] EXCEPT !.status = "GRA_SIGNED"]
          BY <4>3, <5>1 DEF UpdateGRAStatus, Sign
        <5>3. event[e] \in EventRow
          BY <5>2 DEF TypeOK, Absent, PreSign
        <5>4. QED
          BY <5>2, <5>3 DEF EventRow
      <4>4. CASE UNCHANGED event
        BY <2>2, <4>4
      <4>5. QED
        BY <4>1, <4>2, <4>3, <4>4
           DEF Next, FlagStep, EventStep, AuditStep, vars, LinkFlag, ConfirmRead,
               ConfirmAbort, UpdateAnomalyStatus, CreateAuditEvent,
               UpdateAuditEvent, LockAudit, AssignAuditEvent, RecordFieldJobOutcome
    <3>2. event[e].flag = f /\ event'[e].flag = f
      <4>1. event'[e] # event[e]
        BY <2>2
      <4>2. /\ event[e].flag = f
            /\ event[e].status = "PENDING"
            /\ event'[e] = [event[e] EXCEPT !.status = "FIELD_VERIFIED"]
        BY <3>1, <4>1 DEF FieldVerify
      <4>3. event[e] \in EventRow
        BY <4>2 DEF TypeOK, Absent
      <4>4. QED
        BY <4>2, <4>3 DEF EventRow
    <3>3. flag'[f].job = j /\ j # NoJob
      BY <3>1, JobsStay
    <3>4. outcome'[j] # "NULL"
      BY <3>1 DEF RecordFieldJobOutcome, TypeOK
    <3>5. QED
      BY <3>2, <3>3, <3>4
  <2>3. QED
    BY <2>1, <2>2
<1>3. QED
  BY <1>1, <1>2, TypeCorrect, PTL DEF Spec

\* A signature, once given, stays with its flag, whatever becomes of the audit
\* event; and only UpdateGRAStatus gives one.
LEMMA SignaturesStay ==
    TypeOK /\ [Next]_vars =>
      \A a \in Audits :
        /\ audit[a].gra = "SIGNED" => /\ audit'[a].gra = "SIGNED"
                                      /\ audit'[a].flag = audit[a].flag
        /\ audit[a].gra = "PENDING" /\ audit'[a].gra = "SIGNED"
             => UpdateGRAStatus(a)
<1> SUFFICES ASSUME TypeOK, [Next]_vars, NEW a \in Audits
             PROVE  /\ audit[a].gra = "SIGNED" =>
                         /\ audit'[a].gra = "SIGNED"
                         /\ audit'[a].flag = audit[a].flag
                    /\ audit[a].gra = "PENDING" /\ audit'[a].gra = "SIGNED"
                         => UpdateGRAStatus(a)
  OBVIOUS
<1> DEFINE Stays == audit'[a].gra = audit[a].gra
                    /\ (audit[a].gra = "SIGNED" => audit'[a].flag = audit[a].flag)
<1>1. ASSUME NEW b \in Audits, NEW f \in Flags, CreateAuditEvent(b, f) PROVE Stays
  BY <1>1 DEF CreateAuditEvent, TypeOK, NoAudit
<1>2. ASSUME NEW b \in Audits, NEW s \in WritableStatus,
             UpdateAuditEvent(b, s) \/ LockAudit(b) \/ AssignAuditEvent(b)
      PROVE  Stays
  <2>1. audit[b] \in AuditRow
    BY <1>2 DEF UpdateAuditEvent, LockAudit, AssignAuditEvent, Mutable, TypeOK,
       NoAudit
  <2>2. QED
    BY <1>2, <2>1 DEF UpdateAuditEvent, LockAudit, AssignAuditEvent, TypeOK, AuditRow
<1>3. ASSUME NEW b \in Audits, UpdateGRAStatus(b)
      PROVE  /\ audit'[a].flag = audit[a].flag
             /\ a = b \/ audit'[a].gra = audit[a].gra
             /\ a = b => audit'[a].gra = "SIGNED"
  <2>1. audit[b] \in AuditRow
    BY <1>3 DEF UpdateGRAStatus, Mutable, TypeOK, NoAudit
  <2>2. QED
    BY <1>3, <2>1 DEF UpdateGRAStatus, TypeOK, AuditRow
<1>4. CASE UNCHANGED audit
  BY <1>4
<1>5. "PENDING" \in WritableStatus
  BY DEF WritableStatus
<1>6. QED
  BY <1>1, <1>2, <1>3, <1>4, <1>5
     DEF Next, FlagStep, EventStep, AuditStep, vars, LinkFlag, ConfirmRead,
         ConfirmWrite, ConfirmAbort, UpdateAnomalyStatus, RecordFieldJobOutcome,
         ConfirmRecovery, CollectRecovery

\* A GRA_SIGNED event is backed by a signed audit event of its flag.
THEOREM SignedEventsAreBacked == Spec => []GraSignedIsBacked
<1>1. Init => GraSignedIsBacked
  BY DEF Init, GraSignedIsBacked, Absent
<1>2. TypeOK /\ TypeOK' /\ GraSignedIsBacked /\ [Next]_vars => GraSignedIsBacked'
  <2> SUFFICES ASSUME TypeOK, TypeOK', GraSignedIsBacked, [Next]_vars,
                      NEW e \in Events, event'[e].status = "GRA_SIGNED"
               PROVE  \E a \in Audits : /\ audit'[a].flag = event'[e].flag
                                        /\ audit'[a].gra = "SIGNED"
    BY DEF GraSignedIsBacked
  <2>1. CASE event[e].flag = event'[e].flag /\ event[e].status = "GRA_SIGNED"
    BY <2>1, SignaturesStay DEF GraSignedIsBacked
  <2>2. ASSUME NEW a \in Audits, UpdateGRAStatus(a), event'[e] # event[e]
        PROVE  audit'[a].flag = event'[e].flag /\ audit'[a].gra = "SIGNED"
    <3>1. /\ event[e].flag = audit[a].flag
          /\ event[e].status \in PreSign
          /\ event'[e] = [event[e] EXCEPT !.status = "GRA_SIGNED"]
      BY <2>2 DEF UpdateGRAStatus, Sign
    <3>2. event[e] \in EventRow /\ audit[a] \in AuditRow
      BY <2>2, <3>1 DEF TypeOK, Absent, PreSign, UpdateGRAStatus, Mutable, NoAudit
    <3>3. QED
      BY <2>2, <3>1, <3>2 DEF UpdateGRAStatus, TypeOK, EventRow, AuditRow
  <2>3. CASE ~(event[e].flag = event'[e].flag /\ event[e].status = "GRA_SIGNED")
    <3>1. ASSUME NEW u \in Auditors, ConfirmWrite(u) PROVE FALSE
      BY <2>3, <3>1, ConfirmInsertsAtMostOne DEF TypeOK, FreeEvents
    <3>2. ASSUME NEW d \in Events, NEW ghs \in Amounts,
                 ConfirmRecovery(d, ghs) \/ CollectRecovery(d, ghs)
          PROVE  FALSE
      BY <2>3, <3>2 DEF ConfirmRecovery, CollectRecovery, TypeOK, EventRow, Absent
    <3>3. ASSUME NEW j \in Jobs, NEW o \in Outcomes, RecordFieldJobOutcome(j, o)
          PROVE  FALSE
      <4>1. PICK f \in Flags : event' = FieldVerify(event, f)
        BY <2>3, <3>3 DEF RecordFieldJobOutcome
      <4>2. /\ event[e].status = "PENDING"
            /\ event'[e] = [event[e] EXCEPT !.status = "FIELD_VERIFIED"]
        BY <2>3, <4>1 DEF FieldVerify
      <4>3. event[e] \in EventRow
        BY <4>2 DEF TypeOK, Absent
      <4>4. QED
        BY <4>2, <4>3 DEF EventRow
    <3>4. CASE UNCHANGED event
      BY <2>3, <3>4
    <3>5. QED
      BY <2>2, <2>3, <3>1, <3>2, <3>3, <3>4
         DEF Next, FlagStep, EventStep, AuditStep, vars, LinkFlag, ConfirmRead,
             ConfirmAbort, UpdateAnomalyStatus, CreateAuditEvent,
             UpdateAuditEvent, LockAudit, AssignAuditEvent
  <2>4. QED
    BY <2>1, <2>3
<1>3. QED
  BY <1>1, <1>2, TypeCorrect, PTL DEF Spec
-----------------------------------------------------------------------------
(* What a single step may not do. *)

\* An event is inserted only by the step that confirms its flag as fraud in
\* category REVENUE_LEAKAGE.
THEOREM BornFromConfirmedLeakage == Spec => EventsBornFromConfirmedLeakage
<1> DEFINE Born == \A e \in Events : event[e] = Absent /\ event'[e] # Absent =>
                     LET f == event'[e].flag
                     IN flag'[f].fraud = "TRUE" /\ flag'[f].category = "REVENUE_LEAKAGE"
<1>1. TypeOK /\ TypeOK' /\ [Next]_vars => Born
  <2> SUFFICES ASSUME TypeOK, TypeOK', [Next]_vars, NEW e \in Events,
                      event[e] = Absent, event'[e] # Absent
               PROVE  /\ flag'[event'[e].flag].fraud = "TRUE"
                      /\ flag'[event'[e].flag].category = "REVENUE_LEAKAGE"
    OBVIOUS
  <2>1. PICK u \in Auditors : ConfirmWrite(u)
    <3>1. ASSUME NEW d \in Events, NEW ghs \in Amounts,
                 ConfirmRecovery(d, ghs) \/ CollectRecovery(d, ghs)
          PROVE  FALSE
      BY <3>1 DEF ConfirmRecovery, CollectRecovery, TypeOK, Absent
    <3>2. ASSUME NEW j \in Jobs, NEW o \in Outcomes, RecordFieldJobOutcome(j, o)
          PROVE  FALSE
      BY <3>2 DEF RecordFieldJobOutcome, FieldVerify, Absent
    <3>3. ASSUME NEW a \in Audits, UpdateGRAStatus(a) PROVE FALSE
      BY <3>3 DEF UpdateGRAStatus, Sign, PreSign, Absent
    <3>4. CASE UNCHANGED event
      BY <3>4
    <3>5. QED
      BY <3>1, <3>2, <3>3, <3>4
         DEF Next, FlagStep, EventStep, AuditStep, vars, LinkFlag, ConfirmRead,
             ConfirmAbort, UpdateAnomalyStatus, CreateAuditEvent,
             UpdateAuditEvent, LockAudit, AssignAuditEvent
  <2> DEFINE f == request[u].flag
  <2>2. request[u] \in RequestRow /\ f \in Flags
    BY <2>1 DEF ConfirmWrite, TypeOK, RequestRow
  <2>3. /\ flag'[f].fraud = request[u].fraud
        /\ flag'[f].category = request[u].category
    <3>1. flag[f] \in FlagRow
      BY <2>2 DEF TypeOK
    <3>2. QED
      BY <2>1, <2>2, <3>1 DEF ConfirmWrite, TypeOK, FlagRow
  <2>4. event'[e].flag = f
    BY <2>1, <2>2, ConfirmInsertsAtMostOne DEF TypeOK, FreeEvents
  <2>5. request[u].fraud = "TRUE" /\ request[u].category = "REVENUE_LEAKAGE"
    <3> DEFINE new == [flag[f] EXCEPT !.fraud = request[u].fraud,
                         !.category = request[u].category,
                         !.status = IF request[u].fraud = "TRUE" THEN "CONFIRMED"
                                    ELSE "FALSE_POSITIVE"]
    <3>1. new.fraud = request[u].fraud /\ new.category = request[u].category
      BY <2>2 DEF TypeOK, FlagRow
    <3>2. CASE ~(request[u].fraud = "TRUE" /\ request[u].category = "REVENUE_LEAKAGE")
      <4>1. AutoCreate(event, flag[f], new, f, TriggerId) = event
        BY <3>1, <3>2 DEF AutoCreate
      <4>2. event' = event
        BY <2>1, <3>2, <4>1 DEF ConfirmWrite
      <4>3. QED
        BY <4>2
    <3>3. QED
      BY <3>2
  <2>6. QED
    BY <2>3, <2>4, <2>5
<1>2. TypeOK /\ TypeOK' /\ [Next]_vars => [Born]_vars
  BY <1>1
<1>3. QED
  BY <1>2, TypeCorrect, PTL DEF Spec, EventsBornFromConfirmedLeakage

\* The step that signs an audit event leaves no event of its flag unsigned.
THEOREM SigningSweeps == Spec => SigningSweepsEvents
<1> DEFINE Sweeps == \A a \in Audits :
                       audit[a].gra = "PENDING" /\ audit'[a].gra = "SIGNED" =>
                         \A e \in Events : event[e].flag = audit[a].flag =>
                           event'[e].status \in {"GRA_SIGNED", "COLLECTED"}
<1>1. TypeOK /\ [Next]_vars => Sweeps
  <2> SUFFICES ASSUME TypeOK, [Next]_vars, NEW a \in Audits,
                      audit[a].gra = "PENDING", audit'[a].gra = "SIGNED",
                      NEW e \in Events, event[e].flag = audit[a].flag
               PROVE  event'[e].status \in {"GRA_SIGNED", "COLLECTED"}
    OBVIOUS
  <2>1. UpdateGRAStatus(a)
    BY SignaturesStay
  <2>2. event[e] \in EventRow
    BY <2>1 DEF UpdateGRAStatus, Mutable, TypeOK, AuditRow, NoAudit, Absent
  <2>3. CASE event[e].status \in PreSign
    <3>1. event'[e] = [event[e] EXCEPT !.status = "GRA_SIGNED"]
      BY <2>1, <2>3 DEF UpdateGRAStatus, Sign
    <3>2. QED
      BY <2>2, <3>1 DEF EventRow
  <2>4. CASE event[e].status \notin PreSign
    <3>1. event'[e] = event[e]
      BY <2>1, <2>4 DEF UpdateGRAStatus, Sign
    <3>2. QED
      BY <2>2, <2>4, <3>1 DEF EventRow, EventStatuses
  <2>5. QED
    BY <2>3, <2>4
<1>2. TypeOK /\ [Next]_vars => [Sweeps]_vars
  BY <1>1
<1>3. QED
  BY <1>2, TypeCorrect, PTL DEF Spec, SigningSweepsEvents
-----------------------------------------------------------------------------
(* What a line of the ledger and the row behind it may never do.           *)

LineRank(s) == CASE s = "PENDING"        -> 1
                 [] s = "FIELD_VERIFIED" -> 2
                 [] s = "CONFIRMED"      -> 3
                 [] s = "GRA_SIGNED"     -> 4
                 [] s = "COLLECTED"      -> 5
                 [] OTHER                -> 0

\* The ledger keeps its word by itself: every change of a line takes it
\* further, so that a line changes at most five times, an opened one is never
\* closed and a collected one never changes.
THEOREM LedgerOnlyRises ==
    Ledger!Spec => [][\A f \in Flags :
                        LET old == LedgerStage(event, f)
                            new == LedgerStage(event, f)'
                        IN  /\ new # old => LineRank(new) > LineRank(old)
                            /\ LineRank(new) \in 0..5]_event
<1> DEFINE line == [f \in Flags |-> LedgerStage(event, f)]
           Rises == \A f \in Flags :
                      LET old == LedgerStage(event, f)
                          new == LedgerStage(event, f)'
                      IN  /\ new # old => LineRank(new) > LineRank(old)
                          /\ LineRank(new) \in 0..5
<1>1. [Ledger!Next]_line => Rises
  <2> SUFFICES ASSUME [Ledger!Next]_line, NEW g \in Flags
               PROVE  /\ line'[g] # line[g] => LineRank(line'[g]) > LineRank(line[g])
                      /\ LineRank(line'[g]) \in 0..5
    OBVIOUS
  <2>1. LineRank(line'[g]) \in 0..5
    BY DEF LineRank
  <2>2. ASSUME NEW f \in Flags, Ledger!Open(f) \/ Ledger!Advance(f), f # g
        PROVE  line'[g] = line[g]
    BY <2>2 DEF Ledger!Open, Ledger!Advance
  <2>3. CASE Ledger!Open(g)
    <3>1. line[g] = "NONE" /\ line'[g] = "PENDING"
      BY <2>3 DEF Ledger!Open
    <3> QED BY <2>1, <3>1 DEF LineRank
  <2>4. CASE Ledger!Advance(g)
    <3>1. <<line[g], line'[g]>> \in Ledger!Edges
      BY <2>4 DEF Ledger!Advance
    <3> QED BY <2>1, <3>1 DEF Ledger!Edges, LineRank
  <2>5. CASE line' = line
    BY <2>1, <2>5
  <2> QED BY <2>1, <2>2, <2>3, <2>4, <2>5 DEF Ledger!Next
<1>2. [Ledger!Next]_line => [Rises]_event
  BY <1>1
<1> QED BY <1>2, PTL DEF Ledger!Spec

\* The row of a recovery event stays with its flag, every write moves its status
\* on, an amount once recorded is never lost, and a collected row is final,
\* whichever of the confirmation, the visit, the signature and the collection
\* comes when (revenue_handler.go, migration 032).
THEOREM RecoveredIsKept ==
    Spec => [][\A e \in Events :
                 /\ event[e] # Absent => event'[e].flag = event[e].flag
                 /\ event'[e] # event[e] =>
                      LineRank(event'[e].status) > LineRank(event[e].status)
                 /\ event[e].recovered > 0 => event'[e].recovered > 0
                 /\ event[e].status = "COLLECTED" => event'[e] = event[e]]_vars
<1> DEFINE Kept(e) ==
             /\ event[e] # Absent => event'[e].flag = event[e].flag
             /\ event'[e] # event[e] =>
                  LineRank(event'[e].status) > LineRank(event[e].status)
             /\ event[e].recovered > 0 => event'[e].recovered > 0
             /\ event[e].status = "COLLECTED" => event'[e] = event[e]
           All == \A e \in Events : Kept(e)
<1>1. TypeOK /\ [Next]_vars => All
  <2> SUFFICES ASSUME TypeOK, [Next]_vars, NEW e \in Events PROVE Kept(e)
    OBVIOUS
  <2>0. event[e] = Absent \/ event[e] \in EventRow
    BY DEF TypeOK
  <2>1. CASE event'[e] = event[e]
    BY <2>1
  <2>2. ASSUME event[e] = Absent, event'[e].status = "PENDING" PROVE Kept(e)
    BY <2>2 DEF Absent, LineRank
  <2>3. ASSUME event[e] \in EventRow, event[e].status \in PreSign,
               event'[e] = [event[e] EXCEPT !.status = "GRA_SIGNED"]
        PROVE  Kept(e)
    BY <2>3 DEF EventRow, PreSign, LineRank
  <2>4. ASSUME event[e] \in EventRow, event[e].status = "PENDING",
               event'[e] = [event[e] EXCEPT !.status = "FIELD_VERIFIED"]
        PROVE  Kept(e)
    BY <2>4 DEF EventRow, LineRank
  <2>5. ASSUME NEW u \in Auditors, ConfirmWrite(u) PROVE Kept(e)
    <3>1. event'[e] = event[e] \/ (event[e] = Absent /\ event'[e].status = "PENDING")
      BY <2>5, ConfirmInsertsAtMostOne DEF FreeEvents, TypeOK
    <3> QED BY <2>1, <2>2, <3>1
  <2>6. ASSUME NEW j \in Jobs, NEW o \in Outcomes, RecordFieldJobOutcome(j, o)
        PROVE  Kept(e)
    <3>1. ASSUME NEW f \in Flags, event' = FieldVerify(event, f) PROVE Kept(e)
      <4>1. \/ event'[e] = event[e]
            \/ /\ event[e].status = "PENDING"
               /\ event'[e] = [event[e] EXCEPT !.status = "FIELD_VERIFIED"]
        BY <3>1 DEF FieldVerify
      <4> QED BY <2>0, <2>1, <2>4, <4>1 DEF Absent
    <3> QED BY <2>1, <2>6, <3>1 DEF RecordFieldJobOutcome
  <2>7. ASSUME NEW d \in Events, NEW ghs \in Amounts,
               ConfirmRecovery(d, ghs) \/ CollectRecovery(d, ghs)
        PROVE  Kept(e)
    <3>1. CASE d # e
      BY <2>1, <2>7, <3>1 DEF ConfirmRecovery, CollectRecovery, TypeOK
    <3>2. CASE d = e
      <4>1. event[e] \in EventRow
        BY <2>0, <2>7, <3>2 DEF ConfirmRecovery, CollectRecovery, Absent
      <4>2. CASE ConfirmRecovery(e, ghs)
        <5>1. /\ event'[e].flag = event[e].flag
              /\ event'[e].status = "CONFIRMED" /\ event'[e].recovered = ghs
              /\ ghs > 0 /\ event[e].status \in {"PENDING", "FIELD_VERIFIED"}
          BY <4>1, <4>2 DEF ConfirmRecovery, TypeOK, EventRow
        <5> QED BY <5>1 DEF LineRank
      <4>3. CASE CollectRecovery(e, ghs)
        <5>1. /\ event'[e].flag = event[e].flag
              /\ event'[e].status = "COLLECTED" /\ event'[e].recovered = ghs
              /\ ghs > 0 /\ event[e].status \in {"CONFIRMED", "GRA_SIGNED"}
          BY <4>1, <4>3 DEF CollectRecovery, TypeOK, EventRow
        <5> QED BY <5>1 DEF LineRank
      <4> QED BY <2>7, <3>2, <4>2, <4>3
    <3> QED BY <3>1, <3>2
  <2>8. ASSUME NEW a \in Audits, UpdateGRAStatus(a) PROVE Kept(e)
    <3>1. \/ event'[e] = event[e]
          \/ /\ event[e].status \in PreSign
             /\ event'[e] = [event[e] EXCEPT !.status = "GRA_SIGNED"]
      BY <2>8 DEF UpdateGRAStatus, Sign
    <3> QED BY <2>0, <2>1, <2>3, <3>1 DEF Absent, PreSign
  <2>9. CASE UNCHANGED event
    BY <2>1, <2>9
  <2> QED BY <2>5, <2>6, <2>7, <2>8, <2>9
          DEF Next, FlagStep, EventStep, AuditStep, vars, LinkFlag, ConfirmRead,
              ConfirmAbort, UpdateAnomalyStatus, CreateAuditEvent,
              UpdateAuditEvent, LockAudit, AssignAuditEvent
<1>2. TypeOK /\ [Next]_vars => [All]_vars
  BY <1>1
<1> QED BY <1>2, TypeCorrect, PTL DEF Spec
=============================================================================
