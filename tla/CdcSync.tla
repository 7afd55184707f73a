------------------------------ MODULE CdcSync ------------------------------
(***************************************************************************)
(* The cdc-ingestor copies accounts and bills from GWL's read-only replica *)
(* into the GN-WAAS tables.  A run reads the time of the last completed run*)
(* from cdc_sync_log, fetches the rows stamped later, upserts them one by  *)
(* one, and logs itself.  GWL changes its rows all the while, runs may     *)
(* overlap (each POST /cdc/sync/:type is one), and a run may break off, be *)
(* cut off by its 10-minute context, or lose its log entry.                *)
(*                                                                         *)
(* There is one clock: that of GWL and that of the ingestor agree, and a   *)
(* change is visible when it is stamped.  Time 0 is the default of         *)
(* getLastSyncTime, 30 days before the first run; what is older comes by   *)
(* file import.                                                            *)
(***************************************************************************)
EXTENDS Naturals, FiniteSets

CONSTANTS
    Accounts,   \* rows of GWL's accounts table
    Bills,      \* rows of GWL's billing table
    AccountOf,  \* the account number on a bill
    Workers,    \* requests to /cdc/sync that may run at once
    Limit,      \* LIMIT of the queries (5000 and 10000)
    MaxClock,   \* where time stops (bound)
    MaxVersion, \* how often GWL writes each row (bound)
    MaxRuns     \* runs that have ended when no other is started (bound)

ASSUME CdcAssumption ==
    /\ Accounts \cap Bills = {}
    /\ AccountOf \in [Bills -> Accounts]
    /\ Limit \in Nat \ {0}
    /\ MaxClock \in Nat \ {0} /\ MaxRuns \in Nat
    /\ MaxVersion \in [Accounts \cup Bills -> Nat]

VARIABLES
    clock,
    source,    \* GWL's rows: how often written, and updated_at or bill_date
    mirror,    \* the version of each row in water_accounts and gwl_bills
    run,       \* where each running RunSync stands
    ended,     \* the runs that have ended
    announced  \* gnwaas.cdc.sync.completed was published

vars == <<clock, source, mirror, run, ended, announced>>
-----------------------------------------------------------------------------
Rows  == Accounts \cup Bills
Types == {"accounts", "billing"}
TableOf(type) == IF type = "accounts" THEN Accounts ELSE Bills

Idle == [at |-> "idle"]
Running(w) == run[w].at # "idle"

\* cdc_sync_log has the runs that have written their entry.
SyncLog  == {e \in ended : e.status # "LOST"}
Vanished == {e \in ended : e.status = "LOST"}

Completed(type) == {e \in SyncLog : e.type = type /\ e.status = "COMPLETED"}

\* getLastSyncTime: the latest completed_at, or 30 days ago if there is none or
\* the log cannot be read.
IsLastSyncTime(type, t) ==
    \/ t = 0
    \/ \E e \in Completed(type) :
         /\ t = e.completed
         /\ \A d \in Completed(type) : d.completed <= t

\* ORDER BY the stamp LIMIT n.  "short" tells that records_synced and
\* records_failed add up to the limit, or that records_failed is not 0.
Fetched(rows, f) ==
    /\ f.rows \subseteq rows
    /\ \/ f.rows = rows /\ Cardinality(rows) <= Limit
       \/ Cardinality(f.rows) = Limit
    /\ \A r \in f.rows, s \in rows \ f.rows : source[r].stamp <= source[s].stamp
    /\ f.short = (Cardinality(f.rows) = Limit)
-----------------------------------------------------------------------------
Init ==
    /\ clock = 1
    /\ source = [r \in Rows |-> [version |-> 0, stamp |-> 0]]
    /\ mirror = [r \in Rows |-> 0]
    /\ run = [w \in Workers |-> Idle]
    /\ ended = {}
    /\ announced = FALSE

Tick ==
    /\ clock < MaxClock
    /\ clock' = clock + 1
    /\ UNCHANGED <<source, mirror, run, ended, announced>>

\* GWL writes an account: a trigger of GWL's keeps updated_at.
AccountChanges(r) ==
    /\ source[r].version < MaxVersion[r]
    /\ source' = [source EXCEPT ![r] = [version |-> @.version + 1, stamp |-> clock]]
    /\ UNCHANGED <<clock, mirror, run, ended, announced>>

\* GWL issues a bill, or writes it again (a payment, a correction): bill_date,
\* by which the query selects, is the date of issue and stays.
BillChanges(r) ==
    /\ source[r].version < MaxVersion[r]
    /\ \E date \in IF source[r].version = 0 THEN 1..clock ELSE {source[r].stamp} :
         source' = [source EXCEPT ![r] = [version |-> @.version + 1, stamp |-> date]]
    /\ UNCHANGED <<clock, mirror, run, ended, announced>>

\* RunSync up to getLastSyncTime.  A run that is skipped, cannot connect
\* or cannot query logs itself as such and changes nothing.
Start(w, type) ==
    /\ ~Running(w)
    /\ Cardinality(ended) < MaxRuns
    /\ \E t \in 0..clock :
         /\ IsLastSyncTime(type, t)
         /\ run' = [run EXCEPT ![w] = [at |-> "started", type |-> type,
                                       started |-> clock, since |-> t]]
    /\ UNCHANGED <<clock, source, mirror, ended, announced>>

\* The query of syncAccounts or syncBillingRecords: the rows to do, each in the
\* version it was read.
Fetch(w) ==
    LET c == run[w]
    IN  /\ c.at = "started"
        /\ \E f \in [rows : SUBSET TableOf(c.type), short : BOOLEAN] :
             /\ Fetched({r \in TableOf(c.type) : source[r].stamp > c.since}, f)
             /\ run' = [run EXCEPT ![w] =
                  [at |-> "fetched", type |-> c.type, started |-> c.started,
                   since |-> c.since, short |-> f.short,
                   todo |-> [r \in Rows |-> IF r \in f.rows THEN source[r].version
                                                            ELSE 0]]]
        /\ UNCHANGED <<clock, source, mirror, ended, announced>>

\* The account number of a bill resolves to a row of water_accounts.
Resolves(r) == r \in Bills => mirror[AccountOf[r]] > 0

\* Mutant of Upsert: the bill is inserted whether its account is known or not.
UpsertUnresolved(w, r) ==
    /\ run[w].at = "fetched"
    /\ run[w].todo[r] > 0
    /\ mirror' = [mirror EXCEPT ![r] = run[w].todo[r]]
    /\ run' = [run EXCEPT ![w].todo[r] = 0]
    /\ UNCHANGED <<clock, source, ended, announced>>

\* A fetched row is upserted; no property depends on the order of the rows.
Upsert(w, r) ==
    /\ run[w].at = "fetched"
    /\ run[w].todo[r] > 0
    /\ Resolves(r)
    /\ mirror' = [mirror EXCEPT ![r] = run[w].todo[r]]
    /\ run' = [run EXCEPT ![w].todo[r] = 0]
    /\ UNCHANGED <<clock, source, ended, announced>>

\* A fetched row that cannot be scanned, mapped, resolved or upserted is
\* counted as failed and skipped.
SkipRow(w, r) ==
    /\ run[w].at = "fetched"
    /\ run[w].todo[r] > 0
    /\ run' = [run EXCEPT ![w].todo[r] = 0, ![w].short = TRUE]
    /\ UNCHANGED <<clock, source, mirror, ended, announced>>

Done(c) == \A r \in Rows : c.todo[r] = 0

\* Mutant of Finish: rows.Err() is not asked for.
FinishIgnoringErr(w) ==
    LET c == run[w]
    IN  /\ c.at = "fetched"
        /\ run' = [run EXCEPT ![w] =
             [at |-> "finished", type |-> c.type, started |-> c.started,
              completed |-> clock, short |-> c.short, status |-> "COMPLETED"]]
        /\ UNCHANGED <<clock, source, mirror, ended, announced>>

\* Mutant of Finish: the status is the one main.go waits for.
FinishAsSuccess(w) ==
    LET c == run[w]
    IN  /\ c.at = "fetched"
        /\ run' = [run EXCEPT ![w] =
             [at |-> "finished", type |-> c.type, started |-> c.started,
              completed |-> clock, short |-> c.short,
              status |-> IF Done(c) THEN "SUCCESS" ELSE "FAILED"]]
        /\ UNCHANGED <<clock, source, mirror, ended, announced>>

\* Mutant of Finish: CompletedAt is the time the run started.
FinishAtItsStart(w) ==
    LET c == run[w]
    IN  /\ c.at = "fetched"
        /\ run' = [run EXCEPT ![w] =
             [at |-> "finished", type |-> c.type, started |-> c.started,
              completed |-> c.started, short |-> c.short,
              status |-> IF Done(c) THEN "COMPLETED" ELSE "FAILED"]]
        /\ UNCHANGED <<clock, source, mirror, ended, announced>>

\* The rows are done, or rows.Err() reports that they broke off.
Finish(w) ==
    LET c == run[w]
    IN  /\ c.at = "fetched"
        /\ run' = [run EXCEPT ![w] =
             [at |-> "finished", type |-> c.type, started |-> c.started,
              completed |-> clock, short |-> c.short,
              status |-> IF Done(c) THEN "COMPLETED" ELSE "FAILED"]]
        /\ UNCHANGED <<clock, source, mirror, ended, announced>>

\* writeSyncLog, then the handler, which publishes a run whose status is
\* "SUCCESS".
WriteSyncLog(w) ==
    LET c == run[w]
    IN  /\ c.at = "finished"
        /\ ended' = ended \cup {c}
        /\ announced' = (announced \/ c.status = "SUCCESS")
        /\ run' = [run EXCEPT ![w] = Idle]
        /\ UNCHANGED <<clock, source, mirror>>

\* The process dies, or the context has expired and the log cannot be written
\* either: the run is remembered as lost, for the properties alone.
Vanish(w) ==
    LET c == run[w]
    IN  /\ Running(w)
        /\ ended' = ended \cup {[at |-> "finished", type |-> c.type, started |-> c.started,
                             completed |-> clock, short |-> TRUE, status |-> "LOST"]}
        /\ run' = [run EXCEPT ![w] = Idle]
        /\ UNCHANGED <<clock, source, mirror, announced>>

Next ==
    \/ Tick
    \/ \E r \in Accounts : AccountChanges(r)
    \/ \E r \in Bills : BillChanges(r)
    \/ \E w \in Workers, type \in Types : Start(w, type)
    \/ \E w \in Workers : Fetch(w)
    \/ \E w \in Workers, r \in Rows : Upsert(w, r) \/ SkipRow(w, r)
    \/ \E w \in Workers : Finish(w) \/ WriteSyncLog(w) \/ Vanish(w)

Spec == Init /\ [][Next]_vars
-----------------------------------------------------------------------------
SourceRow == [version : Nat, stamp : Nat]
StartedRun == [at : {"started"}, type : Types, started : Nat, since : Nat]
FetchedRun == [at : {"fetched"}, type : Types, started : Nat, since : Nat,
               short : BOOLEAN, todo : [Rows -> Nat]]
Ended(statuses) == [at : {"finished"}, type : Types, started : Nat, completed : Nat,
                    short : BOOLEAN, status : statuses]
FinishedRun == Ended({"COMPLETED", "FAILED"})
Entry       == Ended({"COMPLETED", "FAILED", "LOST"})

\* Every row, run and log entry has the fields of where it stands.
TypeOK ==
    /\ clock \in Nat
    /\ source \in [Rows -> SourceRow]
    /\ mirror \in [Rows -> Nat]
    /\ run \in [Workers -> {Idle} \cup StartedRun \cup FetchedRun \cup FinishedRun]
    /\ ended \subseteq Entry
    /\ announced \in BOOLEAN

Stale(r) == mirror[r] # source[r].version

\* The next run of its type asks for row r.
Due(r, type) == \A e \in Completed(type) : source[r].stamp > e.completed

\* A run c that was on when row r was last stamped, and may have read it before.
CrossedBy(c, r, type) ==
    /\ c.type = type
    /\ c.started <= source[r].stamp
    /\ c.at = "finished" => source[r].stamp <= c.completed

\* By a run that is on, or that cdc_sync_log shows.
Crossed(r, type) ==
    \/ \E w \in Workers : Running(w) /\ CrossedBy(run[w], r, type)
    \/ \E e \in SyncLog : CrossedBy(e, r, type)

\* By a run that is gone without an entry: no table tells of it.
CrossedUnseen(r, type) == \E e \in Vanished : CrossedBy(e, r, type)

\* A completed run whose counts tell that it left rows out.
Short(r, type) ==
    \E e \in Completed(type) : e.short /\ source[r].stamp <= e.completed

\* An account that GN-WAAS has not got as GWL has it is asked for by the next
\* run, or it is known why not: it changed while a run was on, as cdc_sync_log or
\* the running run shows, or a completed run had failed rows or reached its limit,
\* which its entry shows.  Else a run that was on when it changed is gone without
\* an entry, and no table tells of the loss: that can happen.  No other order of
\* overlapping, failing and vanishing runs loses a change.
LossesExplained ==
    \A r \in Accounts : Stale(r) =>
        \/ Due(r, "accounts")
        \/ Crossed(r, "accounts") \/ Short(r, "accounts")
        \/ CrossedUnseen(r, "accounts")

\* A bill is in gwl_bills only if its account is in water_accounts, although
\* accounts and bills are fetched by runs of their own, in any order.
BillsHaveAccounts == \A b \in Bills : mirror[b] > 0 => mirror[AccountOf[b]] > 0

\* A run c of the same type that was on at some time since run d began.
Meets(c, d) == c.type = d.type /\ (c.at = "finished" => d.started <= c.completed)

\* Such a run is still on, or has ended, with an entry in cdc_sync_log or without.
Overtaken(w) ==
    \/ \E v \in Workers \ {w} : Running(v) /\ Meets(run[v], run[w])
    \/ \E e \in ended : Meets(e, run[w])

\* The copy of a row goes back to an older version of it only by a run that
\* another run of its type has in fact overlapped, one that may still be on or be
\* gone without an entry, so that cdc_sync_log need not show it: no run on its
\* own, however late it writes what it fetched, undoes what is newer.
OldVersionsOvertaken ==
    [][\A r \in Rows : mirror'[r] < mirror[r] =>
         \E w \in Workers : Upsert(w, r) /\ Overtaken(w)]_vars
=============================================================================
