----------------------------- MODULE CdcProofs -----------------------------
(* Theorems about CdcSync, for every value of its constants. *)
EXTENDS CdcSync, TLAPS

USE CdcAssumption
-----------------------------------------------------------------------------
(* Type correctness. *)

LEMMA TypeInit == Init => TypeOK
<1> SUFFICES ASSUME Init PROVE TypeOK
  OBVIOUS
<1>1. [version |-> 0, stamp |-> 0] \in SourceRow
  BY DEF SourceRow
<1>2. QED
  BY <1>1 DEF Init, TypeOK

\* What the fields of a run are, told by where it stands.
LEMMA RunFields ==
    ASSUME TypeOK, NEW w \in Workers
    PROVE  /\ Running(w) <=> run[w] # Idle
           /\ run[w].at \in {"idle", "started", "fetched", "finished"}
           /\ run[w].at = "started" => run[w] \in StartedRun
           /\ run[w].at = "fetched" => run[w] \in FetchedRun
           /\ run[w].at = "finished" => run[w] \in FinishedRun
BY DEF TypeOK, Running, Idle, StartedRun, FetchedRun, FinishedRun, Ended

\* What is known of a run that has started.
LEMMA RunningFields ==
    ASSUME TypeOK, NEW w \in Workers, Running(w)
    PROVE  run[w].type \in Types /\ run[w].started \in Nat
BY RunFields DEF Running, StartedRun, FetchedRun, FinishedRun, Ended

LEMMA TypeStep == TypeOK /\ [Next]_vars => TypeOK'
<1> SUFFICES ASSUME TypeOK, [Next]_vars PROVE TypeOK'
  OBVIOUS
<1> USE DEF TypeOK
<1>1. CASE Tick
  BY <1>1 DEF Tick
<1>2. ASSUME NEW r \in Accounts, AccountChanges(r) PROVE TypeOK'
  BY <1>2 DEF AccountChanges, SourceRow, Rows
<1>3. ASSUME NEW r \in Bills, BillChanges(r) PROVE TypeOK'
  <2>1. PICK date \in IF source[r].version = 0 THEN 1..clock ELSE {source[r].stamp} :
          source' = [source EXCEPT ![r] = [version |-> @.version + 1, stamp |-> date]]
    BY <1>3 DEF BillChanges
  <2>2. source[r] \in SourceRow /\ date \in Nat
    BY DEF SourceRow, Rows
  <2>3. QED
    BY <1>3, <2>1, <2>2 DEF BillChanges, SourceRow, Rows
<1>4. ASSUME NEW w \in Workers, NEW type \in Types, Start(w, type) PROVE TypeOK'
  <2>1. PICK t \in 0..clock :
          run' = [run EXCEPT ![w] = [at |-> "started", type |-> type,
                                     started |-> clock, since |-> t]]
    BY <1>4 DEF Start
  <2>2. [at |-> "started", type |-> type, started |-> clock, since |-> t] \in StartedRun
    BY DEF StartedRun
  <2>3. QED
    BY <1>4, <2>1, <2>2 DEF Start
<1>5. ASSUME NEW w \in Workers, Fetch(w) PROVE TypeOK'
  <2> DEFINE c == run[w]
  <2>1. c \in StartedRun
    BY <1>5, RunFields DEF Fetch
  <2>2. PICK f \in [rows : SUBSET TableOf(c.type), short : BOOLEAN] :
          run' = [run EXCEPT ![w] =
                  [at |-> "fetched", type |-> c.type, started |-> c.started,
                   since |-> c.since, short |-> f.short,
                   todo |-> [r \in Rows |-> IF r \in f.rows THEN source[r].version
                                                            ELSE 0]]]
    BY <1>5 DEF Fetch
  <2>3. [r \in Rows |-> IF r \in f.rows THEN source[r].version ELSE 0] \in [Rows -> Nat]
    BY DEF SourceRow
  <2>4. run'[w] \in FetchedRun
    BY <2>1, <2>2, <2>3 DEF StartedRun, FetchedRun
  <2>5. QED
    BY <1>5, <2>2, <2>4 DEF Fetch
<1>6. ASSUME NEW w \in Workers, NEW r \in Rows, Upsert(w, r) PROVE TypeOK'
  <2>1. run[w] \in FetchedRun
    BY <1>6, RunFields DEF Upsert
  <2>2. [run[w] EXCEPT !.todo[r] = 0] \in FetchedRun /\ run[w].todo[r] \in Nat
    BY <2>1 DEF FetchedRun
  <2>3. QED
    BY <1>6, <2>2 DEF Upsert
<1>7. ASSUME NEW w \in Workers, NEW r \in Rows, SkipRow(w, r) PROVE TypeOK'
  <2>1. run[w] \in FetchedRun
    BY <1>7, RunFields DEF SkipRow
  <2>2. [run[w] EXCEPT !.todo[r] = 0, !.short = TRUE] \in FetchedRun
    BY <2>1 DEF FetchedRun
  <2>3. QED
    BY <1>7, <2>2 DEF SkipRow
<1>8. ASSUME NEW w \in Workers, Finish(w) PROVE TypeOK'
  <2>1. run[w] \in FetchedRun
    BY <1>8, RunFields DEF Finish
  <2>2. run'[w] \in FinishedRun
    BY <1>8, <2>1 DEF Finish, FetchedRun, FinishedRun, Ended
  <2>3. QED
    BY <1>8, <2>2 DEF Finish
<1>9. ASSUME NEW w \in Workers, WriteSyncLog(w) PROVE TypeOK'
  <2>1. run[w] \in FinishedRun
    BY <1>9, RunFields DEF WriteSyncLog
  <2>2. run[w] \in Entry
    BY <2>1 DEF FinishedRun, Entry, Ended
  <2>3. announced' \in BOOLEAN
    BY <1>9 DEF WriteSyncLog
  <2>4. QED
    BY <1>9, <2>2, <2>3 DEF WriteSyncLog
<1>10. ASSUME NEW w \in Workers, Vanish(w) PROVE TypeOK'
  <2>1. [at |-> "finished", type |-> run[w].type, started |-> run[w].started,
         completed |-> clock, short |-> TRUE, status |-> "LOST"] \in Entry
    BY <1>10, RunningFields DEF Vanish, Entry, Ended
  <2>2. QED
    BY <1>10, <2>1 DEF Vanish
<1>11. CASE UNCHANGED vars
  BY <1>11 DEF vars
<1>12. QED
  BY <1>1, <1>2, <1>3, <1>4, <1>5, <1>6, <1>7, <1>8, <1>9, <1>10, <1>11 DEF Next

\* Every row, run and log entry has the fields of where it stands.
THEOREM TypeCorrect == Spec => []TypeOK
BY TypeInit, TypeStep, PTL DEF Spec
-----------------------------------------------------------------------------
(* Bills and their accounts. *)

\* An upsert leaves a row of the mirror there: no step takes one away.
LEMMA MirrorStays ==
    ASSUME TypeOK, [Next]_vars, NEW r \in Rows, mirror[r] > 0
    PROVE  mirror'[r] > 0
<1>1. ASSUME NEW w \in Workers, NEW s \in Rows, Upsert(w, s) PROVE mirror'[r] > 0
  <2>1. mirror' = [mirror EXCEPT ![s] = run[w].todo[s]] /\ run[w].todo[s] > 0
    BY <1>1 DEF Upsert
  <2>2. QED
    BY <2>1 DEF TypeOK
<1>2. mirror' = mirror \/ \E w \in Workers, s \in Rows : Upsert(w, s)
  BY DEF Next, vars, Tick, AccountChanges, BillChanges, Start, Fetch, SkipRow,
         Finish, WriteSyncLog, Vanish
<1>3. QED
  BY <1>1, <1>2

LEMMA BillsStep == TypeOK /\ BillsHaveAccounts /\ [Next]_vars => BillsHaveAccounts'
<1> SUFFICES ASSUME TypeOK, BillsHaveAccounts, [Next]_vars,
                    NEW b \in Bills, mirror'[b] > 0
             PROVE  mirror'[AccountOf[b]] > 0
  BY DEF BillsHaveAccounts
<1>1. mirror[AccountOf[b]] > 0
  <2>1. CASE mirror[b] > 0
    BY <2>1 DEF BillsHaveAccounts
  <2>2. CASE ~(mirror[b] > 0)
    <3>1. PICK w \in Workers, s \in Rows : Upsert(w, s)
      BY <2>2 DEF Next, vars, Tick, AccountChanges, BillChanges, Start, Fetch,
                  SkipRow, Finish, WriteSyncLog, Vanish
    <3>2. s = b
      BY <2>2, <3>1 DEF Upsert, TypeOK
    <3>3. QED
      BY <3>1, <3>2 DEF Upsert, Resolves
  <2>3. QED
    BY <2>1, <2>2
<1>2. QED
  BY <1>1, MirrorStays DEF Rows

\* A bill is copied only after its account.
THEOREM BillsFollowAccounts == Spec => []BillsHaveAccounts
<1>1. Init => BillsHaveAccounts
  BY DEF Init, BillsHaveAccounts, Rows
<1>2. QED
  BY <1>1, TypeInit, TypeStep, BillsStep, PTL DEF Spec
-----------------------------------------------------------------------------
(* The strengthening of LossesExplained. *)

\* A run of the type was on when row r was last stamped, whatever tells of it.
Met(r, type) ==
    \/ \E w \in Workers : Running(w) /\ CrossedBy(run[w], r, type)
    \/ \E e \in ended : CrossedBy(e, r, type)

LossesMet ==
    \A r \in Accounts : Stale(r) =>
        Due(r, "accounts") \/ Met(r, "accounts") \/ Short(r, "accounts")

\* No time is later than now, and no row GWL has written is older than time 0.
Times ==
    /\ clock > 0
    /\ \A r \in Accounts : /\ source[r].stamp <= clock
                           /\ source[r].version > 0 => source[r].stamp > 0
    /\ \A w \in Workers :
         /\ Running(w) => run[w].started <= clock
         /\ run[w].at = "finished" => /\ run[w].started <= run[w].completed
                                      /\ run[w].completed <= clock
    /\ \A e \in ended : e.started <= e.completed /\ e.completed <= clock

\* What GWL never wrote is nowhere.
NothingFromNothing ==
    \A r \in Accounts : source[r].version = 0 =>
        /\ mirror[r] = 0
        /\ \A w \in Workers : run[w].at = "fetched" => run[w].todo[r] = 0

\* A window begins where a completed one ended.
BeginsAt(type, t) == t = 0 \/ \E e \in Completed(type) : e.completed = t
WindowsMeet ==
    \A w \in Workers : run[w].at = "started" => BeginsAt(run[w].type, run[w].since)

\* Only a run over accounts has accounts to do, and a fetched version that is no
\* longer GWL's was replaced during the run.
OldCopiesCrossed ==
    \A w \in Workers, r \in Accounts :
        run[w].at = "fetched" /\ run[w].todo[r] > 0 =>
            /\ run[w].type = "accounts"
            /\ \/ run[w].todo[r] = source[r].version
               \/ run[w].started <= source[r].stamp

\* A run that will close a window, or has closed one and is about to log it.
Closing(w) == /\ run[w].at \in {"fetched", "finished"}
              /\ run[w].type = "accounts"
              /\ run[w].at = "finished" => run[w].status = "COMPLETED"

\* A run about to close its window over a stale row still has the row to do,
\* unless the row was lost before, is crossed, or the run's counts tell of it.
Covers(w, r) ==
    \/ run[w].at = "finished" /\ source[r].stamp > run[w].completed
    \/ ~Due(r, "accounts")
    \/ Met(r, "accounts")
    \/ run[w].short
    \/ run[w].at = "fetched" /\ run[w].todo[r] = source[r].version

ClosingRunsCover ==
    \A w \in Workers, r \in Accounts : Closing(w) /\ Stale(r) => Covers(w, r)

LossInv == /\ Times
           /\ NothingFromNothing
           /\ WindowsMeet
           /\ OldCopiesCrossed
           /\ ClosingRunsCover
           /\ LossesMet

-----------------------------------------------------------------------------
(* What a step may do to the facts the strengthening is made of. *)

\* Runs end up in the log, and nothing leaves it.
LEMMA LogGrows == ASSUME [Next]_vars PROVE ended \subseteq ended'
BY DEF Next, vars, Tick, AccountChanges, BillChanges, Start, Fetch, Upsert, SkipRow,
       Finish, WriteSyncLog, Vanish

WorkerStep(w) ==
    \/ \E type \in Types : Start(w, type)
    \/ \E r \in Rows : Upsert(w, r) \/ SkipRow(w, r)
    \/ Fetch(w) \/ Finish(w) \/ WriteSyncLog(w) \/ Vanish(w)

\* A run is written by its own steps only.
LEMMA RunWritten ==
    ASSUME TypeOK, [Next]_vars, NEW w \in Workers, run'[w] # run[w]
    PROVE  WorkerStep(w)
<1>1. run' = run \/ \E v \in Workers : WorkerStep(v)
  BY DEF Next, vars, WorkerStep, Tick, AccountChanges, BillChanges
<1>2. ASSUME NEW v \in Workers, WorkerStep(v), v # w PROVE run'[w] = run[w]
  <2>1. ASSUME NEW type \in Types, Start(v, type) PROVE run'[w] = run[w]
    BY <1>2, <2>1 DEF Start, TypeOK
  <2>2. CASE Fetch(v)
    BY <1>2, <2>2 DEF Fetch, TypeOK
  <2>3. ASSUME NEW r \in Rows, Upsert(v, r) PROVE run'[w] = run[w]
    BY <1>2, <2>3 DEF Upsert, TypeOK
  <2>4. ASSUME NEW r \in Rows, SkipRow(v, r) PROVE run'[w] = run[w]
    BY <1>2, <2>4 DEF SkipRow, TypeOK
  <2>5. CASE Finish(v)
    BY <1>2, <2>5 DEF Finish, TypeOK
  <2>6. CASE WriteSyncLog(v)
    BY <1>2, <2>6 DEF WriteSyncLog, TypeOK
  <2>7. CASE Vanish(v)
    BY <1>2, <2>7 DEF Vanish, TypeOK
  <2>8. QED
    BY <1>2, <2>1, <2>2, <2>3, <2>4, <2>5, <2>6, <2>7 DEF WorkerStep
<1>3. QED
  BY <1>1, <1>2

\* Only GWL writes a source row, and a step that writes one account leaves the
\* other rows and everything else alone.
LEMMA SourceWritten ==
    ASSUME TypeOK, [Next]_vars, NEW r \in Accounts, source'[r] # source[r]
    PROVE  AccountChanges(r)
<1>1. \/ \E s \in Accounts : AccountChanges(s)
      \/ \E s \in Bills : BillChanges(s)
  BY DEF Next, vars, Tick, Start, Fetch, Upsert, SkipRow, Finish, WriteSyncLog, Vanish
<1>2. ASSUME NEW s \in Accounts, AccountChanges(s) PROVE s = r
  BY <1>2 DEF AccountChanges, TypeOK, Rows
<1>3. ASSUME NEW s \in Bills, BillChanges(s) PROVE FALSE
  <2>1. s # r
    OBVIOUS
  <2>2. QED
    BY <1>3, <2>1 DEF BillChanges, TypeOK, Rows
<1>4. QED
  BY <1>1, <1>2, <1>3

\* A row once passed over stays so until GWL writes it again.
LEMMA DueOnce ==
    ASSUME [Next]_vars, NEW r, source'[r] = source[r], ~Due(r, "accounts")
    PROVE  ~Due(r, "accounts")'
BY LogGrows DEF Due, Completed, SyncLog

\* So does the trace of a crossing: the run goes on, or is logged, or is lost.
LEMMA CrossingStays ==
    ASSUME TypeOK, Times, [Next]_vars, NEW r \in Accounts, source'[r] = source[r],
           Met(r, "accounts")
    PROVE  Met(r, "accounts")'
<1>1. CASE \E e \in ended : CrossedBy(e, r, "accounts")
  BY <1>1, LogGrows DEF Met, CrossedBy
<1>2. ASSUME NEW w \in Workers, Running(w), CrossedBy(run[w], r, "accounts")
      PROVE  Met(r, "accounts")'
  <2>1. CASE run'[w] = run[w]
    BY <1>2, <2>1 DEF Met, CrossedBy, Running
  <2>2. CASE run'[w] # run[w]
    <3>1. WorkerStep(w)
      BY <2>2, RunWritten
    <3>2. run'[w].at \in {"started", "fetched", "finished"} => Running(w)'
      BY DEF Running
    <3>3. CASE Fetch(w)
      <4>1. /\ run'[w].at = "fetched" /\ run'[w].type = run[w].type
            /\ run'[w].started = run[w].started
        BY <3>3 DEF Fetch, TypeOK
      <4>2. QED
        BY <1>2, <3>2, <4>1 DEF Met, CrossedBy
    <3>4. CASE Finish(w)
      <4>1. /\ run'[w].at = "finished" /\ run'[w].type = run[w].type
            /\ run'[w].started = run[w].started /\ run'[w].completed = clock
        BY <3>4 DEF Finish, TypeOK
      <4>2. source[r].stamp <= clock
        BY DEF Times
      <4>3. QED
        BY <1>2, <3>2, <4>1, <4>2 DEF Met, CrossedBy
    <3>5. CASE WriteSyncLog(w)
      <4>1. run[w] \in ended'
        BY <3>5 DEF WriteSyncLog
      <4>2. QED
        BY <1>2, <4>1 DEF Met, CrossedBy
    <3>6. CASE Vanish(w)
      <4> DEFINE e == [at |-> "finished", type |-> run[w].type,
                       started |-> run[w].started, completed |-> clock,
                       short |-> TRUE, status |-> "LOST"]
      <4>1. e \in ended' /\ e.type = run[w].type /\ e.started = run[w].started
                       /\ e.completed = clock
        BY <3>6 DEF Vanish
      <4>2. source[r].stamp <= clock
        BY DEF Times
      <4>3. QED
        BY <1>2, <4>1, <4>2 DEF Met, CrossedBy
    <3>7. ASSUME NEW s \in Rows, Upsert(w, s) \/ SkipRow(w, s)
          PROVE  Met(r, "accounts")'
      <4>1. run[w] \in FetchedRun
        BY <3>7, RunFields DEF Upsert, SkipRow
      <4>2. /\ run'[w].at = "fetched" /\ run'[w].type = run[w].type
            /\ run'[w].started = run[w].started
        BY <3>7, <4>1 DEF Upsert, SkipRow, TypeOK, FetchedRun
      <4>3. QED
        BY <1>2, <3>2, <4>2 DEF Met, CrossedBy
    <3>8. QED
      BY <1>2, <3>1, <3>3, <3>4, <3>5, <3>6, <3>7 DEF WorkerStep, Start
  <2>3. QED
    BY <2>1, <2>2
<1>3. QED
  BY <1>1, <1>2 DEF Met

\* What an upserted or skipped row leaves of the run.
LEMMA RowDone ==
    ASSUME TypeOK, NEW w \in Workers, NEW r \in Rows, Upsert(w, r) \/ SkipRow(w, r)
    PROVE  /\ run[w].at = "fetched" /\ run'[w].at = "fetched"
           /\ run'[w].type = run[w].type
           /\ run'[w].started = run[w].started
           /\ run'[w].todo = [run[w].todo EXCEPT ![r] = 0]
           /\ run[w].todo \in [Rows -> Nat]
           /\ run'[w].short = (run[w].short \/ SkipRow(w, r))
<1>1. run[w] \in FetchedRun
  BY RunFields DEF Upsert, SkipRow
<1>2. CASE SkipRow(w, r)
  <2> DEFINE left == [run[w].todo EXCEPT ![r] = 0]
  <2>1. run'[w] = [[run[w] EXCEPT !.todo = left] EXCEPT !.short = TRUE]
    BY <1>2 DEF SkipRow, TypeOK
  <2>2. run[w].at = "fetched"
    BY <1>2 DEF SkipRow
  <2> HIDE DEF left
  <2>3. /\ run'[w].at = run[w].at /\ run'[w].type = run[w].type
        /\ run'[w].started = run[w].started
        /\ run'[w].todo = left /\ run'[w].short = TRUE
    BY <1>1, <2>1 DEF FetchedRun
  <2>4. QED
    BY <1>1, <1>2, <2>2, <2>3 DEF left, FetchedRun
<1>3. CASE Upsert(w, r) /\ ~SkipRow(w, r)
  <2>1. run'[w] = [run[w] EXCEPT !.todo = [run[w].todo EXCEPT ![r] = 0]]
    BY <1>3 DEF Upsert, TypeOK
  <2>2. QED
    BY <1>1, <1>3, <2>1 DEF Upsert, FetchedRun
<1>4. QED
  BY <1>2, <1>3

LEMMA TimesStep == TypeOK /\ Times /\ [Next]_vars => Times'
<1> SUFFICES ASSUME TypeOK, Times, [Next]_vars PROVE Times'
  OBVIOUS
<1>1. clock \in Nat /\ clock' \in Nat /\ clock <= clock'
  <2>1. Tick \/ clock' = clock
    BY DEF Next, vars, AccountChanges, BillChanges, Start, Fetch, Upsert, SkipRow,
           Finish, WriteSyncLog, Vanish
  <2>2. QED
    BY <2>1 DEF Tick, TypeOK
<1>2. ASSUME NEW r \in Accounts
      PROVE  source'[r].stamp <= clock' /\ (source'[r].version > 0 => source'[r].stamp > 0)
  <2>1. CASE source'[r] = source[r]
    BY <1>1, <2>1 DEF Times, TypeOK, SourceRow, Rows
  <2>2. CASE AccountChanges(r)
    <3>1. source'[r].stamp = clock /\ clock' = clock
      BY <2>2 DEF AccountChanges, TypeOK, Rows
    <3>2. QED
      BY <1>1, <3>1 DEF Times
  <2>3. QED
    BY <2>1, <2>2, SourceWritten
<1>3. ASSUME NEW w \in Workers
      PROVE  /\ Running(w)' => run'[w].started <= clock'
             /\ run'[w].at = "finished" => /\ run'[w].started <= run'[w].completed
                                           /\ run'[w].completed <= clock'
  <2>1. CASE run'[w] = run[w]
    <3>1. Running(w) => run[w].started \in Nat
      BY RunningFields
    <3>2. run[w].at = "finished" => run[w].completed \in Nat
      BY RunFields DEF FinishedRun, Ended
    <3>3. QED
      BY <1>1, <2>1, <3>1, <3>2 DEF Times, Running
  <2>2. ASSUME NEW type \in Types, Start(w, type)
        PROVE  run'[w].at = "started" /\ run'[w].started = clock
    BY <2>2 DEF Start, TypeOK
  <2>3. CASE Fetch(w)
    <3>1. /\ Running(w) /\ run'[w].at = "fetched" /\ run'[w].started = run[w].started
      BY <2>3 DEF Fetch, TypeOK, Running
    <3>2. QED
      BY <1>1, <3>1, RunningFields DEF Times
  <2>4. ASSUME NEW r \in Rows, Upsert(w, r) \/ SkipRow(w, r)
        PROVE  run'[w].at = "fetched" /\ run'[w].started <= clock'
    <3>1. Running(w) /\ run'[w].at = "fetched" /\ run'[w].started = run[w].started
      BY <2>4, RowDone DEF Running
    <3>2. QED
      BY <1>1, <3>1, RunningFields DEF Times
  <2>5. CASE Finish(w)
    <3>1. /\ Running(w) /\ run'[w].started = run[w].started /\ run'[w].completed = clock
      BY <2>5 DEF Finish, TypeOK, Running
    <3>2. QED
      BY <1>1, <3>1, RunningFields DEF Times
  <2>6. CASE WriteSyncLog(w) \/ Vanish(w)
    <3>1. run'[w] = Idle
      BY <2>6 DEF WriteSyncLog, Vanish, TypeOK
    <3>2. QED
      BY <3>1 DEF Idle, Running
  <2>7. QED
    BY <1>1, <2>1, <2>2, <2>3, <2>4, <2>5, <2>6, RunWritten DEF WorkerStep
<1>4. ASSUME NEW e \in ended' PROVE e.started <= e.completed /\ e.completed <= clock'
  <2>1. CASE e \in ended
    BY <1>1, <2>1 DEF Times, TypeOK, Entry, Ended
  <2>2. ASSUME NEW w \in Workers, WriteSyncLog(w), e \notin ended PROVE e = run[w]
    BY <2>2 DEF WriteSyncLog
  <2>3. ASSUME NEW w \in Workers, Vanish(w), e \notin ended
        PROVE  e.started = run[w].started /\ e.completed = clock /\ Running(w)
    BY <2>3 DEF Vanish
  <2>4. CASE e \notin ended
    <3>1. \E w \in Workers : WriteSyncLog(w) \/ Vanish(w)
      BY <2>4 DEF Next, vars, Tick, AccountChanges, BillChanges, Start, Fetch, Upsert,
                  SkipRow, Finish
    <3>2. \A w \in Workers : run[w].at = "finished" => run[w].completed \in Nat
      BY RunFields DEF FinishedRun, Ended
    <3>3. QED
      BY <1>1, <2>2, <2>3, <2>4, <3>1, <3>2 DEF Times, WriteSyncLog
  <2>5. QED
    BY <2>1, <2>4
<1>5. clock' > 0
  BY <1>1 DEF Times
<1>6. QED
  BY <1>2, <1>3, <1>4, <1>5 DEF Times

LEMMA NothingStep ==
    TypeOK /\ NothingFromNothing /\ [Next]_vars => NothingFromNothing'
<1> SUFFICES ASSUME TypeOK, NothingFromNothing, [Next]_vars,
                    NEW r \in Accounts, source'[r].version = 0
             PROVE  /\ mirror'[r] = 0
                    /\ \A w \in Workers : run'[w].at = "fetched" => run'[w].todo[r] = 0
  BY DEF NothingFromNothing
<1>1. source[r].version = 0
  <2>1. AccountChanges(r) => source'[r].version = source[r].version + 1
    BY DEF AccountChanges, TypeOK, Rows
  <2>2. source[r].version \in Nat
    BY DEF TypeOK, SourceRow, Rows
  <2>3. QED
    BY <2>1, <2>2, SourceWritten
<1>2. /\ mirror[r] = 0
      /\ \A w \in Workers : run[w].at = "fetched" => run[w].todo[r] = 0
  BY <1>1 DEF NothingFromNothing
<1>3. mirror'[r] = 0
  <2>1. ASSUME NEW w \in Workers, NEW s \in Rows, Upsert(w, s) PROVE mirror'[r] = 0
    <3>1. s # r
      BY <1>2, <2>1 DEF Upsert
    <3>2. QED
      BY <1>2, <2>1, <3>1 DEF Upsert, TypeOK
  <2>2. mirror' = mirror \/ \E w \in Workers, s \in Rows : Upsert(w, s)
    BY DEF Next, vars, Tick, AccountChanges, BillChanges, Start, Fetch, SkipRow,
           Finish, WriteSyncLog, Vanish
  <2>3. QED
    BY <1>2, <2>1, <2>2
<1>4. ASSUME NEW w \in Workers, run'[w].at = "fetched" PROVE run'[w].todo[r] = 0
  <2>1. CASE run'[w] = run[w]
    BY <1>2, <1>4, <2>1
  <2>2. CASE Fetch(w)
    BY <1>1, <2>2 DEF Fetch, TypeOK, Rows
  <2>3. ASSUME NEW s \in Rows, Upsert(w, s) \/ SkipRow(w, s) PROVE run'[w].todo[r] = 0
    BY <1>2, <2>3, RowDone DEF Rows
  <2>4. (\E type \in Types : Start(w, type)) \/ Finish(w) \/ WriteSyncLog(w) \/ Vanish(w)
        => run'[w].at # "fetched"
    BY DEF Start, Finish, WriteSyncLog, Vanish, TypeOK, Idle
  <2>5. QED
    BY <1>4, <2>1, <2>2, <2>3, <2>4, RunWritten DEF WorkerStep
<1>5. QED
  BY <1>3, <1>4

LEMMA WindowsStep == TypeOK /\ WindowsMeet /\ [Next]_vars => WindowsMeet'
<1> SUFFICES ASSUME TypeOK, WindowsMeet, [Next]_vars,
                    NEW w \in Workers, run'[w].at = "started"
             PROVE  BeginsAt(run[w].type, run[w].since)'
  BY DEF WindowsMeet
<1>1. CASE run'[w] = run[w]
  <2>1. BeginsAt(run[w].type, run[w].since)
    BY <1>1 DEF WindowsMeet
  <2>2. QED
    BY <1>1, <2>1, LogGrows DEF BeginsAt, Completed, SyncLog
<1>2. ASSUME NEW type \in Types, Start(w, type)
      PROVE  BeginsAt(run[w].type, run[w].since)'
  <2>1. PICK t \in 0..clock :
          /\ IsLastSyncTime(type, t)
          /\ run' = [run EXCEPT ![w] = [at |-> "started", type |-> type,
                                        started |-> clock, since |-> t]]
    BY <1>2 DEF Start
  <2>2. run'[w].since = t /\ run'[w].type = type
    BY <2>1 DEF TypeOK
  <2>3. QED
    BY <2>1, <2>2, LogGrows DEF IsLastSyncTime, BeginsAt, Completed, SyncLog
<1>3. Fetch(w) => run'[w].at = "fetched"
  BY DEF Fetch, TypeOK
<1>4. Finish(w) => run'[w].at = "finished"
  BY DEF Finish, TypeOK
<1>5. WriteSyncLog(w) \/ Vanish(w) => run'[w].at # "started"
  BY DEF WriteSyncLog, Vanish, TypeOK, Idle
<1>6. (\E r \in Rows : Upsert(w, r) \/ SkipRow(w, r)) => run'[w].at # "started"
  BY RowDone
<1>7. QED
  BY <1>1, <1>2, <1>3, <1>4, <1>5, <1>6, RunWritten DEF WorkerStep

\* What the query reads of a row: nothing of a row of the other table, and of an
\* account stamped in the window the current version, unless the limit is reached.
LEMMA FetchReads ==
    ASSUME TypeOK, NEW w \in Workers, NEW r \in Accounts, Fetch(w)
    PROVE  /\ run[w].at = "started" /\ run'[w].at = "fetched"
           /\ run'[w].type = run[w].type
           /\ run'[w].started = run[w].started
           /\ run'[w].todo[r] \in {0, source[r].version}
           /\ run[w].type # "accounts" => run'[w].todo[r] = 0
           /\ run[w].type = "accounts" /\ source[r].stamp > run[w].since
                => run'[w].short \/ run'[w].todo[r] = source[r].version
<1> DEFINE c == run[w]
           hits == {s \in TableOf(c.type) : source[s].stamp > c.since}
<1>1. PICK f \in [rows : SUBSET TableOf(c.type), short : BOOLEAN] :
        /\ Fetched(hits, f)
        /\ run' = [run EXCEPT ![w] =
             [at |-> "fetched", type |-> c.type, started |-> c.started,
              since |-> c.since, short |-> f.short,
              todo |-> [s \in Rows |-> IF s \in f.rows THEN source[s].version ELSE 0]]]
  BY DEF Fetch
<1>2. /\ run'[w].at = "fetched" /\ run'[w].type = c.type
      /\ run'[w].started = c.started /\ run'[w].short = f.short
      /\ run'[w].todo[r] = IF r \in f.rows THEN source[r].version ELSE 0
  BY <1>1 DEF TypeOK, Rows
<1>3. c.at = "started"
  BY DEF Fetch
<1>4. c.type # "accounts" => r \notin f.rows
  BY <1>1 DEF Fetched, TableOf
<1>5. ASSUME c.type = "accounts", source[r].stamp > c.since PROVE f.short \/ r \in f.rows
  <2>1. r \in hits
    BY <1>5 DEF TableOf
  <2>2. f.rows = hits \/ f.short
    BY <1>1 DEF Fetched
  <2>3. QED
    BY <2>1, <2>2
<1>6. QED
  BY <1>2, <1>3, <1>4, <1>5

LEMMA CopiesStep ==
    TypeOK /\ Times /\ OldCopiesCrossed /\ [Next]_vars => OldCopiesCrossed'
<1> SUFFICES ASSUME TypeOK, Times, OldCopiesCrossed, [Next]_vars,
                    NEW w \in Workers, NEW r \in Accounts,
                    run'[w].at = "fetched", run'[w].todo[r] > 0
             PROVE  /\ run'[w].type = "accounts"
                    /\ \/ run'[w].todo[r] = source'[r].version
                       \/ run'[w].started <= source'[r].stamp
  BY DEF OldCopiesCrossed
<1>1. CASE AccountChanges(r)
  <2>1. run' = run /\ source'[r].stamp = clock
    BY <1>1 DEF AccountChanges, TypeOK, Rows
  <2>2. run[w].started <= clock
    BY <2>1 DEF Times, Running
  <2>3. QED
    BY <2>1, <2>2 DEF OldCopiesCrossed
<1>2. CASE source'[r] = source[r]
  <2>1. CASE run'[w] = run[w]
    BY <1>2, <2>1 DEF OldCopiesCrossed
  <2>2. CASE Fetch(w)
    BY <1>2, <2>2, FetchReads
  <2>3. ASSUME NEW s \in Rows, Upsert(w, s) \/ SkipRow(w, s)
        PROVE  /\ run'[w].type = "accounts"
               /\ \/ run'[w].todo[r] = source'[r].version
                  \/ run'[w].started <= source'[r].stamp
    <3>1. run'[w].todo = [run[w].todo EXCEPT ![s] = 0] /\ run[w].todo \in [Rows -> Nat]
      BY <2>3, RowDone
    <3>2. run'[w].todo[r] = run[w].todo[r]
      BY <3>1 DEF Rows
    <3>3. QED
      BY <1>2, <2>3, <3>2, RowDone DEF OldCopiesCrossed
  <2>4. (\E type \in Types : Start(w, type)) => run'[w].at # "fetched"
    BY DEF Start, TypeOK
  <2>5. Finish(w) => run'[w].at # "fetched"
    BY DEF Finish, TypeOK
  <2>6. WriteSyncLog(w) \/ Vanish(w) => run'[w].at # "fetched"
    BY DEF WriteSyncLog, Vanish, TypeOK, Idle
  <2>7. QED
    BY <2>1, <2>2, <2>3, <2>4, <2>5, <2>6, RunWritten DEF WorkerStep
<1>3. QED
  BY <1>1, <1>2, SourceWritten
-----------------------------------------------------------------------------
(* The two conjuncts the argument is about. *)

\* A row goes stale without being written only when an overlapping run puts back
\* the older version it had read.
LEMMA StaleArises ==
    ASSUME TypeOK, Times, OldCopiesCrossed, [Next]_vars, NEW r \in Accounts,
           source'[r] = source[r], Stale(r)', ~Stale(r)
    PROVE  Met(r, "accounts")'
<1>1. PICK w \in Workers, s \in Rows : Upsert(w, s)
  BY DEF Stale, Next, vars, Tick, AccountChanges, BillChanges, Start, Fetch, SkipRow,
         Finish, WriteSyncLog, Vanish
<1>2. s = r /\ run[w].todo[r] # source[r].version
  BY <1>1 DEF Upsert, Stale, TypeOK, Rows
<1>3. run[w].at = "fetched" /\ run[w].todo[r] > 0
  BY <1>1, <1>2 DEF Upsert
<1>4. CrossedBy(run[w], r, "accounts")
  BY <1>2, <1>3 DEF OldCopiesCrossed, CrossedBy
<1>5. Met(r, "accounts")
  BY <1>3, <1>4 DEF Met, Running
<1>6. QED
  BY <1>5, CrossingStays

\* A stale row has been written, in the time the windows cover.
LEMMA StaleWasWritten ==
    ASSUME TypeOK, Times, NothingFromNothing, NEW r \in Accounts, Stale(r)
    PROVE  source[r].version > 0 /\ source[r].stamp > 0 /\ source[r].stamp \in Nat
<1>1. source[r].version \in Nat /\ source[r].stamp \in Nat
  BY DEF TypeOK, SourceRow, Rows
<1>2. QED
  BY <1>1 DEF NothingFromNothing, Stale, Times

LEMMA ClosingStep ==
    ASSUME TypeOK, Times, NothingFromNothing, WindowsMeet, OldCopiesCrossed,
           ClosingRunsCover, [Next]_vars
    PROVE  ClosingRunsCover'
<1> SUFFICES ASSUME NEW w \in Workers, NEW r \in Accounts, Closing(w)', Stale(r)'
             PROVE  Covers(w, r)'
  BY DEF ClosingRunsCover
<1>1. CASE AccountChanges(r)
  <2>1. /\ run' = run /\ source'[r].stamp = clock /\ clock \in Nat
    BY <1>1 DEF AccountChanges, TypeOK, Rows
  <2>2. Running(w) /\ run[w].started <= clock
    BY <2>1 DEF Times, Closing, Running
  <2>3. run[w].at = "finished" => run[w].completed \in Nat
    BY RunFields DEF FinishedRun, Ended
  <2>4. CASE run[w].at = "finished" /\ clock > run[w].completed
    BY <2>1, <2>4 DEF Covers
  <2>5. CASE ~(run[w].at = "finished" /\ clock > run[w].completed)
    <3>1. CrossedBy(run[w], r, "accounts")'
      BY <2>1, <2>2, <2>3, <2>5 DEF CrossedBy, Closing
    <3>2. QED
      BY <2>1, <2>2, <3>1 DEF Covers, Met, Running
  <2>6. QED
    BY <2>4, <2>5
<1>2. ASSUME source'[r] = source[r], Stale(r) PROVE Covers(w, r)'
  <2>1. Met(r, "accounts") => Met(r, "accounts")'
    BY <1>2, CrossingStays
  <2>2. ~Due(r, "accounts") => ~Due(r, "accounts")'
    BY <1>2, DueOnce
  <2>3. CASE run'[w] = run[w]
    <3>1. Covers(w, r)
      BY <1>2, <2>3 DEF ClosingRunsCover, Closing
    <3>2. QED
      BY <1>2, <2>1, <2>2, <2>3, <3>1 DEF Covers
  <2>4. CASE Fetch(w)
    <3>1. run[w].type = "accounts" /\ run[w].at = "started" /\ run'[w].at = "fetched"
      BY <2>4, FetchReads DEF Closing
    <3>2. CASE source[r].stamp > run[w].since
      BY <1>2, <2>4, <3>1, <3>2, FetchReads DEF Covers
    <3>3. CASE ~(source[r].stamp > run[w].since)
      <4>1. run[w].since \in Nat
        BY <3>1, RunFields DEF StartedRun
      <4>2. BeginsAt("accounts", run[w].since)
        BY <3>1 DEF WindowsMeet
      <4>3. PICK e \in Completed("accounts") : e.completed = run[w].since
        BY <1>2, <3>3, <4>1, <4>2, StaleWasWritten DEF BeginsAt
      <4>4. ~Due(r, "accounts")
        BY <3>3, <4>3 DEF Due
      <4>5. QED
        BY <2>2, <4>4 DEF Covers
    <3>4. QED
      BY <3>2, <3>3
  <2>5. ASSUME NEW s \in Rows, Upsert(w, s) \/ SkipRow(w, s) PROVE Covers(w, r)'
    <3>1. Covers(w, r)
      BY <1>2, <2>5, RowDone DEF ClosingRunsCover, Closing
    <3>2. run[w].short => run'[w].short
      BY <2>5, RowDone
    <3>3. CASE run[w].todo[r] = source[r].version /\ s # r
      <4>1. run'[w].todo = [run[w].todo EXCEPT ![s] = 0] /\ run[w].todo \in [Rows -> Nat]
        BY <2>5, RowDone
      <4>2. run'[w].todo[r] = source'[r].version
        BY <1>2, <3>3, <4>1 DEF Rows
      <4>3. QED
        BY <2>5, <4>2, RowDone DEF Covers
    <3>4. CASE run[w].todo[r] = source[r].version /\ s = r
      <4>1. ~Upsert(w, s)
        BY <1>2, <3>4 DEF Upsert, Stale, TypeOK, Rows
      <4>2. run'[w].short
        BY <2>5, <4>1, RowDone
      <4>3. QED
        BY <4>2 DEF Covers
    <3>5. CASE run[w].todo[r] # source[r].version
      <4>1. run[w].at = "fetched"
        BY <2>5, RowDone
      <4>2. QED
        BY <2>1, <2>2, <3>1, <3>2, <3>5, <4>1 DEF Covers
    <3>6. QED
      BY <3>3, <3>4, <3>5
  <2>6. CASE Finish(w)
    <3>1. /\ run[w].at = "fetched" /\ run'[w].at = "finished"
          /\ run'[w].type = run[w].type /\ run'[w].short = run[w].short
          /\ run'[w].status = IF Done(run[w]) THEN "COMPLETED" ELSE "FAILED"
      BY <2>6 DEF Finish, TypeOK
    <3>2. run[w].todo[r] = 0
      BY <3>1 DEF Closing, Done, Rows
    <3>3. run[w].todo[r] # source[r].version
      BY <1>2, <3>2, StaleWasWritten
    <3>4. Covers(w, r)
      BY <1>2, <3>1 DEF ClosingRunsCover, Closing
    <3>5. QED
      BY <2>1, <2>2, <3>1, <3>3, <3>4 DEF Covers
  <2>7. (\E type \in Types : Start(w, type)) => ~Closing(w)'
    BY DEF Start, Closing, TypeOK
  <2>8. WriteSyncLog(w) \/ Vanish(w) => ~Closing(w)'
    BY DEF WriteSyncLog, Vanish, Closing, TypeOK, Idle
  <2>9. QED
    BY <2>3, <2>4, <2>5, <2>6, <2>7, <2>8, RunWritten DEF WorkerStep
<1>3. ASSUME source'[r] = source[r], ~Stale(r) PROVE Covers(w, r)'
  BY <1>3, StaleArises DEF Covers
<1>4. QED
  BY <1>1, <1>2, <1>3, SourceWritten

LEMMA LossesStep ==
    ASSUME TypeOK, Times, OldCopiesCrossed, ClosingRunsCover, LossesMet,
           [Next]_vars
    PROVE  LossesMet'
<1> SUFFICES ASSUME NEW r \in Accounts, Stale(r)'
             PROVE  (Due(r, "accounts") \/ Met(r, "accounts") \/ Short(r, "accounts"))'
  BY DEF LossesMet
<1>1. CASE AccountChanges(r)
  <2>1. ended' = ended /\ source'[r].stamp = clock
    BY <1>1 DEF AccountChanges, TypeOK, Rows
  <2>2. ASSUME NEW e \in Completed("accounts"), ~(clock > e.completed)
        PROVE  CrossedBy(e, r, "accounts")'
    <3>1. /\ e.started <= e.completed /\ e.completed <= clock
          /\ e.started \in Nat /\ e.completed \in Nat /\ clock \in Nat
      BY DEF Completed, SyncLog, Times, TypeOK, Entry, Ended
    <3>2. QED
      BY <2>1, <2>2, <3>1 DEF CrossedBy, Completed, SyncLog
  <2>3. QED
    BY <2>1, <2>2 DEF Due, Met, Completed, SyncLog
<1>2. ASSUME source'[r] = source[r], Stale(r)
      PROVE  (Due(r, "accounts") \/ Met(r, "accounts") \/ Short(r, "accounts"))'
  <2>1. Met(r, "accounts") => Met(r, "accounts")'
    BY <1>2, CrossingStays
  <2>2. Short(r, "accounts") => Short(r, "accounts")'
    BY <1>2, LogGrows DEF Short, Completed, SyncLog
  <2>3. ASSUME Due(r, "accounts"), NEW e \in Completed("accounts")',
               ~(source[r].stamp > e.completed)
        PROVE  (Met(r, "accounts") \/ Short(r, "accounts"))'
    <3>1. e \notin ended
      BY <2>3 DEF Due, Completed, SyncLog
    <3>2. PICK w \in Workers : WriteSyncLog(w) \/ Vanish(w)
      BY <2>3, <3>1 DEF Completed, SyncLog, Next, vars, Tick, AccountChanges, BillChanges, Start,
                        Fetch, Upsert, SkipRow, Finish
    <3>3. e = run[w] /\ run[w].at = "finished"
      BY <2>3, <3>1, <3>2 DEF Completed, SyncLog, WriteSyncLog, Vanish
    <3>4. Covers(w, r)
      BY <1>2, <2>3, <3>3 DEF ClosingRunsCover, Closing, Completed, SyncLog
    <3>5. CASE Met(r, "accounts")
      BY <2>1, <3>5
    <3>6. CASE run[w].short
      <4>1. source[r].stamp \in Nat /\ e.completed \in Nat
        BY <3>3, RunFields DEF TypeOK, SourceRow, Rows, FinishedRun, Ended
      <4>2. QED
        BY <1>2, <2>3, <3>3, <3>6, <4>1 DEF Short
    <3>7. QED
      BY <2>3, <3>3, <3>4, <3>5, <3>6 DEF Covers
  <2>4. QED
    BY <1>2, <2>1, <2>2, <2>3 DEF LossesMet, Due
<1>3. ASSUME source'[r] = source[r], ~Stale(r) PROVE Met(r, "accounts")'
  BY <1>3, StaleArises
<1>4. QED
  BY <1>1, <1>2, <1>3, SourceWritten

LEMMA LossInit == Init => LossInv
BY DEF Init, LossInv, Times, NothingFromNothing, WindowsMeet, OldCopiesCrossed,
       ClosingRunsCover, Closing, LossesMet, Stale, Running, Idle, Rows

LEMMA AlwaysMet == Spec => [](TypeOK /\ LossesMet)
<1>1. TypeOK /\ LossInv /\ [Next]_vars => LossInv'
  BY TimesStep, NothingStep, WindowsStep, CopiesStep, ClosingStep, LossesStep
     DEF LossInv
<1>2. LossInv => LossesMet
  BY DEF LossInv
<1>3. QED
  BY <1>1, <1>2, TypeInit, TypeStep, LossInit, PTL DEF Spec

\* What has ended is in cdc_sync_log or has vanished.
LEMMA MetIsTold ==
    ASSUME TypeOK, NEW r \in Accounts, Met(r, "accounts")
    PROVE  Crossed(r, "accounts") \/ CrossedUnseen(r, "accounts")
<1>1. ended = SyncLog \cup Vanished
  BY DEF SyncLog, Vanished
<1>2. QED
  BY <1>1 DEF Met, Crossed, CrossedUnseen

\* However runs overlap, fail, reach their limit or vanish, an account that is
\* not as GWL has it is due, or cdc_sync_log or a running run shows why it is not,
\* or a run was on when it changed that is gone without an entry.
THEOREM NoOtherLoss == Spec => []LossesExplained
<1>1. TypeOK /\ LossesMet => LossesExplained
  BY MetIsTold DEF LossesMet, LossesExplained
<1>2. QED
  BY <1>1, AlwaysMet, PTL

\* As long as every run that ended has written its entry, the log and the running
\* runs alone tell why an account is stale and not due.
THEOREM LogTellsUnlessVanished ==
    Spec => [](Vanished = {} =>
                 \A r \in Accounts : Stale(r) =>
                    \/ Due(r, "accounts")
                    \/ Crossed(r, "accounts") \/ Short(r, "accounts"))
<1>1. LossesExplained /\ Vanished = {} =>
        \A r \in Accounts : Stale(r) =>
           \/ Due(r, "accounts")
           \/ Crossed(r, "accounts") \/ Short(r, "accounts")
  BY DEF LossesExplained, CrossedUnseen
<1>2. QED
  BY <1>1, NoOtherLoss, PTL
-----------------------------------------------------------------------------
(***************************************************************************)
(* Which copies can grow old.  A run holds versions GWL had when it fetched*)
(* them; if the mirror has a newer one when the run comes to write a row,  *)
(* another run put it there, and was on after this one began.              *)
(***************************************************************************)

\* No copy, and nothing fetched, is newer than what GWL has.
NothingNewer ==
    \A r \in Rows :
      /\ mirror[r] <= source[r].version
      /\ \A w \in Workers :
           run[w].at = "fetched" => run[w].todo[r] <= source[r].version

\* A run has rows of its own table to do.
OwnRows ==
    \A w \in Workers, r \in Rows :
      run[w].at = "fetched" /\ run[w].todo[r] > 0 => r \in TableOf(run[w].type)

\* Who is about to write an old version has been overtaken.
OldMeansOvertaken ==
    \A w \in Workers, r \in Rows :
      run[w].at = "fetched" /\ 0 < run[w].todo[r] /\ run[w].todo[r] < mirror[r]
        => Overtaken(w)

AgeInv == NothingNewer /\ OwnRows /\ OldMeansOvertaken

\* What Fetch takes: rows of the run's table, in the version GWL has.
LEMMA FetchTakes ==
    ASSUME TypeOK, NEW w \in Workers, Fetch(w)
    PROVE  /\ run[w].at = "started" /\ run'[w].at = "fetched"
           /\ run'[w].type = run[w].type /\ run'[w].started = run[w].started
           /\ \A r \in Rows : \/ run'[w].todo[r] = 0
                              \/ /\ run'[w].todo[r] = source[r].version
                                 /\ r \in TableOf(run[w].type)
<1>1. PICK f \in [rows : SUBSET TableOf(run[w].type), short : BOOLEAN] :
        run' = [run EXCEPT ![w] =
                 [at |-> "fetched", type |-> run[w].type, started |-> run[w].started,
                  since |-> run[w].since, short |-> f.short,
                  todo |-> [r \in Rows |-> IF r \in f.rows THEN source[r].version
                                                           ELSE 0]]]
  BY DEF Fetch
<1>2. /\ run'[w].at = "fetched" /\ run'[w].type = run[w].type
      /\ run'[w].started = run[w].started
      /\ run'[w].todo = [r \in Rows |-> IF r \in f.rows THEN source[r].version ELSE 0]
  BY <1>1 DEF TypeOK
<1>3. QED
  BY <1>2 DEF Fetch

\* GWL's counts of versions only grow.
LEMMA VersionsGrow ==
    ASSUME TypeOK, [Next]_vars, NEW r \in Rows
    PROVE  /\ source[r].version \in Nat /\ source'[r].version \in Nat
           /\ source[r].version <= source'[r].version
<1>1. source[r].version \in Nat
  BY DEF TypeOK, SourceRow
<1>2. CASE source' = source
  BY <1>1, <1>2
<1>3. ASSUME NEW s \in Accounts, AccountChanges(s)
      PROVE  source[r].version <= source'[r].version
  <2>1. source' = [source EXCEPT ![s] = [version |-> source[s].version + 1,
                                         stamp |-> clock]]
    BY <1>3 DEF AccountChanges
  <2>2. QED
    BY <1>1, <2>1 DEF TypeOK, Rows
<1>4. ASSUME NEW s \in Bills, BillChanges(s)
      PROVE  source[r].version <= source'[r].version
  <2>1. PICK date : source' = [source EXCEPT ![s] = [version |-> source[s].version + 1,
                                                     stamp |-> date]]
    BY <1>4 DEF BillChanges
  <2>2. QED
    BY <1>1, <2>1 DEF TypeOK, Rows
<1>5. source[r].version <= source'[r].version
  BY <1>1, <1>2, <1>3, <1>4
  DEF Next, vars, Tick, Start, Fetch, Upsert, SkipRow, Finish, WriteSyncLog, Vanish
<1>6. source'[r].version \in Nat
  BY TypeStep DEF TypeOK, SourceRow
<1>7. QED
  BY <1>1, <1>5, <1>6

\* What a step may do to a run that has rows to do after it.
LEMMA TodoMoves ==
    ASSUME TypeOK, [Next]_vars, NEW w \in Workers, run'[w].at = "fetched"
    PROVE  \/ run'[w] = run[w]
           \/ Fetch(w)
           \/ \E r \in Rows : Upsert(w, r) \/ SkipRow(w, r)
<1>1. SUFFICES ASSUME run'[w] # run[w] PROVE Fetch(w) \/ \E r \in Rows : Upsert(w, r) \/ SkipRow(w, r)
  OBVIOUS
<1>2. WorkerStep(w)
  BY <1>1, RunWritten
<1>3. ~ \E type \in Types : Start(w, type)
  BY DEF Start, TypeOK
<1>4. ~Finish(w)
  BY DEF Finish, TypeOK
<1>5. ~WriteSyncLog(w) /\ ~Vanish(w)
  BY DEF WriteSyncLog, Vanish, TypeOK, Idle
<1>6. QED
  BY <1>2, <1>3, <1>4, <1>5 DEF WorkerStep

\* The mirror is written by upserts alone.
LEMMA MirrorWritten ==
    ASSUME TypeOK, [Next]_vars, NEW r \in Rows, mirror'[r] # mirror[r]
    PROVE  \E w \in Workers : Upsert(w, r) /\ mirror'[r] = run[w].todo[r]
<1>1. PICK w \in Workers, s \in Rows : Upsert(w, s)
  BY DEF Next, vars, Tick, AccountChanges, BillChanges, Start, Fetch, SkipRow, Finish,
         WriteSyncLog, Vanish
<1>2. s = r /\ mirror'[r] = run[w].todo[r]
  BY <1>1 DEF Upsert, TypeOK
<1>3. QED
  BY <1>1, <1>2

LEMMA NewerStep ==
    TypeOK /\ NothingNewer /\ [Next]_vars => NothingNewer'
<1> SUFFICES ASSUME TypeOK, NothingNewer, [Next]_vars, NEW r \in Rows
             PROVE  /\ mirror'[r] <= source'[r].version
                    /\ \A w \in Workers :
                         run'[w].at = "fetched" => run'[w].todo[r] <= source'[r].version
  BY DEF NothingNewer
<1>1. /\ source[r].version \in Nat /\ source'[r].version \in Nat
      /\ source[r].version <= source'[r].version
  BY VersionsGrow
<1>2. \A w \in Workers : run[w].at = "fetched" =>
        run[w].todo[r] \in Nat /\ run[w].todo[r] <= source[r].version
  BY RunFields DEF FetchedRun, NothingNewer
<1>3. mirror'[r] \in Nat /\ mirror'[r] <= source[r].version
  <2>1. CASE mirror'[r] = mirror[r]
    BY <2>1 DEF NothingNewer, TypeOK
  <2>2. CASE mirror'[r] # mirror[r]
    BY <1>2, <2>2, MirrorWritten DEF Upsert
  <2>3. QED
    BY <2>1, <2>2
<1>4. ASSUME NEW w \in Workers, run'[w].at = "fetched"
      PROVE  run'[w].todo[r] \in Nat /\ run'[w].todo[r] <= source[r].version
  <2>1. CASE run'[w] = run[w]
    BY <1>2, <1>4, <2>1
  <2>2. CASE Fetch(w)
    BY <1>1, <2>2, FetchTakes
  <2>3. ASSUME NEW s \in Rows, Upsert(w, s) \/ SkipRow(w, s)
        PROVE  run'[w].todo[r] \in Nat /\ run'[w].todo[r] <= source[r].version
    <3>1. /\ run[w].at = "fetched"
          /\ run'[w].todo[r] = 0 \/ run'[w].todo[r] = run[w].todo[r]
      BY <2>3, RowDone
    <3>2. QED
      BY <1>1, <1>2, <3>1
  <2>4. QED
    BY <1>4, <2>1, <2>2, <2>3, TodoMoves
<1>5. QED
  BY <1>1, <1>3, <1>4

LEMMA OwnRowsStep == TypeOK /\ OwnRows /\ [Next]_vars => OwnRows'
<1> SUFFICES ASSUME TypeOK, OwnRows, [Next]_vars, NEW w \in Workers, NEW r \in Rows,
                    run'[w].at = "fetched", run'[w].todo[r] > 0
             PROVE  r \in TableOf(run'[w].type)
  BY DEF OwnRows, TableOf
<1>1. CASE run'[w] = run[w]
  BY <1>1 DEF OwnRows
<1>2. CASE Fetch(w)
  BY <1>2, FetchTakes
<1>3. ASSUME NEW s \in Rows, Upsert(w, s) \/ SkipRow(w, s)
      PROVE  r \in TableOf(run'[w].type)
  <2>1. /\ run[w].at = "fetched" /\ run'[w].type = run[w].type
        /\ run'[w].todo[r] = 0 \/ run'[w].todo[r] = run[w].todo[r]
    BY <1>3, RowDone
  <2>2. QED
    BY <2>1 DEF OwnRows
<1>4. QED
  BY <1>1, <1>2, <1>3, TodoMoves

\* Who has been overtaken stays so for as long as it runs: the other run goes on,
\* or ends in the log, later than this one began.
LEMMA OvertakenStays ==
    ASSUME TypeOK, Times, [Next]_vars, NEW w \in Workers, Running(w), Overtaken(w),
           run'[w].type = run[w].type, run'[w].started = run[w].started
    PROVE  Overtaken(w)'
<1>1. CASE \E e \in ended : Meets(e, run[w])
  BY <1>1, LogGrows DEF Overtaken, Meets
<1>2. ASSUME NEW v \in Workers, v # w, Running(v), Meets(run[v], run[w])
      PROVE  Overtaken(w)'
  <2>1. run[w].started <= clock
    BY DEF Times
  <2>2. CASE run'[v] = run[v]
    BY <1>2, <2>2 DEF Overtaken, Meets, Running
  <2>3. ASSUME run'[v].at = "fetched", run'[v].type = run[v].type
        PROVE  Overtaken(w)'
    BY <1>2, <2>3 DEF Overtaken, Meets, Running
  <2>4. CASE Fetch(v)
    BY <2>3, <2>4, FetchTakes
  <2>5. ASSUME NEW s \in Rows, Upsert(v, s) \/ SkipRow(v, s)
        PROVE  Overtaken(w)'
    BY <2>3, <2>5, RowDone
  <2>6. CASE Finish(v)
    <3>1. /\ run'[v].at = "finished" /\ run'[v].type = run[v].type
          /\ run'[v].completed = clock
      BY <2>6 DEF Finish, TypeOK
    <3>2. QED
      BY <1>2, <2>1, <3>1 DEF Overtaken, Meets, Running
  <2>7. CASE WriteSyncLog(v)
    <3>1. run[v] \in ended'
      BY <2>7 DEF WriteSyncLog
    <3>2. QED
      BY <1>2, <3>1 DEF Overtaken, Meets
  <2>8. CASE Vanish(v)
    <3> DEFINE e == [at |-> "finished", type |-> run[v].type,
                     started |-> run[v].started, completed |-> clock,
                     short |-> TRUE, status |-> "LOST"]
    <3>1. e \in ended' /\ e.type = run[v].type /\ e.completed = clock
      BY <2>8 DEF Vanish
    <3>2. QED
      BY <1>2, <2>1, <3>1 DEF Overtaken, Meets
  <2>9. QED
    BY <1>2, <2>2, <2>4, <2>5, <2>6, <2>7, <2>8, RunWritten DEF WorkerStep, Start
<1>3. QED
  BY <1>1, <1>2 DEF Overtaken

LEMMA OvertakenStep ==
    TypeOK /\ Times /\ AgeInv /\ [Next]_vars => OldMeansOvertaken'
<1> SUFFICES ASSUME TypeOK, Times, AgeInv, [Next]_vars, NEW w \in Workers, NEW r \in Rows,
                    run'[w].at = "fetched", 0 < run'[w].todo[r],
                    run'[w].todo[r] < mirror'[r]
             PROVE  Overtaken(w)'
  BY DEF OldMeansOvertaken
<1>1. ~Fetch(w)
  <2>1. ASSUME Fetch(w) PROVE FALSE
    <3>1. mirror' = mirror
      BY <2>1 DEF Fetch
    <3>2. run'[w].todo[r] = source[r].version
      BY <2>1, FetchTakes
    <3>3. source[r].version \in Nat /\ mirror[r] \in Nat /\ mirror[r] <= source[r].version
      BY DEF AgeInv, NothingNewer, TypeOK, SourceRow
    <3>4. QED
      BY <3>1, <3>2, <3>3
  <2>2. QED
    BY <2>1
<1>2. /\ run[w].at = "fetched" /\ run'[w].type = run[w].type
      /\ run'[w].started = run[w].started
      /\ run'[w].todo[r] = run[w].todo[r]
  <2>1. ASSUME NEW s \in Rows, Upsert(w, s) \/ SkipRow(w, s)
        PROVE  /\ run[w].at = "fetched" /\ run'[w].type = run[w].type
               /\ run'[w].started = run[w].started
               /\ run'[w].todo[r] = run[w].todo[r]
    <3>1. /\ run[w].at = "fetched" /\ run'[w].type = run[w].type
          /\ run'[w].started = run[w].started
          /\ run'[w].todo[r] = 0 \/ run'[w].todo[r] = run[w].todo[r]
      BY <2>1, RowDone
    <3>2. QED
      BY <3>1
  <2>2. QED
    BY <1>1, <2>1, TodoMoves
<1>3. CASE mirror'[r] = mirror[r]
  <2>1. Overtaken(w)
    BY <1>2, <1>3 DEF AgeInv, OldMeansOvertaken
  <2>2. QED
    BY <1>2, <2>1, OvertakenStays DEF Running
<1>4. ASSUME NEW v \in Workers, Upsert(v, r), mirror'[r] = run[v].todo[r]
      PROVE  Overtaken(w)'
  <2>1. /\ run[v].at = "fetched" /\ run[v].todo[r] > 0
        /\ run'[v].at = "fetched" /\ run'[v].type = run[v].type
        /\ run'[v].todo[r] = 0
    <3>1. /\ run'[v].at = "fetched" /\ run'[v].type = run[v].type
          /\ run'[v].todo = [run[v].todo EXCEPT ![r] = 0]
          /\ run[v].todo \in [Rows -> Nat]
      BY <1>4, RowDone
    <3>2. QED
      BY <1>4, <3>1 DEF Upsert
  <2>2. v # w
    BY <2>1
  <2>3. r \in TableOf(run[v].type) /\ r \in TableOf(run[w].type)
    BY <1>2, <2>1 DEF AgeInv, OwnRows
  <2>4. run[v].type = run[w].type
    <3>1. run[v].type \in Types /\ run[w].type \in Types
      BY <1>2, <2>1, RunningFields DEF Running
    <3>2. QED
      BY <2>3, <3>1 DEF Types, TableOf
  <2>5. QED
    BY <1>2, <2>1, <2>2, <2>4 DEF Overtaken, Meets, Running
<1>5. QED
  BY <1>3, <1>4, MirrorWritten

\* OldVersionsOvertaken: however many runs there are and whenever they write what
\* they fetched, a copy goes back to an older version only by the hand of a run
\* that another run of its type was on with.  One run at a time never undoes
\* anything.
THEOREM AgeTellsOfOverlap == Spec => OldVersionsOvertaken
<1>1. Init => TypeOK /\ LossInv /\ AgeInv
  <2>1. Init => AgeInv
    BY DEF Init, AgeInv, NothingNewer, OwnRows, OldMeansOvertaken, Idle
  <2>2. QED
    BY <2>1, TypeInit, LossInit
<1>2. TypeOK /\ Times /\ AgeInv /\ [Next]_vars => TypeOK' /\ Times' /\ AgeInv'
  BY TypeStep, TimesStep, NewerStep, OwnRowsStep, OvertakenStep DEF AgeInv
<1>3. TypeOK /\ AgeInv /\ [Next]_vars =>
        [\A r \in Rows : mirror'[r] < mirror[r] =>
           \E w \in Workers : Upsert(w, r) /\ Overtaken(w)]_vars
  <2> SUFFICES ASSUME TypeOK, AgeInv, [Next]_vars, NEW r \in Rows, mirror'[r] < mirror[r]
               PROVE  \E w \in Workers : Upsert(w, r) /\ Overtaken(w)
    OBVIOUS
  <2>1. mirror'[r] # mirror[r]
    BY DEF TypeOK
  <2>2. PICK w \in Workers : Upsert(w, r) /\ mirror'[r] = run[w].todo[r]
    BY <2>1, MirrorWritten
  <2>3. run[w].at = "fetched" /\ run[w].todo[r] > 0
    BY <2>2 DEF Upsert
  <2>4. run[w].todo[r] < mirror[r]
    BY <2>2
  <2>5. Overtaken(w)
    BY <2>3, <2>4 DEF AgeInv, OldMeansOvertaken
  <2>6. QED
    BY <2>2, <2>5
<1>4. LossInv => Times
  BY DEF LossInv
<1>5. QED
  BY <1>1, <1>2, <1>3, <1>4, PTL DEF Spec, OldVersionsOvertaken
=============================================================================
