---------------------------- MODULE SyncGateway ----------------------------
(***************************************************************************)
(* The gateway's sync routes under the middleware that gives each request  *)
(* one database transaction (rls.go, offline_sync_handler.go).  A push     *)
(* applies a batch of queued actions in its transaction: it commits or     *)
(* rolls back as a whole, but is answered action by action.  A pull reads  *)
(* through the pool beside the transaction it already holds.  Connections  *)
(* and row locks are what requests wait for.                               *)
(***************************************************************************)
EXTENDS Naturals, Sequences, FiniteSets

CONSTANTS
    Pushes,      \* POST /sync/push requests; two of one batch are a retry
    Pulls,       \* GET /sync/pull requests
    Actions,     \* what officers queued
    Rows,        \* the rows they write: field jobs, accounts, readings
    Jobs,        \* the rows of field_jobs
    Target,      \* the row an action writes
    Taken,       \* client_timestamp
    Fate,        \* what handler and database make of an action
    Batch,       \* the actions of a push, in order
    MaxConns,    \* size of the connection pool
    MaxClock,    \* bound of the clock
    MaxUpdates,  \* how often other routes update a job (bound)
    MaxFaults    \* how often the database or the gateway fails (bound)

Requests == Pushes \cup Pulls

\* sound: applied; void: answered APPLIED, changes nothing (no status in the
\* payload, no such account); refused: by a check of the handler; broken: the
\* database refuses its write; unqueued: refuses its entry in the queue.
Fates == {"sound", "void", "refused", "broken", "unqueued"}

ASSUME SyncAssumption ==
    /\ IsFiniteSet(Pushes) /\ IsFiniteSet(Pulls) /\ Pushes \cap Pulls = {}
    /\ Jobs \subseteq Rows
    /\ Target \in [Actions -> Rows]
    /\ Taken \in [Actions -> Nat]
    /\ Fate \in [Actions -> Fates]
    /\ Batch \in [Pushes -> Seq(Actions)]
    /\ MaxConns \in Nat \ {0}
    /\ MaxClock \in Nat /\ MaxUpdates \in Nat /\ MaxFaults \in Nat

VARIABLES
    clock,
    row,      \* committed: updated_at, and how often the row was written
    request,  \* where each request stands
    tx,       \* the transaction of each push; base: the rows' rev when it began
    updates,
    faults

vars == <<clock, row, request, tx, updates, faults>>
-----------------------------------------------------------------------------
Action(p, i) == Batch[p][i]
TargetOf(p, i) == Target[Action(p, i)]

\* The action in hand: the answers so far are those of the actions before it.
At(p) == Len(tx[p].answers) + 1
Open(p) == request[p] = "running" /\ At(p) <= Len(Batch[p])
Now(p) == Action(p, At(p))
Here(p) == Target[Now(p)]

\* Rows written by a transaction stay locked until it ends.
Holds(p, x) == request[p] = "running" /\ \E i \in tx[p].hand : TargetOf(p, i) = x
Locked(p, x) == \E q \in Pushes \ {p} : Holds(q, x)

\* updated_at as the transaction of p sees it: NOW() is when it began.
UpdatedAt(p, x) == IF Holds(p, x) THEN tx[p].began ELSE row[x].at

Free == MaxConns > Cardinality({r \in Requests : request[r] = "running"})

Unbegun == [began |-> 0, base |-> [x \in Rows |-> 0], looked |-> FALSE,
            hand |-> {}, doomed |-> FALSE, answers |-> <<>>, outcome |-> "open"]

Init ==
    /\ clock = 0
    /\ row = [x \in Rows |-> [at |-> 0, rev |-> 0]]
    /\ request = [r \in Requests |-> "waiting"]
    /\ tx = [p \in Pushes |-> Unbegun]
    /\ updates = 0
    /\ faults = 0

Tick ==
    /\ clock < MaxClock
    /\ clock' = clock + 1
    /\ UNCHANGED <<row, request, tx, updates, faults>>

\* A push comes after what it carries: devices have the right time.
Due(r) == r \in Pushes => \A i \in DOMAIN Batch[r] : Taken[Action(r, i)] <= clock

\* The middleware's BeginTx.
Begin(r) ==
    /\ request[r] = "waiting" /\ Due(r)
    /\ Free
    /\ request' = [request EXCEPT ![r] = "running"]
    /\ tx' = [p \in Pushes |->
                IF p = r THEN [tx[p] EXCEPT !.began = clock,
                                            !.base = [x \in Rows |-> row[x].rev]]
                ELSE tx[p]]
    /\ UNCHANGED <<clock, row, updates, faults>>

\* BeginTx fails: the answer is 500.
BeginFails(r) ==
    /\ request[r] = "waiting" /\ Due(r)
    /\ faults < MaxFaults
    /\ faults' = faults + 1
    /\ request' = [request EXCEPT ![r] = "gone"]
    /\ UNCHANGED <<clock, row, tx, updates>>

\* Pull: the query for the jobs takes a second connection from the pool.
Pull(r) ==
    /\ request[r] = "running"
    /\ Free
    /\ request' = [request EXCEPT ![r] = "answered"]
    /\ UNCHANGED <<clock, row, tx, updates, faults>>
-----------------------------------------------------------------------------
(* Push: one action after the other. *)

Answer(p, status) == [tx[p] EXCEPT !.answers = Append(@, status), !.looked = FALSE]

\* Mutant of Doom: the error of the failed statement is ignored.
DoomSilently(p) == [Answer(p, "APPLIED") EXCEPT !.doomed = TRUE]

\* A statement of p's transaction fails, and with it every later one.
Doom(p) == [Answer(p, "REJECTED") EXCEPT !.doomed = TRUE]

\* Mutant of Queue: an action whose statement failed is tried again in the same
\* transaction until it goes through.
QueueRetries(p) ==
    /\ Open(p) /\ ~tx[p].looked
    /\ tx[p].doomed \/ Fate[Now(p)] \in {"refused", "unqueued"}
    /\ tx' = [tx EXCEPT ![p] = IF tx[p].doomed \/ Fate[Now(p)] = "unqueued"
                               THEN [@ EXCEPT !.doomed = TRUE]
                               ELSE Answer(p, "REJECTED")]
    /\ UNCHANGED <<clock, row, request, updates, faults>>

\* What ends at the insert into offline_sync_queue, or at a check of the handler
Queue(p) ==
    /\ Open(p) /\ ~tx[p].looked
    /\ tx[p].doomed \/ Fate[Now(p)] \in {"refused", "unqueued"}
    /\ tx' = [tx EXCEPT ![p] = IF tx[p].doomed \/ Fate[Now(p)] = "unqueued"
                               THEN Doom(p) ELSE Answer(p, "REJECTED")]
    /\ UNCHANGED <<clock, row, request, updates, faults>>

\* The action needs a look at updated_at before it is written.
ToLook(p) ==
    /\ Open(p) /\ ~tx[p].looked /\ ~tx[p].doomed
    /\ Fate[Now(p)] \notin {"refused", "unqueued"}
    /\ Here(p) \in Jobs

\* Mutant of Look: conflicts get the fourth status the comment names.
LookSuperseded(p) ==
    /\ ToLook(p)
    /\ tx' = [tx EXCEPT ![p] = IF UpdatedAt(p, Here(p)) > Taken[Now(p)]
                               THEN Answer(p, "SUPERSEDED")
                               ELSE [@ EXCEPT !.looked = TRUE]]
    /\ UNCHANGED <<clock, row, request, updates, faults>>

\* Mutant of Look: conflicts are only looked for within the batch.
LookInBatch(p) ==
    /\ ToLook(p)
    /\ tx' = [tx EXCEPT ![p] = IF Holds(p, Here(p)) /\ tx[p].began > Taken[Now(p)]
                               THEN Answer(p, "CONFLICT")
                               ELSE [@ EXCEPT !.looked = TRUE]]
    /\ UNCHANGED <<clock, row, request, updates, faults>>

\* applyJobUpdate: the row as this transaction sees it, without a lock
Look(p) ==
    /\ ToLook(p)
    /\ tx' = [tx EXCEPT ![p] = IF UpdatedAt(p, Here(p)) > Taken[Now(p)]
                               THEN Answer(p, "CONFLICT")
                               ELSE [@ EXCEPT !.looked = TRUE]]
    /\ UNCHANGED <<clock, row, request, updates, faults>>

\* The action's own write, or what it answers without one, is next.
ToWrite(p) ==
    /\ Open(p) /\ ~tx[p].doomed
    /\ Here(p) \in Jobs => tx[p].looked

\* applyJobUpdate, applyGPSConfirm, applyMeterReading; applyAnomalyReport is
\* always broken: its insert names no title, which the table requires.
Write(p) ==
    /\ ToWrite(p)
    /\ \/ /\ Fate[Now(p)] = "void"
          /\ tx' = [tx EXCEPT ![p] = Answer(p, "APPLIED")]
       \/ /\ Fate[Now(p)] = "broken"
          /\ tx' = [tx EXCEPT ![p] = Doom(p)]
       \/ /\ Fate[Now(p)] = "sound" /\ ~Locked(p, Here(p))
          /\ tx' = [tx EXCEPT ![p] = [Answer(p, "APPLIED")
                                         EXCEPT !.hand = @ \cup {At(p)}]]
    /\ UNCHANGED <<clock, row, request, updates, faults>>

\* p waits for a row that q holds.
WaitsFor(p, q) ==
    /\ ToWrite(p) /\ Fate[Now(p)] = "sound"
    /\ q # p /\ Holds(q, Here(p))

\* Transactions that wait for each other in a circle: the database ends one.
InCircle(p) ==
    \E S \in SUBSET Pushes :
        /\ p \in S
        /\ \A q \in S : /\ \E r \in S : WaitsFor(q, r)
                        /\ \E r \in S : WaitsFor(r, q)

Victim(p) ==
    /\ InCircle(p)
    /\ tx' = [tx EXCEPT ![p] = Doom(p)]
    /\ UNCHANGED <<clock, row, request, updates, faults>>

Over(p) == request[p] = "running" /\ At(p) > Len(Batch[p])

\* The middleware commits what the handler wrote, and the answer goes out.
Commit(p) ==
    /\ Over(p) /\ ~tx[p].doomed
    /\ row' = [x \in Rows |-> IF Holds(p, x)
                              THEN [at |-> tx[p].began, rev |-> row[x].rev + 1]
                              ELSE row[x]]
    /\ tx' = [tx EXCEPT ![p].outcome = "committed"]
    /\ request' = [request EXCEPT ![p] = "answered"]
    /\ UNCHANGED <<clock, updates, faults>>

\* The commit of a doomed transaction rolls it back; the error is logged and
\* the answer is 200 all the same.
CommitDoomed(p) ==
    /\ Over(p) /\ tx[p].doomed
    /\ tx' = [tx EXCEPT ![p].outcome = "rolled back"]
    /\ request' = [request EXCEPT ![p] = "answered"]
    /\ UNCHANGED <<clock, row, updates, faults>>

\* The same when the connection is lost and the commit never arrives.
CommitLost(p) ==
    /\ Over(p) /\ ~tx[p].doomed
    /\ faults < MaxFaults
    /\ faults' = faults + 1
    /\ tx' = [tx EXCEPT ![p].outcome = "lost"]
    /\ request' = [request EXCEPT ![p] = "answered"]
    /\ UNCHANGED <<clock, row, updates>>
-----------------------------------------------------------------------------
\* Another route (FieldJobRepository.UpdateStatus) updates a job, in one step.
UpdateStatus(x) ==
    /\ updates < MaxUpdates
    /\ Free
    /\ \A p \in Pushes : ~Holds(p, x)
    /\ updates' = updates + 1
    /\ row' = [row EXCEPT ![x] = [at |-> clock, rev |-> @.rev + 1]]
    /\ UNCHANGED <<clock, request, tx, faults>>

\* The gateway ends: its transactions are rolled back, its clients time out.
Die ==
    /\ faults < MaxFaults
    /\ faults' = faults + 1
    /\ request' = [r \in Requests |-> IF request[r] \in {"waiting", "running"}
                                      THEN "gone" ELSE request[r]]
    /\ UNCHANGED <<clock, row, tx, updates>>

PushStep(p) == \/ Queue(p)
               \/ Look(p)
               \/ Write(p)
               \/ Victim(p)
               \/ Commit(p)
               \/ CommitDoomed(p)

Next == \/ Tick
        \/ \E r \in Requests : Begin(r) \/ BeginFails(r)
        \/ \E r \in Pulls : Pull(r)
        \/ \E p \in Pushes : PushStep(p) \/ CommitLost(p)
        \/ \E x \in Jobs : UpdateStatus(x)
        \/ Die

Spec == Init /\ [][Next]_vars

\* Statements end, and who waits for a connection gets one that stays free.
Fairness == /\ \A r \in Requests : WF_vars(Begin(r))
            /\ \A r \in Pulls : WF_vars(Pull(r))
            /\ \A p \in Pushes : WF_vars(PushStep(p))

FairSpec == Spec /\ Fairness
-----------------------------------------------------------------------------
Statuses == {"APPLIED", "CONFLICT", "REJECTED"}
Tx == [began : Nat, base : [Rows -> Nat], looked : BOOLEAN, hand : SUBSET Nat,
       doomed : BOOLEAN, answers : Seq(Statuses),
       outcome : {"open", "committed", "rolled back", "lost"}]

TypeOK ==
    /\ clock \in Nat
    /\ row \in [Rows -> [at : Nat, rev : Nat]]
    /\ request \in [Requests -> {"waiting", "running", "answered", "gone"}]
    /\ tx \in [Pushes -> Tx]
    /\ updates \in Nat
    /\ faults \in Nat

\* What of a push is in the database.
Landed(p) == IF tx[p].outcome = "committed" THEN tx[p].hand ELSE {}

\* An answer that rejects nothing is true: every action it calls APPLIED is in
\* the database, unless the commit itself was lost; and what it calls CONFLICT
\* or REJECTED is never there.  (One that rejects an action may be false of all
\* the others: they are rolled back with it.)
AnswersAreTrue ==
    \A p \in Pushes : request[p] = "answered" =>
        \A i \in DOMAIN Batch[p] :
            /\ tx[p].answers[i] # "APPLIED" => i \notin Landed(p)
            /\ \/ tx[p].answers[i] = "APPLIED" /\ Fate[Action(p, i)] # "void"
                    => i \in Landed(p)
               \/ \E k \in DOMAIN Batch[p] : tx[p].answers[k] = "REJECTED"
               \/ tx[p].outcome = "lost"

\* A push overwrites a job that is newer than its action only if that newer row
\* was committed since the push began (its look came too early).
NewerStands ==
    [][\A p \in Pushes : \A i \in tx[p].hand :
         LET x == TargetOf(p, i)
         IN  x \in Jobs /\ Holds(p, x) /\ row'[x] # row[x] =>
               \/ row[x].at <= Taken[Action(p, i)]
               \/ row[x].rev > tx[p].base[x]]_vars

\* A push that has its transaction always ends, whatever rows it waits for, with
\* whom it waits in a circle, and whatever becomes of its statements.  A request
\* that has none yet ends too if there are fewer pulls than connections; with as
\* many, pulls that wait for a second connection can hold the pool for ever (the
\* run push_pool).
RequestsEnd ==
    /\ \A p \in Pushes : request[p] = "running" ~> request[p] # "running"
    /\ Cardinality(Pulls) < MaxConns =>
         \A r \in Requests :
           request[r] = "waiting" /\ Due(r) ~> request[r] \in {"answered", "gone"}

\* What is told from outside the transactions, and what never will be.
Answered   == [p \in Pushes |-> IF request[p] = "answered" THEN tx[p].answers
                                                           ELSE <<>>]
LostPushes == {p \in Pushes : tx[p].outcome = "lost"}

\* To who reads the answers, the rows are a store of whole batches.
Store == INSTANCE BatchStore WITH Idle <- {a \in Actions : Fate[a] = "void"},
                                  told <- Answered, lost <- LostPushes

\* The pushes implement the store: row locks, looks, failed statements, circles
\* that are broken and commits that are lost never let a part of a batch be
\* seen, nor rows that the answer does not name (rls.go, offline_sync_handler.go).
ImplementsStore == Store!Spec
=============================================================================
