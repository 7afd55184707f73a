------------------------------ MODULE GwlCases ------------------------------
(***************************************************************************)
(* GWL case management: the GWL portal's case page and its page of credit  *)
(* requests (CaseDetailPage.tsx, CreditRequestsPage.tsx) over the          *)
(* gateway's case routes (gwl_handler.go, gwl_case_repo.go).  A page shows *)
(* a case as it was last fetched and offers actions by what it shows; the  *)
(* gateway carries out what it is sent, whatever became of the case since. *)
(* Each call is one transaction that updates the case's row before its     *)
(* other rows, or inserts a request of its own and then updates that row.  *)
(* Two calls wait for each other there, so a call takes effect in one step.*)
(***************************************************************************)
EXTENDS Naturals, Sequences, FiniteSets

CONSTANTS
    Cases,     \* anomaly flags
    Staff,     \* sessions of the portal, each with one page of each kind
    Trusted,   \* those whose role is an admin role of the row policies
    Officers,  \* field officers a case can be assigned to
    Choices,   \* statuses staff choose in the status modal
    Facts,     \* what cases are raised about (see FactsOf)
    Calls,     \* calls to the gateway, in the order they are sent
    MaxFaults, \* how many calls fail or are given up (bound)
    None

Resolved == {"CORRECTED", "CLOSED", "DISPUTED"}
Offered == Resolved \cup {"UNDER_INVESTIGATION", "APPROVED_FOR_CORRECTION"}
Statuses == Offered \cup {"PENDING_REVIEW", "FIELD_ASSIGNED"}
Requested == {"APPROVED_RECLASSIFICATION", "ISSUED_CREDIT"}
Verdicts == {"APPROVED", "REJECTED"}
Kinds == {"OVERBILLING", "CATEGORY_MISMATCH", "OTHER"}

\* billed: the case's estimated loss is not 0
FactsOf == [kind : Kinds, billed : BOOLEAN]

ASSUME GwlAssumption ==
    /\ Facts \subseteq FactsOf
    /\ Trusted \subseteq Staff
    /\ Choices \subseteq Offered
    /\ Calls \subseteq Nat /\ MaxFaults \in Nat
    /\ None \notin Cases \cup Officers /\ None \notin Calls

VARIABLES
    fact,     \* what a case is about, which nothing here changes
    case,     \* what its row of anomaly_flags adds to that
    job,      \* the officer of the field job made for the case
    trail,    \* its rows of gwl_case_actions
    request,  \* rows of reclassification_ and credit_requests, by their call
    call,     \* each call, at the gateway and at the page that made it
    page      \* what each session shows and has under way

vars == <<fact, case, job, trail, request, call, page>>
-----------------------------------------------------------------------------
NoModal == [op |-> "none", seen |-> 0, opening |-> None]

Unused == [stage |-> "unused", by |-> None, op |-> "none", on |-> None, arg |-> None,
           seen |-> 0, opening |-> None, applied |-> FALSE, ok |-> FALSE, heard |-> "waiting"]

\* The credit requests a list shows as pending, and so with its two buttons
Pending == {k \in Calls : call[k].op = "credit" /\ request[k] = "PENDING"}

\* seen: how many changes of the case the page has fetched
CasePage(c) == [on |-> c, seen |-> Len(trail[c]), modal |-> NoModal, sent |-> {},
                listed |-> {}, busy |-> None]

CreditsPage == [on |-> None, seen |-> 0, modal |-> NoModal, sent |-> {},
                listed |-> Pending, busy |-> None]

\* The status an entry of the trail stands for
StatusOf(e) == IF e.type = "ASSIGNED" THEN "FIELD_ASSIGNED"
               ELSE IF e.type \in Requested THEN "APPROVED_FOR_CORRECTION"
               ELSE e.type

\* The case's status after the first n entries of its trail
StatusAfter(c, n) == IF n = 0 THEN "PENDING_REVIEW" ELSE StatusOf(trail[c][n])

\* The status a case page shows
Shown(s) == StatusAfter(page[s].on, page[s].seen)

Init ==
    /\ fact \in [Cases -> Facts]
    /\ case = [c \in Cases |-> [status |-> "PENDING_REVIEW", officer |-> None, stamped |-> FALSE]]
    /\ job = [c \in Cases |-> None]
    /\ trail = [c \in Cases |-> <<>>]
    /\ request = [k \in Calls |-> "none"]
    /\ call = [k \in Calls |-> Unused]
    /\ page = [s \in Staff |-> CreditsPage]
-----------------------------------------------------------------------------
(* The case page *)

\* Pages go on for as long as there are calls left to make (bound): what they
\* show after the last one has no effect.
CallsLeft == \E k \in Calls : call[k].stage = "unused"

\* Opening a page, or coming back to it: nothing under way is remembered.
Visit(s) ==
    /\ CallsLeft
    /\ \E p \in {CreditsPage} \cup {CasePage(c) : c \in Cases} : page' = [page EXCEPT ![s] = p]
    /\ UNCHANGED <<fact, case, job, trail, request, call>>

\* A fetch of useCase, or of useCredits: a modal stays open.
Refetch(s) ==
    /\ CallsLeft
    /\ page' = [page EXCEPT ![s] =
                   IF @.on = None THEN [@ EXCEPT !.listed = Pending]
                   ELSE [@ EXCEPT !.seen = Len(trail[page[s].on])]]
    /\ UNCHANGED <<fact, case, job, trail, request, call>>

\* Mutant of Shows: a resolved case keeps its buttons.
ShowsResolved(s, op) ==
    /\ op = "assign" => Shown(s) # "FIELD_ASSIGNED"
    /\ op = "reclassify" => fact[page[s].on].kind = "CATEGORY_MISMATCH"
    /\ op = "credit" => fact[page[s].on].kind = "OVERBILLING"

\* The buttons of the action panel.
Shows(s, op) ==
    /\ Shown(s) \notin Resolved
    /\ op = "assign" => Shown(s) # "FIELD_ASSIGNED"
    /\ op = "reclassify" => fact[page[s].on].kind = "CATEGORY_MISMATCH"
    /\ op = "credit" => fact[page[s].on].kind = "OVERBILLING"

Open(s, op) ==
    /\ CallsLeft
    /\ page[s].on # None /\ page[s].modal = NoModal
    /\ Shows(s, op)
    /\ page' = [page EXCEPT ![s].modal =
                    [op |-> op, seen |-> page[s].seen, opening |-> None]]
    /\ UNCHANGED <<fact, case, job, trail, request, call>>

Cancel(s) ==
    /\ CallsLeft
    /\ page[s].modal # NoModal
    /\ page' = [page EXCEPT ![s].modal = NoModal]
    /\ UNCHANGED <<fact, case, job, trail, request, call>>

\* Mutant of Loading: the button takes a second click.
LoadingNever(s, op) == FALSE

\* isPending of the mutation behind the modal's button
Loading(s, op) == \E k \in page[s].sent : call[k].op = op

IsNext(k) == \A j \in Calls : call[j].stage = "unused" <=> k <= j

Send(k, s, op, on, arg, seen, opening) ==
    call' = [call EXCEPT ![k] =
                [stage |-> "sent", by |-> s, op |-> op, on |-> on, arg |-> arg,
                 seen |-> seen, opening |-> opening, applied |-> FALSE, ok |-> FALSE,
                 heard |-> "waiting"]]

Args(op) == CASE op = "status" -> Choices
              [] op = "assign" -> Officers
              [] OTHER -> {None}

\* handleAssign, handleStatusUpdate, handleReclassify, handleCredit
Submit(s, k) ==
    LET m == page[s].modal
        opening == IF m.opening = None THEN k ELSE m.opening
    IN  /\ m # NoModal
        /\ ~Loading(s, m.op)
        /\ IsNext(k)
        /\ \E arg \in Args(m.op) : Send(k, s, m.op, page[s].on, arg, m.seen, opening)
        /\ page' = [page EXCEPT ![s] = [@ EXCEPT !.modal.opening = opening,
                                                 !.sent = page[s].sent \cup {k}]]
        /\ UNCHANGED <<fact, case, job, trail, request>>
-----------------------------------------------------------------------------
(* The page of credit requests *)

\* Mutant of Decidable: the buttons stay when the request is decided.
DecidableAlways(s, r) ==
    page[s].on = None /\ page[s].busy # r /\ request[r] # "none" /\ call[r].op = "credit"

\* Approve and Reject are shown for what is listed as pending, and disabled
\* for the one request that was clicked last.
Decidable(s, r) == r \in page[s].listed /\ page[s].busy # r

Decide(s, k, r) ==
    /\ Decidable(s, r)
    /\ IsNext(k)
    /\ \E v \in Verdicts :
          Send(k, s, "verdict", r, v, IF r \in page[s].listed THEN 0 ELSE 1, k)
    /\ page' = [page EXCEPT ![s] = [@ EXCEPT !.busy = r,
                                                 !.sent = page[s].sent \cup {k}]]
    /\ UNCHANGED <<fact, case, job, trail, request>>
-----------------------------------------------------------------------------
(* The gateway *)

Running(k, op) == call[k].stage = "sent" /\ call[k].op = op

\* Actions on a case add to gwl_case_actions, whose row policy wants an admin,
\* or a district, which no insert names.  A credit wants a billed amount.
Refused(k) ==
    /\ call[k].op # "verdict"
    /\ \/ call[k].by \notin Trusted
       \/ call[k].op = "credit" /\ ~fact[call[k].on].billed

Answered(k, applied, ok) ==
    [call EXCEPT ![k] = [@ EXCEPT !.stage = "answered", !.applied = applied, !.ok = ok]]

Log(c, type, officer) ==
    trail' = [trail EXCEPT ![c] = Append(@, [type |-> type, officer |-> officer])]

\* Mutant of UpdateCaseStatus: only a resolution writes gwl_resolved_at.
UpdateKeepsStamp(k) ==
    LET c == call[k].on
    IN  /\ Running(k, "status") /\ ~Refused(k)
        /\ case' = [case EXCEPT ![c] =
                       [@ EXCEPT !.status = call[k].arg,
                                 !.stamped = @ \/ call[k].arg \in Resolved]]
        /\ Log(c, call[k].arg, None)
        /\ call' = Answered(k, TRUE, TRUE)
        /\ UNCHANGED <<fact, job, request, page>>

\* gwl_resolved_at is set or cleared; the officer stays.
UpdateCaseStatus(k) ==
    LET c == call[k].on
    IN  /\ Running(k, "status") /\ ~Refused(k)
        /\ case' = [case EXCEPT ![c] =
                       [@ EXCEPT !.status = call[k].arg,
                                 !.stamped = call[k].arg \in Resolved]]
        /\ Log(c, call[k].arg, None)
        /\ call' = Answered(k, TRUE, TRUE)
        /\ UNCHANGED <<fact, job, request, page>>

\* Mutant of MakeJob: the officer is taken from the case as it was read before.
MakeJobStale(c, o) == job' = [job EXCEPT ![c] = IF @ = None THEN case[c].officer ELSE @]

\* The reference is made from the case's id, whose first eight digits are taken
\* to tell cases apart: ON CONFLICT DO NOTHING.
MakeJob(c, o) == job' = [job EXCEPT ![c] = IF @ = None THEN o ELSE @]

\* Mutant of Assigned: the case takes the name of the action for its status.
AssignedByAction(row, o) == [row EXCEPT !.status = "ASSIGNED", !.officer = o]

Assigned(row, o) == [row EXCEPT !.status = "FIELD_ASSIGNED", !.officer = o]

AssignToFieldOfficer(k) ==
    LET c == call[k].on
    IN  /\ Running(k, "assign") /\ ~Refused(k)
        /\ case' = [case EXCEPT ![c] = Assigned(@, call[k].arg)]
        /\ MakeJob(c, call[k].arg)
        /\ Log(c, "ASSIGNED", call[k].arg)
        /\ call' = Answered(k, TRUE, TRUE)
        /\ UNCHANGED <<fact, request, page>>

\* What the two kinds of request have in common
File(k, type) ==
    LET c == call[k].on
    IN  /\ ~Refused(k)
        /\ request' = [request EXCEPT ![k] = "PENDING"]
        /\ case' = [case EXCEPT ![c].status = "APPROVED_FOR_CORRECTION"]
        /\ Log(c, type, None)
        /\ call' = Answered(k, TRUE, TRUE)
        /\ UNCHANGED <<fact, job, page>>

CreateReclassificationRequest(k) ==
    Running(k, "reclassify") /\ File(k, "APPROVED_RECLASSIFICATION")

CreateCreditRequest(k) == Running(k, "credit") /\ File(k, "ISSUED_CREDIT")

\* Whatever the request's status is
UpdateCreditStatus(k) ==
    /\ Running(k, "verdict")
    /\ request' = [request EXCEPT ![call[k].on] = call[k].arg]
    /\ call' = Answered(k, TRUE, TRUE)
    /\ UNCHANGED <<fact, case, job, trail, page>>

\* A check or a constraint ends the transaction: 400 or 500, and a rollback.
Refuse(k) ==
    /\ call[k].stage = "sent" /\ Refused(k)
    /\ call' = Answered(k, FALSE, FALSE)
    /\ UNCHANGED <<fact, case, job, trail, request, page>>

Faulty(k) == \/ call[k].heard = "nothing"
             \/ call[k].stage = "answered" /\ ~call[k].applied /\ ~Refused(k)

MayFail == Cardinality({k \in Calls : Faulty(k)}) < MaxFaults

\* The database or the gateway fails: the commit's failure is answered 200.
Fail(k) ==
    /\ call[k].stage = "sent" /\ MayFail
    /\ \E ok \in BOOLEAN :
          /\ ok => ~Refused(k)
          /\ call' = Answered(k, FALSE, ok)
    /\ UNCHANGED <<fact, case, job, trail, request, page>>
-----------------------------------------------------------------------------
(* The answer at the page *)

\* onSettled forgets which request was clicked, whichever call this answers.
BusyAfter(k) ==
    LET p == page[call[k].by]
    IN  IF call[k].op = "verdict" /\ k \in p.sent THEN None ELSE p.busy

\* A success closes the modal of its kind, if the page was not left.
ModalAfter(k) ==
    LET p == page[call[k].by]
    IN  IF call[k].ok /\ k \in p.sent /\ p.modal.op = call[k].op THEN NoModal ELSE p.modal

Hear(k) ==
    /\ CallsLeft
    /\ call[k].stage = "answered" /\ call[k].heard = "waiting"
    /\ call' = [call EXCEPT ![k].heard = IF call[k].ok THEN "ok" ELSE "failed"]
    /\ page' = [page EXCEPT ![call[k].by] =
                   [@ EXCEPT !.busy = BusyAfter(k), !.modal = ModalAfter(k),
                             !.sent = page[call[k].by].sent \ {k}]]
    /\ UNCHANGED <<fact, case, job, trail, request>>

\* The client's 15 seconds pass, or the connection breaks.
GiveUp(k) ==
    /\ CallsLeft
    /\ call[k].stage # "unused" /\ call[k].heard = "waiting" /\ MayFail
    /\ call' = [call EXCEPT ![k].heard = "nothing"]
    /\ page' = [page EXCEPT ![call[k].by] =
                   [@ EXCEPT !.busy = BusyAfter(k),
                             !.sent = page[call[k].by].sent \ {k}]]
    /\ UNCHANGED <<fact, case, job, trail, request>>
-----------------------------------------------------------------------------
Ops == {"status", "assign", "reclassify", "credit"}

Next == \/ \E s \in Staff : Visit(s) \/ Refetch(s) \/ Cancel(s)
        \/ \E s \in Staff, op \in Ops : Open(s, op)
        \/ \E s \in Staff, k \in Calls : Submit(s, k)
        \/ \E s \in Staff, k, r \in Calls : Decide(s, k, r)
        \/ \E k \in Calls : \/ UpdateCaseStatus(k)
                            \/ AssignToFieldOfficer(k)
                            \/ CreateReclassificationRequest(k)
                            \/ CreateCreditRequest(k)
                            \/ UpdateCreditStatus(k)
                            \/ Refuse(k)
                            \/ Fail(k)
                            \/ Hear(k)
                            \/ GiveUp(k)

Spec == Init /\ [][Next]_vars
-----------------------------------------------------------------------------
Entry == [type : Offered \cup Requested \cup {"ASSIGNED"}, officer : Officers \cup {None}]

Call == [stage : {"unused", "sent", "answered"}, by : Staff \cup {None},
         op : Ops \cup {"verdict", "none"}, on : Cases \cup Calls \cup {None},
         arg : Choices \cup Officers \cup Verdicts \cup {None}, seen : Nat,
         opening : Calls \cup {None}, applied : BOOLEAN, ok : BOOLEAN,
         heard : {"waiting", "ok", "failed", "nothing"}]

Page == [on : Cases \cup {None}, seen : Nat,
         modal : [op : Ops \cup {"none"}, seen : Nat, opening : Calls \cup {None}],
         sent : SUBSET Calls, listed : SUBSET Calls, busy : Calls \cup {None}]

TypeOK ==
    /\ fact \in [Cases -> Facts]
    /\ case \in [Cases -> [status : Statuses, officer : Officers \cup {None},
                           stamped : BOOLEAN]]
    /\ job \in [Cases -> Officers \cup {None}]
    /\ trail \in [Cases -> Seq(Entry)]
    /\ request \in [Calls -> {"none", "PENDING"} \cup Verdicts]
    /\ call \in [Calls -> Call]
    /\ page \in [Staff -> Page]

\* Entry i of a case's trail is the last of the kind T tells.
IsLast(c, i, T) == /\ i \in DOMAIN trail[c] /\ trail[c][i].type \in T
                   /\ \A j \in DOMAIN trail[c] : trail[c][j].type \in T => j <= i

\* The trail explains the case, whoever acted and whatever failed: the status
\* is that of its last entry, the officer that of the last assignment, and
\* the time of resolution stands exactly if the last change of status chosen
\* in the modal was to a resolution: an assignment or a request leaves it.
TrailExplainsCase ==
    \A c \in Cases :
        /\ case[c].status = StatusAfter(c, Len(trail[c]))
        /\ \A i \in DOMAIN trail[c] :
              /\ IsLast(c, i, {"ASSIGNED"}) => case[c].officer = trail[c][i].officer
              /\ IsLast(c, i, Offered) => (case[c].stamped <=> trail[c][i].type \in Resolved)
        /\ trail[c] = <<>> => case[c].officer = None /\ ~case[c].stamped

AssignedTo(c, i, o) == trail[c][i].type = "ASSIGNED" /\ trail[c][i].officer = o

\* The field job of a case is for the officer the case names, and there is none
\* where it names nobody, unless the case was assigned again: then the job may be
\* that of an officer before him.
JobFollowsAssignment ==
    \A c \in Cases :
        \/ job[c] = case[c].officer
        \/ \E i, j \in DOMAIN trail[c] :
              i < j /\ AssignedTo(c, i, job[c]) /\ AssignedTo(c, j, case[c].officer)

\* One opening of a modal has at most one effect, unless its sender gave up
\* waiting for the call that had it: a second credit for one decision takes a
\* lost answer.
OneEffectPerOpening ==
    \A j, k \in Calls :
        /\ j < k /\ call[j].applied /\ call[k].applied
        /\ call[j].opening = call[k].opening
        => call[j].heard = "nothing"

TakesEffect(k) == ~call[k].applied /\ call'[k].applied

\* A final word is undone only by who had not been shown it: a resolved case
\* is reopened only by a call whose modal was opened on the case unresolved,
\* and a verdict on a credit is replaced only by a call from a list that was
\* fetched before the verdict.
FinalWordsStand ==
    [][/\ \A c \in Cases :
            case[c].status \in Resolved /\ case'[c].status \notin Resolved =>
              \E k \in Calls : /\ TakesEffect(k) /\ call[k].on = c
                               /\ StatusAfter(c, call[k].seen) \notin Resolved
       /\ \A r \in Calls :
            request[r] \in Verdicts /\ request'[r] # request[r] =>
              \E k \in Calls : TakesEffect(k) /\ call[k].on = r /\ call[k].seen = 0]_vars
=============================================================================
