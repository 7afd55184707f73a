----------------------------- MODULE GwlProofs -----------------------------
(***************************************************************************)
(* Proofs about GwlCases, for any cases, staff, officers and calls.        *)
(***************************************************************************)
EXTENDS GwlCases, FiniteSetTheorems, TLAPS

\* The four calls that change a case: what they have in common.
Acts(k, e, row) ==
    LET c == call[k].on
    IN  /\ call[k].stage = "sent" /\ call[k].op \in Ops
        /\ case' = [case EXCEPT ![c] = row]
        /\ trail' = [trail EXCEPT ![c] = Append(@, e)]
        /\ call' = Answered(k, TRUE, TRUE)
        /\ request' = request \/ request' = [request EXCEPT ![k] = "PENDING"]
        /\ UNCHANGED <<fact, page>>

\* A change of status chosen in the modal, an assignment, and a request.
ActsOnStatus(k) ==
    /\ Acts(k, [type |-> call[k].arg, officer |-> None],
            [case[call[k].on] EXCEPT !.status = call[k].arg,
                                     !.stamped = call[k].arg \in Resolved])
    /\ call[k].op = "status" /\ UNCHANGED job
ActsOnOfficer(k) ==
    /\ Acts(k, [type |-> "ASSIGNED", officer |-> call[k].arg],
            [case[call[k].on] EXCEPT !.status = "FIELD_ASSIGNED", !.officer = call[k].arg])
    /\ call[k].op = "assign" /\ MakeJob(call[k].on, call[k].arg)
ActsOnRequest(k) ==
    \E t \in Requested :
      /\ Acts(k, [type |-> t, officer |-> None],
              [case[call[k].on] EXCEPT !.status = "APPROVED_FOR_CORRECTION"])
      /\ UNCHANGED job

LEMMA CallsAct ==
  ASSUME NEW k \in Calls
  PROVE  /\ UpdateCaseStatus(k) => ActsOnStatus(k)
         /\ AssignToFieldOfficer(k) => ActsOnOfficer(k)
         /\ CreateReclassificationRequest(k) \/ CreateCreditRequest(k) => ActsOnRequest(k)
<1>1. UpdateCaseStatus(k) => ActsOnStatus(k)
  BY DEF UpdateCaseStatus, ActsOnStatus, Acts, Running, Log, Ops
<1>2. AssignToFieldOfficer(k) => ActsOnOfficer(k)
  BY DEF AssignToFieldOfficer, Assigned, ActsOnOfficer, Acts, Running, Log, Ops
<1>3. CreateReclassificationRequest(k) \/ CreateCreditRequest(k) => ActsOnRequest(k)
  BY DEF CreateReclassificationRequest, CreateCreditRequest, File, ActsOnRequest, Acts,
         Running, Log, Ops, Requested
<1> QED BY <1>1, <1>2, <1>3

\* What an answer and a call that is sent make of the calls.
LEMMA AnsweredIs ==
  ASSUME TypeOK, NEW k \in Calls, NEW applied \in BOOLEAN, NEW ok \in BOOLEAN,
         call' = Answered(k, applied, ok)
  PROVE  /\ call' \in [Calls -> Call]
         /\ \A j \in Calls : j # k => call'[j] = call[j]
         /\ call'[k].stage = "answered" /\ call'[k].applied = applied /\ call'[k].ok = ok
         /\ \A j \in Calls : /\ call'[j].by = call[j].by /\ call'[j].op = call[j].op
                             /\ call'[j].on = call[j].on /\ call'[j].arg = call[j].arg
                             /\ call'[j].seen = call[j].seen
                             /\ call'[j].opening = call[j].opening
                             /\ call'[j].heard = call[j].heard
<1> DEFINE r == [call[k] EXCEPT !.stage = "answered", !.applied = applied, !.ok = ok]
<1>1. call[k] \in Call
  BY DEF TypeOK
<1>2. /\ r \in Call /\ r.stage = "answered" /\ r.applied = applied /\ r.ok = ok
      /\ r.by = call[k].by /\ r.op = call[k].op /\ r.on = call[k].on
      /\ r.arg = call[k].arg /\ r.seen = call[k].seen
      /\ r.opening = call[k].opening /\ r.heard = call[k].heard
  BY <1>1, ZenonT(40) DEF Call
<1>3. call' = [call EXCEPT ![k] = r]
  BY DEF Answered
<1> HIDE DEF r
<1> QED BY <1>2, <1>3 DEF TypeOK

SentAs(k, s, op, on, arg, seen, opening) ==
    /\ call'[k].stage = "sent" /\ call'[k].by = s /\ call'[k].op = op /\ call'[k].on = on
    /\ call'[k].arg = arg /\ call'[k].seen = seen /\ call'[k].opening = opening
    /\ ~call'[k].applied /\ call'[k].heard = "waiting"

LEMMA SentIs ==
  ASSUME TypeOK, NEW k \in Calls, NEW s \in Staff, NEW op \in Ops \cup {"verdict"},
         NEW on \in Cases \cup Calls, NEW arg \in Choices \cup Officers \cup Verdicts \cup {None},
         NEW seen \in Nat, NEW opening \in Calls, Send(k, s, op, on, arg, seen, opening)
  PROVE  /\ call' \in [Calls -> Call]
         /\ \A j \in Calls : j # k => call'[j] = call[j]
         /\ SentAs(k, s, op, on, arg, seen, opening)
<1>1. [stage |-> "sent", by |-> s, op |-> op, on |-> on, arg |-> arg,
       seen |-> seen, opening |-> opening, applied |-> FALSE, ok |-> FALSE,
       heard |-> "waiting"] \in Call
  BY DEF Call
<1> QED BY <1>1 DEF TypeOK, Send, SentAs

\* A call that is heard of, or given up.
Heard(k, how) == /\ call[k].stage # "unused" /\ call[k].heard = "waiting"
                 /\ how \in {"ok", "failed", "nothing"}
                 /\ call' = [call EXCEPT ![k].heard = how]
                 /\ how = "ok" => call[k].stage = "answered" /\ call[k].ok
                 /\ how = "failed" => call[k].stage = "answered" /\ ~call[k].ok
                 /\ UNCHANGED <<fact, case, job, trail, request>>

LEMMA HeardIs ==
  ASSUME TypeOK, NEW k \in Calls, NEW how, Heard(k, how)
  PROVE  /\ call' \in [Calls -> Call]
         /\ \A j \in Calls : j # k => call'[j] = call[j]
         /\ call'[k].heard = how
         /\ \A j \in Calls : /\ call'[j].by = call[j].by /\ call'[j].op = call[j].op
                             /\ call'[j].on = call[j].on /\ call'[j].arg = call[j].arg
                             /\ call'[j].seen = call[j].seen
                             /\ call'[j].opening = call[j].opening
                             /\ call'[j].stage = call[j].stage
                             /\ call'[j].applied = call[j].applied
                             /\ call'[j].ok = call[j].ok
BY ZenonT(40) DEF TypeOK, Heard, Call
-----------------------------------------------------------------------------
(* The invariant behind the properties *)

Used(k) == call[k].stage # "unused"

\* What is known of a call: the case it is about was shown unresolved, a verdict
\* is on a credit that was raised, and what is heard of it is true.
CallOK(k) ==
    /\ ~Used(k) => /\ call[k].op = "none" /\ call[k].opening = None
                   /\ ~call[k].applied
    /\ Used(k) => /\ call[k].by \in Staff /\ call[k].op \in Ops \cup {"verdict"}
                  /\ call[k].opening \in Calls /\ Used(call[k].opening)
    /\ call[k].op \in Ops => /\ call[k].on \in Cases
                             /\ call[k].seen <= Len(trail[call[k].on])
                             /\ StatusAfter(call[k].on, call[k].seen) \notin Resolved
    /\ call[k].op = "verdict" => /\ call[k].on \in Calls /\ call[call[k].on].applied
                                 /\ call[k].seen = 0 /\ call[k].arg \in Verdicts
    /\ call[k].op = "status" => call[k].arg \in Choices
    /\ call[k].op = "assign" => call[k].arg \in Officers
    /\ call[k].applied => call[k].ok /\ call[k].stage = "answered"
    /\ call[k].heard = "failed" => call[k].stage = "answered" /\ ~call[k].ok
    /\ request[k] # "none" => call[k].applied

PageOK(s) ==
    /\ page[s].on # None => page[s].seen <= Len(trail[page[s].on])
    /\ page[s].modal # NoModal =>
          /\ page[s].on # None /\ page[s].modal.op \in Ops
          /\ page[s].modal.seen <= Len(trail[page[s].on])
          /\ StatusAfter(page[s].on, page[s].modal.seen) \notin Resolved
    /\ \A r \in page[s].listed : call[r].applied

\* Nothing will come of a call any more that its sender waits for.
Spent(k) == \/ call[k].heard = "nothing"
            \/ call[k].heard = "failed" /\ call[k].stage = "answered" /\ ~call[k].applied

\* The calls of an open modal are its own, and failed or are under way.
ModalOK(s) ==
    LET o == page[s].modal.opening
    IN  o # None =>
          /\ call[o].opening = o
          /\ \A j \in Calls : call[j].opening = o =>
                /\ call[j].by = s /\ call[j].op = page[s].modal.op
                /\ Spent(j) \/ (call[j].heard = "waiting" /\ j \in page[s].sent)

\* A call is repeated only when it is spent.
RepeatsOK ==
    \A j, k \in Calls : j < k /\ call[j].opening = call[k].opening /\ call[k].opening # None
                          => Spent(j)

OfficersOK == \A c \in Cases : \A i \in DOMAIN trail[c] :
                trail[c][i].type = "ASSIGNED" => trail[c][i].officer \in Officers

\* Whoever a case names was assigned to it.
JobFollows(c) ==
    /\ \/ job[c] = case[c].officer
       \/ \E i, j \in DOMAIN trail[c] :
             i < j /\ AssignedTo(c, i, job[c]) /\ AssignedTo(c, j, case[c].officer)
    /\ case[c].officer # None =>
         \E i \in DOMAIN trail[c] : AssignedTo(c, i, case[c].officer)

JobsFollow == \A c \in Cases : JobFollows(c)

Inv == /\ TypeOK
       /\ \A k \in Calls : CallOK(k)
       /\ \A s \in Staff : PageOK(s) /\ ModalOK(s)
       /\ RepeatsOK
       /\ OfficersOK /\ TrailExplainsCase /\ JobsFollow

\* What a page step that sends nothing does.
Turns(s, p) == /\ p \in Page /\ page' = [page EXCEPT ![s] = p]
               /\ UNCHANGED <<fact, case, job, trail, request, call>>

LEMMA StatusFixed ==
  ASSUME TypeOK, NEW c \in Cases, NEW n \in 0 .. Len(trail[c]), trail' = trail
  PROVE  StatusAfter(c, n)' = StatusAfter(c, n)
BY DEF StatusAfter

LEMMA EntryTypes ==
  ASSUME NEW k \in Calls, CallOK(k), call[k].op = "status"
  PROVE  call[k].arg \in Offered
BY GwlAssumption DEF CallOK

\* A page as Visit, Refetch, Open and Cancel make it
LEMMA PagesTurn ==
  ASSUME Inv, NEW s \in Staff,
         Visit(s) \/ Refetch(s) \/ Cancel(s) \/ \E op \in Ops : Open(s, op)
  PROVE  \E p : /\ Turns(s, p)
                /\ p.on # None => p.seen <= Len(trail[p.on])
                /\ p.modal # NoModal => /\ p.on # None /\ p.modal.op \in Ops
                                        /\ p.modal.seen <= Len(trail[p.on])
                                        /\ StatusAfter(p.on, p.modal.seen) \notin Resolved
                /\ \A r \in p.listed : call[r].applied
                /\ \/ p.modal.opening = None
                   \/ p.modal = page[s].modal /\ p.sent = page[s].sent
<1>0. page[s] \in Page /\ PageOK(s) /\ \A c \in Cases : Len(trail[c]) \in Nat
  BY DEF Inv, TypeOK
<1>p. Pending \in SUBSET Calls /\ \A r \in Pending : call[r].applied
  BY DEF Pending, Inv, CallOK
<1>1. CASE Visit(s)
  <2>1. PICK p \in {CreditsPage} \cup {CasePage(c) : c \in Cases} :
          page' = [page EXCEPT ![s] = p] /\ UNCHANGED <<fact, case, job, trail, request, call>>
    BY <1>1 DEF Visit
  <2>2. p \in Page
    BY <2>1, <1>0, <1>p DEF CreditsPage, CasePage, Page, NoModal
  <2>3. p.modal = NoModal /\ NoModal.opening = None
    BY <2>1 DEF CreditsPage, CasePage, NoModal
  <2>4. p.on # None => p.seen <= Len(trail[p.on])
    BY <2>1, <1>0 DEF CreditsPage, CasePage
  <2>5. \A r \in p.listed : call[r].applied
    BY <2>1, <1>p DEF CreditsPage, CasePage
  <2> QED BY <2>1, <2>2, <2>3, <2>4, <2>5 DEF Turns
<1>2. CASE Refetch(s)
  <2> DEFINE p == IF page[s].on = None THEN [page[s] EXCEPT !.listed = Pending]
                  ELSE [page[s] EXCEPT !.seen = Len(trail[page[s].on])]
  <2>1. page' = [page EXCEPT ![s] = p] /\ UNCHANGED <<fact, case, job, trail, request, call>>
    BY <1>2, <1>0 DEF Refetch, Inv, TypeOK
  <2>2. p \in Page /\ p.on = page[s].on /\ p.modal = page[s].modal /\ p.sent = page[s].sent
    BY <1>0, <1>p DEF Page
  <2>3. p.on # None => p.seen <= Len(trail[p.on])
    BY <1>0 DEF Page
  <2>4. \A r \in p.listed : call[r].applied
    BY <1>0, <1>p DEF Page, PageOK
  <2> HIDE DEF p
  <2> QED BY <2>1, <2>2, <2>3, <2>4, <1>0 DEF Turns, PageOK
<1>3. CASE Cancel(s)
  <2> DEFINE p == [page[s] EXCEPT !.modal = NoModal]
  <2>1. page' = [page EXCEPT ![s] = p] /\ UNCHANGED <<fact, case, job, trail, request, call>>
    BY <1>3 DEF Cancel
  <2>2. /\ p \in Page /\ p.modal = NoModal /\ p.on = page[s].on
        /\ p.seen = page[s].seen /\ p.listed = page[s].listed
    BY <1>0 DEF Page, NoModal
  <2>3. p.modal.opening = None
    BY <2>2 DEF NoModal
  <2> HIDE DEF p
  <2> QED BY <2>1, <2>2, <2>3, <1>0 DEF Turns, PageOK
<1>4. ASSUME NEW op \in Ops, Open(s, op)
      PROVE  \E p : /\ Turns(s, p)
                    /\ p.on # None => p.seen <= Len(trail[p.on])
                    /\ p.modal # NoModal =>
                         /\ p.on # None /\ p.modal.op \in Ops
                         /\ p.modal.seen <= Len(trail[p.on])
                         /\ StatusAfter(p.on, p.modal.seen) \notin Resolved
                    /\ \A r \in p.listed : call[r].applied
                    /\ \/ p.modal.opening = None
                       \/ p.modal = page[s].modal /\ p.sent = page[s].sent
  <2> DEFINE m == [op |-> op, seen |-> page[s].seen, opening |-> None]
             p == [page[s] EXCEPT !.modal = m]
  <2>1. page' = [page EXCEPT ![s] = p] /\ UNCHANGED <<fact, case, job, trail, request, call>>
    BY <1>4 DEF Open
  <2>2. /\ p \in Page /\ p.modal = m /\ p.on = page[s].on
        /\ p.seen = page[s].seen /\ p.listed = page[s].listed
    BY <1>0 DEF Page
  <2>3. page[s].on # None /\ StatusAfter(page[s].on, page[s].seen) \notin Resolved
    BY <1>4 DEF Open, Shows, Shown
  <2>4. m.op = op /\ m.seen = page[s].seen /\ m.opening = None
    OBVIOUS
  <2> HIDE DEF p, m
  <2> QED BY <2>1, <2>2, <2>3, <2>4, <1>0 DEF Turns, PageOK
<1> QED BY <1>1, <1>2, <1>3, <1>4
-----------------------------------------------------------------------------
(* What the other steps do *)

\* The opening a call from the modal of s belongs to
OpeningOf(s, k) == IF page[s].modal.opening = None THEN k ELSE page[s].modal.opening

\* A call from the modal: the call, and the page after it.
LEMMA SubmitIs ==
  ASSUME Inv, NEW s \in Staff, NEW k \in Calls, Submit(s, k)
  PROVE  /\ page[s].modal # NoModal /\ ~Loading(s, page[s].modal.op) /\ IsNext(k)
         /\ call' \in [Calls -> Call]
         /\ \A j \in Calls : j # k => call'[j] = call[j]
         /\ \E arg \in Args(page[s].modal.op) :
               SentAs(k, s, page[s].modal.op, page[s].on, arg, page[s].modal.seen, OpeningOf(s, k))
         /\ page' \in [Staff -> Page]
         /\ \A t \in Staff : t # s => page'[t] = page[t]
         /\ page'[s].on = page[s].on /\ page'[s].seen = page[s].seen
         /\ page'[s].listed = page[s].listed
         /\ page'[s].modal.op = page[s].modal.op /\ page'[s].modal.seen = page[s].modal.seen
         /\ page'[s].modal.opening = OpeningOf(s, k)
         /\ page'[s].sent = page[s].sent \cup {k}
         /\ UNCHANGED <<fact, case, job, trail, request>>
<1> DEFINE m == page[s].modal
           o == OpeningOf(s, k)
           n == [m EXCEPT !.opening = o]
           p == [page[s] EXCEPT !.modal = n, !.sent = page[s].sent \cup {k}]
<1>0. page[s] \in Page /\ PageOK(s) /\ TypeOK
  BY DEF Inv, TypeOK
<1>1. m # NoModal /\ m.op \in Ops /\ m.seen \in Nat /\ page[s].on \in Cases
  BY <1>0 DEF Submit, PageOK, Page
<1>2. o \in Calls
  BY <1>0 DEF Page, OpeningOf
<1>3. PICK arg \in Args(m.op) : Send(k, s, m.op, page[s].on, arg, m.seen, o)
  BY DEF Submit, OpeningOf
<1>4. arg \in Choices \cup Officers \cup Verdicts \cup {None}
  BY <1>1, <1>3 DEF Args, Ops
<1>5. /\ call' \in [Calls -> Call]
      /\ \A j \in Calls : j # k => call'[j] = call[j]
      /\ SentAs(k, s, m.op, page[s].on, arg, m.seen, o)
  BY <1>0, <1>1, <1>2, <1>3, <1>4, SentIs
<1>6. /\ n \in [op : Ops \cup {"none"}, seen : Nat, opening : Calls \cup {None}]
      /\ n.op = m.op /\ n.seen = m.seen /\ n.opening = o
  BY <1>0, <1>2 DEF Page
<1>7. /\ p \in Page /\ p.modal = n /\ p.sent = page[s].sent \cup {k}
      /\ p.on = page[s].on /\ p.seen = page[s].seen /\ p.listed = page[s].listed
  <2> HIDE DEF n
  <2> QED BY <1>0, <1>6 DEF Page
<1>8. page' = [page EXCEPT ![s] = p]
  BY DEF Submit, OpeningOf
<1>9. UNCHANGED <<fact, case, job, trail, request>> /\ ~Loading(s, m.op) /\ IsNext(k)
  BY DEF Submit
<1>10. page' \in [Staff -> Page] /\ page'[s] = p /\ \A t \in Staff : t # s => page'[t] = page[t]
  <2> HIDE DEF p
  <2> QED BY <1>0, <1>7, <1>8 DEF TypeOK
<1> HIDE DEF n, p
<1> QED BY <1>1, <1>3, <1>5, <1>6, <1>7, <1>9, <1>10

\* A verdict from the list: the call, and the page after it.
LEMMA DecideIs ==
  ASSUME Inv, NEW s \in Staff, NEW k \in Calls, NEW r \in Calls, Decide(s, k, r)
  PROVE  /\ r \in page[s].listed /\ IsNext(k)
         /\ call' \in [Calls -> Call]
         /\ \A j \in Calls : j # k => call'[j] = call[j]
         /\ \E v \in Verdicts :
               SentAs(k, s, "verdict", r, v, 0, k)
         /\ page' \in [Staff -> Page]
         /\ \A t \in Staff : t # s => page'[t] = page[t]
         /\ page'[s].on = page[s].on /\ page'[s].seen = page[s].seen
         /\ page'[s].listed = page[s].listed /\ page'[s].modal = page[s].modal
         /\ page'[s].sent = page[s].sent \cup {k}
         /\ UNCHANGED <<fact, case, job, trail, request>>
<1> DEFINE p == [page[s] EXCEPT !.busy = r, !.sent = page[s].sent \cup {k}]
<1>0. page[s] \in Page /\ TypeOK
  BY DEF Inv, TypeOK
<1>1. r \in page[s].listed /\ IsNext(k)
  BY DEF Decide, Decidable
<1>2. PICK v \in Verdicts : Send(k, s, "verdict", r, v, 0, k)
  BY <1>1 DEF Decide
<1>3. /\ call' \in [Calls -> Call]
      /\ \A j \in Calls : j # k => call'[j] = call[j]
      /\ SentAs(k, s, "verdict", r, v, 0, k)
  BY <1>0, <1>2, SentIs
<1>4. /\ p \in Page /\ p.modal = page[s].modal /\ p.sent = page[s].sent \cup {k}
      /\ p.on = page[s].on /\ p.seen = page[s].seen /\ p.listed = page[s].listed
  BY <1>0 DEF Page
<1>5. page' = [page EXCEPT ![s] = p] /\ UNCHANGED <<fact, case, job, trail, request>>
  BY DEF Decide
<1>6. page' \in [Staff -> Page] /\ page'[s] = p /\ \A t \in Staff : t # s => page'[t] = page[t]
  <2> HIDE DEF p
  <2> QED BY <1>0, <1>4, <1>5 DEF TypeOK
<1> HIDE DEF p
<1> QED BY <1>1, <1>2, <1>3, <1>4, <1>5, <1>6

\* An answer, or its absence, at the page of who sent the call
LEMMA HearIs ==
  ASSUME Inv, NEW k \in Calls, Hear(k) \/ GiveUp(k)
  PROVE  \E how : /\ Heard(k, how)
                  /\ call[k].by \in Staff
                  /\ page' \in [Staff -> Page]
                  /\ \A t \in Staff : t # call[k].by => page'[t] = page[t]
                  /\ LET p == page'[call[k].by]
                         q == page[call[k].by]
                     IN  /\ p.on = q.on /\ p.seen = q.seen /\ p.listed = q.listed
                         /\ p.sent = q.sent \ {k}
                         /\ \/ p.modal = NoModal
                            \/ /\ p.modal = q.modal
                               /\ how = "ok" /\ k \in q.sent => q.modal.op # call[k].op
<1> DEFINE s == call[k].by
           how == IF Hear(k) THEN IF call[k].ok THEN "ok" ELSE "failed" ELSE "nothing"
           m == IF Hear(k) THEN ModalAfter(k) ELSE page[s].modal
           p == [page[s] EXCEPT !.busy = BusyAfter(k), !.modal = m, !.sent = page[s].sent \ {k}]
<1>0. TypeOK /\ CallOK(k) /\ call[k] \in Call
  BY DEF Inv, TypeOK
<1>1. call[k].stage # "unused" /\ call[k].heard = "waiting" /\ s \in Staff
  BY <1>0 DEF Hear, GiveUp, CallOK, Used
<1>2. page[s] \in Page
  BY <1>0, <1>1 DEF TypeOK
<1>3. Heard(k, how)
  <2>1. CASE Hear(k)
    BY <2>1, <1>0, <1>1 DEF Hear, Heard, Call
  <2>2. CASE ~Hear(k)
    BY <2>2, <1>1 DEF GiveUp, Heard
  <2> QED BY <2>1, <2>2
<1>4. m = NoModal \/ (m = page[s].modal /\ (how = "ok" /\ k \in page[s].sent
                                              => page[s].modal.op # call[k].op))
  BY DEF ModalAfter
<1>5. BusyAfter(k) \in Calls \cup {None}
  BY <1>2 DEF BusyAfter, Page
<1>6. m \in [op : Ops \cup {"none"}, seen : Nat, opening : Calls \cup {None}]
  BY <1>2, <1>4 DEF Page, NoModal
<1>7. /\ p \in Page /\ p.modal = m /\ p.sent = page[s].sent \ {k}
      /\ p.on = page[s].on /\ p.seen = page[s].seen /\ p.listed = page[s].listed
  <2> HIDE DEF m
  <2> QED BY <1>2, <1>5, <1>6 DEF Page
<1>8. page' = [page EXCEPT ![s] = p]
  <2>1. CASE Hear(k)
    BY <2>1 DEF Hear
  <2>2. CASE ~Hear(k)
    <3>1. page' = [page EXCEPT ![s] = [page[s] EXCEPT !.busy = BusyAfter(k), !.sent = page[s].sent \ {k}]]
      BY <2>2 DEF GiveUp
    <3>2. [page[s] EXCEPT !.busy = BusyAfter(k), !.sent = page[s].sent \ {k}] = p
      BY <2>2, <1>2 DEF Page
    <3> QED BY <3>1, <3>2
  <2> QED BY <2>1, <2>2
<1>9. page' \in [Staff -> Page] /\ page'[s] = p /\ \A t \in Staff : t # s => page'[t] = page[t]
  <2> HIDE DEF p, how, m
  <2> QED BY <1>0, <1>1, <1>7, <1>8 DEF TypeOK
<1> HIDE DEF how, p, m
<1> QED BY <1>1, <1>3, <1>4, <1>7, <1>9
-----------------------------------------------------------------------------
(* Type correctness *)

Row == [status : Statuses, officer : Officers \cup {None}, stamped : BOOLEAN]

\* A call that acts on a case writes a row and an entry of their types.
LEMMA ActsIs ==
  ASSUME Inv, NEW k \in Calls, ActsOnStatus(k) \/ ActsOnOfficer(k) \/ ActsOnRequest(k)
  PROVE  /\ call[k].on \in Cases /\ Used(k) /\ call[k].stage = "sent"
         /\ \E e \in Entry, row \in Row :
               /\ Acts(k, e, row)
               /\ row.status = StatusOf(e) /\ StatusOf(e) \in Statuses
               /\ \/ /\ e.type \in Offered
                     /\ row.officer = case[call[k].on].officer
                     /\ row.stamped = (e.type \in Resolved)
                     /\ job' = job
                  \/ /\ e.type = "ASSIGNED" /\ e.officer \in Officers
                     /\ row.officer = e.officer
                     /\ row.stamped = case[call[k].on].stamped
                     /\ MakeJob(call[k].on, e.officer)
                  \/ /\ e.type \in Requested
                     /\ row.officer = case[call[k].on].officer
                     /\ row.stamped = case[call[k].on].stamped
                     /\ job' = job
<1> USE GwlAssumption
<1> DEFINE c == call[k].on
<1>0. TypeOK /\ CallOK(k) /\ call[k].op \in Ops /\ call[k].stage = "sent"
  BY DEF Inv, ActsOnStatus, ActsOnOfficer, ActsOnRequest, Acts
<1>1. c \in Cases
  BY <1>0 DEF CallOK
<1>2. case[c] \in Row
  BY <1>0, <1>1 DEF TypeOK, Row
<1>3. CASE ActsOnStatus(k)
  <2> DEFINE e == [type |-> call[k].arg, officer |-> None]
             b == call[k].arg \in Resolved
             row == [case[c] EXCEPT !.status = call[k].arg, !.stamped = b]
  <2>1. Acts(k, e, row) /\ job' = job /\ call[k].arg \in Offered
    BY <1>3, <1>0, EntryTypes DEF ActsOnStatus
  <2>2. e \in Entry /\ e.type = call[k].arg
    BY <2>1 DEF Entry
  <2>3. StatusOf(e) = call[k].arg /\ call[k].arg \in Statuses
    BY <2>1, <2>2 DEF StatusOf, Offered, Resolved, Requested, Statuses
  <2>4. /\ row \in Row /\ row.status = call[k].arg /\ row.officer = case[c].officer
        /\ row.stamped = b
    <3>1. b \in BOOLEAN
      OBVIOUS
    <3> HIDE DEF b
    <3> QED BY <1>2, <2>3, <3>1 DEF Row
  <2> HIDE DEF e, row
  <2> QED BY <1>0, <1>1, <2>1, <2>2, <2>3, <2>4 DEF Used
<1>4. CASE ActsOnOfficer(k)
  <2> DEFINE e == [type |-> "ASSIGNED", officer |-> call[k].arg]
             row == [case[c] EXCEPT !.status = "FIELD_ASSIGNED", !.officer = call[k].arg]
  <2>1. Acts(k, e, row) /\ MakeJob(c, call[k].arg) /\ call[k].arg \in Officers
    BY <1>4, <1>0 DEF ActsOnOfficer, CallOK
  <2>2. e \in Entry /\ e.type = "ASSIGNED" /\ e.officer = call[k].arg
    BY <2>1 DEF Entry
  <2>3. StatusOf(e) = "FIELD_ASSIGNED" /\ "FIELD_ASSIGNED" \in Statuses
    BY <2>2 DEF StatusOf, Statuses
  <2>4. /\ row \in Row /\ row.status = "FIELD_ASSIGNED" /\ row.officer = call[k].arg
        /\ row.stamped = case[c].stamped
    BY <1>2, <2>1, <2>3 DEF Row
  <2> HIDE DEF e, row
  <2> QED BY <1>0, <1>1, <2>1, <2>2, <2>3, <2>4 DEF Used
<1>5. CASE ActsOnRequest(k)
  <2>1. PICK t \in Requested :
          /\ Acts(k, [type |-> t, officer |-> None],
                  [case[c] EXCEPT !.status = "APPROVED_FOR_CORRECTION"])
          /\ job' = job
    BY <1>5 DEF ActsOnRequest
  <2> DEFINE e == [type |-> t, officer |-> None]
             row == [case[c] EXCEPT !.status = "APPROVED_FOR_CORRECTION"]
  <2>2. e \in Entry /\ e.type = t
    BY DEF Entry
  <2>3. StatusOf(e) = "APPROVED_FOR_CORRECTION" /\ "APPROVED_FOR_CORRECTION" \in Statuses
    BY <2>2 DEF StatusOf, Statuses, Offered, Requested
  <2>4. /\ row \in Row /\ row.status = "APPROVED_FOR_CORRECTION"
        /\ row.officer = case[c].officer /\ row.stamped = case[c].stamped
    BY <1>2, <2>3 DEF Row
  <2> HIDE DEF e, row
  <2> QED BY <1>0, <1>1, <2>1, <2>2, <2>3, <2>4 DEF Used, e, row
<1> QED BY <1>3, <1>4, <1>5

\* The trail after such a call
LEMMA TrailIs ==
  ASSUME TypeOK, NEW c \in Cases, NEW e \in Entry,
         trail' = [trail EXCEPT ![c] = Append(@, e)]
  PROVE  /\ trail' \in [Cases -> Seq(Entry)]
         /\ Len(trail[c]) \in Nat /\ Len(trail'[c]) = Len(trail[c]) + 1
         /\ DOMAIN trail[c] = 1 .. Len(trail[c])
         /\ DOMAIN trail'[c] = 1 .. Len(trail[c]) + 1
         /\ trail'[c][Len(trail[c]) + 1] = e
         /\ \A i \in 1 .. Len(trail[c]) : trail'[c][i] = trail[c][i]
         /\ \A d \in Cases : d # c => trail'[d] = trail[d]
<1>1. trail[c] \in Seq(Entry) /\ trail \in [Cases -> Seq(Entry)]
  BY DEF TypeOK
<1>2. trail'[c] = Append(trail[c], e) /\ Append(trail[c], e) \in Seq(Entry)
  BY <1>1
<1>3. /\ Len(trail[c]) \in Nat /\ Len(trail'[c]) = Len(trail[c]) + 1
      /\ trail'[c][Len(trail[c]) + 1] = e
      /\ \A i \in 1 .. Len(trail[c]) : trail'[c][i] = trail[c][i]
  BY <1>1, <1>2
<1>4. DOMAIN trail[c] = 1 .. Len(trail[c]) /\ DOMAIN trail'[c] = 1 .. Len(trail'[c])
  BY <1>1, <1>2
<1> QED BY <1>1, <1>2, <1>3, <1>4

LEMMA TypeStep == Inv /\ [Next]_vars => TypeOK'
<1> SUFFICES ASSUME Inv, [Next]_vars
             PROVE  TypeOK'
  OBVIOUS
<1> USE GwlAssumption
<1>0. TypeOK
  BY DEF Inv
<1>1. ASSUME NEW s \in Staff,
             Visit(s) \/ Refetch(s) \/ Cancel(s) \/ \E op \in Ops : Open(s, op)
      PROVE  TypeOK'
  <2>1. PICK p : Turns(s, p)
    BY <1>1, PagesTurn
  <2> QED BY <1>0, <2>1 DEF Turns, TypeOK
<1>2. ASSUME NEW s \in Staff, NEW k \in Calls, Submit(s, k)
      PROVE  TypeOK'
  BY <1>0, <1>2, SubmitIs DEF TypeOK
<1>3. ASSUME NEW s \in Staff, NEW k \in Calls, NEW r \in Calls, Decide(s, k, r)
      PROVE  TypeOK'
  BY <1>0, <1>3, DecideIs DEF TypeOK
<1>4. ASSUME NEW k \in Calls, ActsOnStatus(k) \/ ActsOnOfficer(k) \/ ActsOnRequest(k)
      PROVE  TypeOK'
  <2>1. PICK e \in Entry, row \in Row :
          /\ Acts(k, e, row) /\ call[k].on \in Cases
          /\ job' = job \/ (e.officer \in Officers /\ MakeJob(call[k].on, e.officer))
    BY <1>4, ActsIs
  <2>2. call' \in [Calls -> Call]
    BY <1>0, <2>1, AnsweredIs DEF Acts
  <2>3. trail' \in [Cases -> Seq(Entry)]
    BY <1>0, <2>1, TrailIs DEF Acts
  <2>4. case' \in [Cases -> Row] /\ fact' \in [Cases -> Facts] /\ page' \in [Staff -> Page]
    BY <1>0, <2>1 DEF Acts, TypeOK, Row
  <2>5. request' \in [Calls -> {"none", "PENDING"} \cup Verdicts]
    BY <1>0, <2>1 DEF Acts, TypeOK
  <2>6. job' \in [Cases -> Officers \cup {None}]
    BY <1>0, <2>1 DEF MakeJob, TypeOK
  <2> QED BY <2>2, <2>3, <2>4, <2>5, <2>6 DEF TypeOK, Row
<1>5. ASSUME NEW k \in Calls, UpdateCreditStatus(k)
      PROVE  TypeOK'
  <2>1. call[k].on \in Calls /\ call[k].arg \in Verdicts
    BY <1>5 DEF UpdateCreditStatus, Running, Inv, CallOK
  <2>2. call' \in [Calls -> Call]
    BY <1>0, <1>5, AnsweredIs DEF UpdateCreditStatus
  <2> QED BY <1>0, <1>5, <2>1, <2>2 DEF UpdateCreditStatus, TypeOK
<1>6. ASSUME NEW k \in Calls, Refuse(k) \/ Fail(k)
      PROVE  TypeOK'
  <2>1. call' \in [Calls -> Call]
    BY <1>0, <1>6, AnsweredIs DEF Refuse, Fail
  <2> QED BY <1>0, <1>6, <2>1 DEF Refuse, Fail, TypeOK
<1>7. ASSUME NEW k \in Calls, Hear(k) \/ GiveUp(k)
      PROVE  TypeOK'
  <2>1. PICK how : Heard(k, how) /\ page' \in [Staff -> Page]
    BY <1>7, HearIs
  <2>2. call' \in [Calls -> Call]
    BY <1>0, <2>1, HeardIs
  <2> QED BY <1>0, <2>1, <2>2 DEF Heard, TypeOK
<1>8. CASE UNCHANGED vars
  BY <1>0, <1>8 DEF vars, TypeOK
<1> QED BY <1>1, <1>2, <1>3, <1>4, <1>5, <1>6, <1>7, <1>8, CallsAct DEF Next
-----------------------------------------------------------------------------
(* What no step undoes *)

\* The steps that answer a call without effect
Rejects(k) == Refuse(k) \/ Fail(k)

LEMMA RejectsIs ==
  ASSUME Inv, NEW k \in Calls, Rejects(k)
  PROVE  /\ call[k].stage = "sent"
         /\ \E ok \in BOOLEAN : call' = Answered(k, FALSE, ok)
         /\ UNCHANGED <<fact, case, job, trail, request, page>>
BY DEF Rejects, Refuse, Fail

\* The history of a case only grows.
LEMMA PastStays ==
  ASSUME Inv, [Next]_vars, NEW c \in Cases
  PROVE  /\ Len(trail[c]) \in Nat /\ Len(trail'[c]) \in Nat /\ Len(trail[c]) <= Len(trail'[c])
         /\ \A n \in 0 .. Len(trail[c]) : StatusAfter(c, n)' = StatusAfter(c, n)
<1>0. TypeOK /\ Len(trail[c]) \in Nat
  BY DEF Inv, TypeOK
<1>1. ASSUME NEW k \in Calls, ActsOnStatus(k) \/ ActsOnOfficer(k) \/ ActsOnRequest(k)
      PROVE  /\ Len(trail'[c]) \in Nat /\ Len(trail[c]) <= Len(trail'[c])
             /\ \A n \in 0 .. Len(trail[c]) : StatusAfter(c, n)' = StatusAfter(c, n)
  <2>1. PICK e \in Entry, row \in Row : Acts(k, e, row) /\ call[k].on \in Cases
    BY <1>1, ActsIs
  <2>2. CASE c = call[k].on
    <3>1. /\ Len(trail'[c]) = Len(trail[c]) + 1
          /\ \A i \in 1 .. Len(trail[c]) : trail'[c][i] = trail[c][i]
      BY <1>0, <2>1, <2>2, TrailIs DEF Acts
    <3> QED BY <1>0, <3>1 DEF StatusAfter
  <2>3. CASE c # call[k].on
    <3>1. trail'[c] = trail[c]
      BY <1>0, <2>1, <2>3, TrailIs DEF Acts
    <3> QED BY <1>0, <3>1 DEF StatusAfter
  <2> QED BY <2>2, <2>3
<1>2. ASSUME trail' = trail
      PROVE  /\ Len(trail'[c]) \in Nat /\ Len(trail[c]) <= Len(trail'[c])
             /\ \A n \in 0 .. Len(trail[c]) : StatusAfter(c, n)' = StatusAfter(c, n)
  BY <1>0, <1>2 DEF StatusAfter
<1>3. \/ trail' = trail
      \/ \E k \in Calls : ActsOnStatus(k) \/ ActsOnOfficer(k) \/ ActsOnRequest(k)
  BY CallsAct DEF Next, vars, Visit, Refetch, Cancel, Open, Submit, Decide,
                  UpdateCreditStatus, Refuse, Fail, Hear, GiveUp
<1> QED BY <1>0, <1>1, <1>2, <1>3

\* A call goes from unused to sent, from sent to answered, and is heard of once.
Advances(k) ==
    /\ Used(k) => /\ call'[k].stage # "unused"
                  /\ call'[k].by = call[k].by /\ call'[k].op = call[k].op
                  /\ call'[k].on = call[k].on /\ call'[k].arg = call[k].arg
                  /\ call'[k].seen = call[k].seen /\ call'[k].opening = call[k].opening
    /\ call'[k].stage = "unused" => call'[k] = call[k]
    /\ call[k].stage = "answered" => /\ call'[k].stage = "answered"
                                     /\ call'[k].applied = call[k].applied
                                     /\ call'[k].ok = call[k].ok
    /\ Used(k) /\ call[k].heard # "waiting" => call'[k].heard = call[k].heard

LEMMA CallsAdvance ==
  ASSUME Inv, [Next]_vars, NEW k \in Calls
  PROVE  Advances(k)
<1>0. TypeOK
  BY DEF Inv
<1>1. ASSUME call'[k] = call[k]
      PROVE  Advances(k)
  BY <1>1 DEF Advances, Used
<1>2. ASSUME NEW j \in Calls, NEW applied \in BOOLEAN, NEW ok \in BOOLEAN,
             call[j].stage = "sent", call' = Answered(j, applied, ok)
      PROVE  Advances(k)
  BY <1>0, <1>1, <1>2, AnsweredIs DEF Advances, Used
<1>3. ASSUME NEW s \in Staff, NEW j \in Calls, NEW r \in Calls, Submit(s, j) \/ Decide(s, j, r)
      PROVE  Advances(k)
  <2>1. IsNext(j) /\ call'[j].stage = "sent" /\ \A i \in Calls : i # j => call'[i] = call[i]
    <3>1. CASE Submit(s, j)
      <4>1. IsNext(j) /\ \A i \in Calls : i # j => call'[i] = call[i]
        BY <3>1, SubmitIs
      <4>2. call'[j].stage = "sent"
        BY <3>1, SubmitIs DEF SentAs
      <4> QED BY <4>1, <4>2
    <3>2. CASE Decide(s, j, r)
      <4>1. IsNext(j) /\ \A i \in Calls : i # j => call'[i] = call[i]
        BY <3>2, DecideIs
      <4>2. call'[j].stage = "sent"
        BY <3>2, DecideIs DEF SentAs
      <4> QED BY <4>1, <4>2
    <3> QED BY <1>3, <3>1, <3>2
  <2>2. call[j].stage = "unused"
    BY <2>1, GwlAssumption DEF IsNext
  <2> QED BY <1>1, <2>1, <2>2 DEF Advances, Used
<1>4. ASSUME NEW j \in Calls, Hear(j) \/ GiveUp(j)
      PROVE  Advances(k)
  <2>1. PICK how : Heard(j, how)
    BY <1>4, HearIs
  <2> QED BY <1>0, <1>1, <2>1, HeardIs DEF Advances, Used, Heard
<1>5. ASSUME NEW j \in Calls, ActsOnStatus(j) \/ ActsOnOfficer(j) \/ ActsOnRequest(j)
      PROVE  Advances(k)
  BY <1>2, <1>5 DEF ActsOnStatus, ActsOnOfficer, ActsOnRequest, Acts
<1>6. ASSUME NEW j \in Calls, UpdateCreditStatus(j) \/ Rejects(j)
      PROVE  Advances(k)
  BY <1>2, <1>6, RejectsIs DEF UpdateCreditStatus, Running
<1>7. \/ call' = call
      \/ \E s \in Staff, j, r \in Calls : Submit(s, j) \/ Decide(s, j, r)
      \/ \E j \in Calls : ActsOnStatus(j) \/ ActsOnOfficer(j) \/ ActsOnRequest(j)
      \/ \E j \in Calls : UpdateCreditStatus(j) \/ Rejects(j)
      \/ \E j \in Calls : Hear(j) \/ GiveUp(j)
  BY CallsAct DEF Next, vars, Visit, Refetch, Cancel, Open, Rejects
<1> QED BY <1>1, <1>3, <1>4, <1>5, <1>6, <1>7

\* What is spent stays so, and so does what has taken effect.
LEMMA SpentStays ==
  ASSUME Inv, [Next]_vars, NEW k \in Calls
  PROVE  /\ Used(k) /\ Spent(k) => Spent(k)'
         /\ call[k].applied => call'[k].applied
<1>1. CallOK(k) /\ Advances(k)
  BY CallsAdvance DEF Inv
<1> QED BY <1>1 DEF CallOK, Advances, Spent, Used
-----------------------------------------------------------------------------
(* The calls *)

\* What is answered and heard is true, and a request is that of a call.
Honest(k) ==
    /\ call[k].applied => call[k].ok /\ call[k].stage = "answered"
    /\ call[k].heard = "failed" => call[k].stage = "answered" /\ ~call[k].ok
    /\ request[k] # "none" => call[k].applied

LEMMA HonestStep ==
  ASSUME Inv, [Next]_vars, NEW k \in Calls
  PROVE  Honest(k)'
<1>0. TypeOK /\ Honest(k) /\ CallOK(k) /\ Advances(k)
  BY CallsAdvance DEF Inv, CallOK, Honest
<1>1. ASSUME call'[k] = call[k], request' = request
      PROVE  Honest(k)'
  BY <1>0, <1>1 DEF Honest
<1>2. ASSUME NEW j \in Calls, NEW applied \in BOOLEAN, NEW ok \in BOOLEAN,
             call[j].stage = "sent", call' = Answered(j, applied, ok), applied => ok,
             \/ request' = request
             \/ request' = [request EXCEPT ![j] = "PENDING"] /\ applied
      PROVE  Honest(k)'
  <2>1. CASE k = j
    BY <1>0, <1>2, <2>1, AnsweredIs DEF Honest, TypeOK
  <2>2. CASE k # j
    BY <1>0, <1>2, <2>2, AnsweredIs DEF Honest, TypeOK
  <2> QED BY <2>1, <2>2
<1>3. ASSUME NEW s \in Staff, NEW j \in Calls, NEW r \in Calls, Submit(s, j) \/ Decide(s, j, r)
      PROVE  Honest(k)'
  <2>1. /\ \A i \in Calls : i # j => call'[i] = call[i]
        /\ call'[j].heard = "waiting" /\ ~call'[j].applied
        /\ IsNext(j) /\ request' = request
    <3>1. CASE Submit(s, j)
      <4>1. call'[j].heard = "waiting" /\ ~call'[j].applied
        BY <3>1, SubmitIs DEF SentAs
      <4> QED BY <3>1, <4>1, SubmitIs
    <3>2. CASE Decide(s, j, r)
      <4>1. call'[j].heard = "waiting" /\ ~call'[j].applied
        BY <3>2, DecideIs DEF SentAs
      <4>2. \A i \in Calls : i # j => call'[i] = call[i]
        BY <3>2, DecideIs
      <4>3. IsNext(j) /\ request' = request
        BY <3>2, DecideIs
      <4> QED BY <4>1, <4>2, <4>3
    <3> QED BY <1>3, <3>1, <3>2
  <2>2. call[j].stage = "unused"
    BY <2>1, GwlAssumption DEF IsNext
  <2>3. CASE k = j
    BY <1>0, <2>1, <2>2, <2>3 DEF Honest, CallOK
  <2>4. CASE k # j
    BY <1>1, <2>1, <2>4
  <2> QED BY <2>3, <2>4
<1>4. ASSUME NEW j \in Calls, Hear(j) \/ GiveUp(j)
      PROVE  Honest(k)'
  <2>1. PICK how : Heard(j, how)
    BY <1>4, HearIs
  <2>2. CASE k = j
    BY <1>0, <2>1, <2>2, HeardIs DEF Honest, Heard
  <2>3. CASE k # j
    BY <1>0, <1>1, <2>1, <2>3, HeardIs DEF Heard
  <2> QED BY <2>2, <2>3
<1>5. ASSUME NEW j \in Calls, ActsOnStatus(j) \/ ActsOnOfficer(j) \/ ActsOnRequest(j)
      PROVE  Honest(k)'
  BY <1>2, <1>5 DEF ActsOnStatus, ActsOnOfficer, ActsOnRequest, Acts
<1>6. ASSUME NEW j \in Calls, Rejects(j)
      PROVE  Honest(k)'
  BY <1>2, <1>6, RejectsIs
<1>7. ASSUME NEW j \in Calls, UpdateCreditStatus(j)
      PROVE  Honest(k)'
  <2>1. /\ call[j].stage = "sent" /\ call' = Answered(j, TRUE, TRUE)
        /\ request' = [request EXCEPT ![call[j].on] = call[j].arg]
        /\ call[call[j].on].applied /\ call[j].on \in Calls
    BY <1>7 DEF UpdateCreditStatus, Running, Inv, CallOK
  <2>2. CASE k = j
    BY <1>0, <2>1, <2>2, AnsweredIs DEF Honest, TypeOK
  <2>3. CASE k # j
    <3>1. call'[k] = call[k]
      BY <1>0, <2>1, <2>3, AnsweredIs
    <3>2. request'[k] = request[k] \/ call[k].applied
      BY <1>0, <2>1 DEF TypeOK
    <3> QED BY <1>0, <3>1, <3>2 DEF Honest
  <2> QED BY <2>2, <2>3
<1>8. \/ call' = call /\ request' = request
      \/ \E s \in Staff, j, r \in Calls : Submit(s, j) \/ Decide(s, j, r)
      \/ \E j \in Calls : ActsOnStatus(j) \/ ActsOnOfficer(j) \/ ActsOnRequest(j)
      \/ \E j \in Calls : UpdateCreditStatus(j) \/ Rejects(j)
      \/ \E j \in Calls : Hear(j) \/ GiveUp(j)
  BY CallsAct DEF Next, vars, Visit, Refetch, Cancel, Open, Rejects
<1> QED BY <1>1, <1>3, <1>4, <1>5, <1>6, <1>7, <1>8

\* A call is made by a page.
LEMMA NewCall ==
  ASSUME Inv, [Next]_vars, NEW k \in Calls, ~Used(k), Used(k)'
  PROVE  \E s \in Staff, r \in Calls : Submit(s, k) \/ Decide(s, k, r)
<1>0. TypeOK
  BY DEF Inv
<1>1. ASSUME NEW j \in Calls, NEW applied \in BOOLEAN, NEW ok \in BOOLEAN,
             call[j].stage = "sent", call' = Answered(j, applied, ok)
      PROVE  FALSE
  BY <1>0, <1>1, AnsweredIs DEF Used
<1>2. ASSUME NEW j \in Calls, Hear(j) \/ GiveUp(j)
      PROVE  FALSE
  <2>1. PICK how : Heard(j, how)
    BY <1>2, HearIs
  <2> QED BY <1>0, <2>1, HeardIs DEF Used
<1>3. ASSUME NEW s \in Staff, NEW j \in Calls, NEW r \in Calls, Submit(s, j) \/ Decide(s, j, r)
      PROVE  k = j
  <2>1. \A i \in Calls : i # j => call'[i] = call[i]
    <3>1. CASE Submit(s, j)
      BY <3>1, SubmitIs
    <3>2. CASE Decide(s, j, r)
      BY <3>2, DecideIs
    <3> QED BY <1>3, <3>1, <3>2
  <2> QED BY <2>1 DEF Used
<1>4. ~(\E j \in Calls : ActsOnStatus(j) \/ ActsOnOfficer(j) \/ ActsOnRequest(j))
  BY <1>1 DEF ActsOnStatus, ActsOnOfficer, ActsOnRequest, Acts
<1>5. ~(\E j \in Calls : UpdateCreditStatus(j) \/ Rejects(j))
  BY <1>1, RejectsIs DEF UpdateCreditStatus, Running
<1>6. \/ call' = call
      \/ \E s \in Staff, j, r \in Calls : Submit(s, j) \/ Decide(s, j, r)
  BY <1>2, <1>4, <1>5, CallsAct DEF Next, vars, Visit, Refetch, Cancel, Open, Rejects
<1> QED BY <1>3, <1>6 DEF Used

LEMMA CallsStep ==
  ASSUME Inv, [Next]_vars, NEW k \in Calls
  PROVE  CallOK(k)'
<1>0. CallOK(k) /\ Advances(k) /\ Honest(k)' /\ TypeOK /\ call[k] \in Call
  BY CallsAdvance, HonestStep DEF Inv, TypeOK
<1>1. CASE ~Used(k)'
  BY <1>0, <1>1 DEF CallOK, Advances, Honest, Used, Ops
<1>2. CASE Used(k)
  <2>1. /\ call'[k].by = call[k].by /\ call'[k].op = call[k].op
        /\ call'[k].on = call[k].on /\ call'[k].arg = call[k].arg
        /\ call'[k].seen = call[k].seen /\ call'[k].opening = call[k].opening
        /\ Used(k)'
    BY <1>0, <1>2 DEF Advances, Used
  <2>2. call[k].opening \in Calls /\ Used(call[k].opening)'
    BY <1>0, <1>2, CallsAdvance DEF CallOK, Advances, Used
  <2>3. ASSUME call[k].op \in Ops, NEW c \in Cases, NEW n \in Nat,
               c = call[k].on, n = call[k].seen
        PROVE  n <= Len(trail'[c]) /\ StatusAfter(c, n)' \notin Resolved
    <3>1. n <= Len(trail[c]) /\ StatusAfter(c, n) \notin Resolved
      BY <1>0, <2>3 DEF CallOK
    <3> QED BY <3>1, PastStays
  <2>4. call[k].op = "verdict" => call'[call[k].on].applied
    BY <1>0, SpentStays DEF CallOK
  <2>5. call[k].op \in Ops => call[k].on \in Cases /\ call[k].seen \in Nat
    BY <1>0 DEF CallOK, Call
  <2>6. call[k].op \in Ops => /\ call'[k].seen <= Len(trail'[call'[k].on])
                              /\ StatusAfter(call[k].on, call[k].seen)' \notin Resolved
    BY <2>1, <2>3, <2>5 DEF StatusAfter
  <2> QED BY <1>0, <1>2, <2>1, <2>2, <2>4, <2>5, <2>6 DEF CallOK, Honest, Used
<1>3. CASE ~Used(k) /\ Used(k)'
  <2>1. PICK s \in Staff, r \in Calls : Submit(s, k) \/ Decide(s, k, r)
    BY <1>3, NewCall
  <2>2. CASE Submit(s, k)
    <3> DEFINE m == page[s].modal
    <3>1. PICK arg \in Args(m.op) :
            SentAs(k, s, m.op, page[s].on, arg, m.seen, OpeningOf(s, k))
      BY <2>2, SubmitIs
    <3>2. m # NoModal /\ PageOK(s) /\ ModalOK(s) /\ page[s] \in Page
      BY <2>2, SubmitIs DEF Inv, TypeOK
    <3>3. PICK o \in Calls : o = OpeningOf(s, k)
      BY <3>2 DEF OpeningOf, Page
    <3>4. Used(o)'
      <4>1. CASE m.opening = None
        BY <1>3, <3>3, <4>1 DEF OpeningOf
      <4>2. CASE m.opening # None
        <5>1. o = m.opening /\ call[o].opening = o
          BY <3>2, <3>3, <4>2 DEF OpeningOf, ModalOK
        <5>2. CallOK(o) /\ Advances(o) /\ o # None
          BY CallsAdvance, GwlAssumption DEF Inv
        <5> QED BY <5>1, <5>2 DEF CallOK, Advances, Used
      <4> QED BY <4>1, <4>2
    <3>5. trail' = trail
      BY <2>2, SubmitIs
    <3>6. PICK c \in Cases, n \in Nat, op \in Ops :
            /\ c = page[s].on /\ n = m.seen /\ op = m.op
            /\ n <= Len(trail[c]) /\ StatusAfter(c, n) \notin Resolved
      BY <3>2 DEF PageOK, Page
    <3>7. n <= Len(trail'[c]) /\ StatusAfter(c, n)' \notin Resolved
      BY <3>5, <3>6 DEF StatusAfter
    <3>8. /\ op = "status" => arg \in Choices
          /\ op = "assign" => arg \in Officers
      BY <3>1, <3>6 DEF Args
    <3>9. /\ call'[k].by = s /\ call'[k].op = op /\ call'[k].on = c /\ call'[k].arg = arg
          /\ call'[k].seen = n /\ call'[k].opening = o
          /\ ~call'[k].applied /\ call'[k].heard = "waiting"
      BY <3>1, <3>3, <3>6 DEF SentAs
    <3> QED BY <1>0, <1>3, <3>4, <3>6, <3>7, <3>8, <3>9 DEF CallOK, Honest, Used, Ops, StatusAfter
  <2>3. CASE Decide(s, k, r)
    <3>1. PICK v \in Verdicts : SentAs(k, s, "verdict", r, v, 0, k)
      BY <2>3, DecideIs
    <3>2. call'[r].applied
      BY <2>3, DecideIs, SpentStays DEF Inv, PageOK
    <3> QED BY <1>0, <1>3, <3>1, <3>2 DEF CallOK, Honest, SentAs, Used, Ops
  <2> QED BY <2>1, <2>2, <2>3
<1> QED BY <1>1, <1>2, <1>3
-----------------------------------------------------------------------------
(* The pages *)

\* The kinds of steps there are
LEMMA StepKinds ==
  ASSUME [Next]_vars
  PROVE  \/ UNCHANGED vars
         \/ \E s \in Staff : Visit(s) \/ Refetch(s) \/ Cancel(s) \/ \E op \in Ops : Open(s, op)
         \/ \E s \in Staff, k \in Calls : Submit(s, k)
         \/ \E s \in Staff, k, r \in Calls : Decide(s, k, r)
         \/ \E k \in Calls : ActsOnStatus(k) \/ ActsOnOfficer(k) \/ ActsOnRequest(k)
         \/ \E k \in Calls : UpdateCreditStatus(k) \/ Rejects(k)
         \/ \E k \in Calls : Hear(k) \/ GiveUp(k)
BY CallsAct DEF Next, Rejects

\* The calls that are answered leave the pages alone, and change no opening.
LEMMA AnswersIs ==
  ASSUME Inv, NEW k \in Calls,
         \/ ActsOnStatus(k) \/ ActsOnOfficer(k) \/ ActsOnRequest(k)
         \/ UpdateCreditStatus(k) \/ Rejects(k)
  PROVE  /\ page' = page
         /\ \A j \in Calls : /\ call'[j].by = call[j].by /\ call'[j].op = call[j].op
                             /\ call'[j].opening = call[j].opening
                             /\ call'[j].heard = call[j].heard
<1>0. TypeOK
  BY DEF Inv
<1>1. page' = page /\ \E applied \in BOOLEAN, ok \in BOOLEAN : call' = Answered(k, applied, ok)
  BY RejectsIs DEF ActsOnStatus, ActsOnOfficer, ActsOnRequest, Acts, UpdateCreditStatus
<1> QED BY <1>0, <1>1, AnsweredIs

\* A page that shows no more than it did is still right.
LEMMA PageKept ==
  ASSUME Inv, [Next]_vars, NEW s \in Staff,
         page'[s].on = page[s].on, page'[s].seen = page[s].seen, page'[s].listed = page[s].listed,
         page'[s].modal # NoModal => /\ page[s].modal # NoModal
                                     /\ page'[s].modal.op = page[s].modal.op
                                     /\ page'[s].modal.seen = page[s].modal.seen
  PROVE  PageOK(s)'
<1>0. PageOK(s) /\ page[s] \in Page
  BY DEF Inv, TypeOK
<1>1. \A r \in page'[s].listed : call'[r].applied
  BY <1>0, SpentStays DEF PageOK, Page
<1>2. CASE page[s].on = None
  BY <1>0, <1>1, <1>2 DEF PageOK
<1>3. CASE page[s].on # None
  <2>1. PICK c \in Cases, n \in Nat, m \in Nat :
          c = page[s].on /\ n = page[s].seen /\ m = page[s].modal.seen
    BY <1>0, <1>3 DEF Page
  <2>2. /\ n <= Len(trail[c])
        /\ page[s].modal # NoModal =>
             m <= Len(trail[c]) /\ StatusAfter(c, m) \notin Resolved /\ page[s].modal.op \in Ops
    BY <1>0, <1>3, <2>1 DEF PageOK
  <2>3. /\ n <= Len(trail'[c])
        /\ page[s].modal # NoModal => m <= Len(trail'[c]) /\ StatusAfter(c, m)' \notin Resolved
    BY <2>2, PastStays
  <2> QED BY <1>1, <1>3, <2>1, <2>2, <2>3 DEF PageOK, StatusAfter
<1> QED BY <1>2, <1>3

LEMMA PagesStep ==
  ASSUME Inv, [Next]_vars, NEW s \in Staff
  PROVE  PageOK(s)'
<1>0. PageOK(s) /\ page[s] \in Page /\ TypeOK
  BY DEF Inv, TypeOK
<1>1. ASSUME page'[s] = page[s]
      PROVE  PageOK(s)'
  BY <1>1, PageKept
<1>2. ASSUME NEW t \in Staff,
             Visit(t) \/ Refetch(t) \/ Cancel(t) \/ \E op \in Ops : Open(t, op)
      PROVE  PageOK(s)'
  <2>1. PICK p : /\ Turns(t, p)
                 /\ p.on # None => p.seen <= Len(trail[p.on])
                 /\ p.modal # NoModal => /\ p.on # None /\ p.modal.op \in Ops
                                         /\ p.modal.seen <= Len(trail[p.on])
                                         /\ StatusAfter(p.on, p.modal.seen) \notin Resolved
                 /\ \A r \in p.listed : call[r].applied
    BY <1>2, PagesTurn
  <2>2. page' = [page EXCEPT ![t] = p] /\ trail' = trail /\ call' = call
    BY <2>1 DEF Turns
  <2>3. CASE s = t
    <3>1. page'[s] = p
      BY <1>0, <2>2, <2>3 DEF TypeOK
    <3> QED BY <2>1, <2>2, <3>1 DEF PageOK, StatusAfter
  <2>4. CASE s # t
    BY <1>0, <1>1, <2>2, <2>4 DEF TypeOK
  <2> QED BY <2>3, <2>4
<1>3. ASSUME NEW t \in Staff, NEW k \in Calls, Submit(t, k)
      PROVE  PageOK(s)'
  <2>1. CASE s = t
    BY <1>3, <2>1, SubmitIs, PageKept
  <2>2. CASE s # t
    BY <1>1, <1>3, <2>2, SubmitIs
  <2> QED BY <2>1, <2>2
<1>4. ASSUME NEW t \in Staff, NEW k \in Calls, NEW r \in Calls, Decide(t, k, r)
      PROVE  PageOK(s)'
  <2>1. CASE s = t
    BY <1>4, <2>1, DecideIs, PageKept
  <2>2. CASE s # t
    BY <1>1, <1>4, <2>2, DecideIs
  <2> QED BY <2>1, <2>2
<1>5. ASSUME NEW k \in Calls,
             \/ ActsOnStatus(k) \/ ActsOnOfficer(k) \/ ActsOnRequest(k)
             \/ UpdateCreditStatus(k) \/ Rejects(k)
      PROVE  PageOK(s)'
  BY <1>1, <1>5, AnswersIs
<1>6. ASSUME NEW k \in Calls, Hear(k) \/ GiveUp(k)
      PROVE  PageOK(s)'
  <2>1. CASE s = call[k].by
    BY <1>6, <2>1, HearIs, PageKept
  <2>2. CASE s # call[k].by
    BY <1>1, <1>6, <2>2, HearIs
  <2> QED BY <2>1, <2>2
<1>7. CASE UNCHANGED vars
  BY <1>1, <1>7 DEF vars
<1> QED BY <1>2, <1>3, <1>4, <1>5, <1>6, <1>7, StepKinds
-----------------------------------------------------------------------------
(* The openings *)

\* A call that is not made yet belongs to no opening, and is none.
LEMMA FreshCall ==
  ASSUME Inv, NEW k \in Calls, IsNext(k)
  PROVE  ~Used(k) /\ call[k].opening = None /\ \A j \in Calls : call[j].opening # k
<1>1. ~Used(k) /\ k # None
  BY GwlAssumption DEF IsNext, Used
<1>2. \A j \in Calls : CallOK(j)
  BY DEF Inv
<1> QED BY <1>1, <1>2 DEF CallOK

\* The modal of s is kept, with what it sent, while the calls of other openings change.
LEMMA ModalKept ==
  ASSUME Inv, [Next]_vars, NEW s \in Staff,
         page'[s].modal = page[s].modal, page[s].sent \subseteq page'[s].sent,
         \A j \in Calls : /\ call'[j].by = call[j].by /\ call'[j].op = call[j].op
                          /\ call'[j].opening = call[j].opening
                          /\ call'[j].heard = call[j].heard
                        \/ /\ call[j].opening # page[s].modal.opening
                           /\ call'[j].opening # page[s].modal.opening
  PROVE  ModalOK(s)'
<1>0. ModalOK(s) /\ page[s] \in Page /\ \A j \in Calls : CallOK(j)
  BY DEF Inv, TypeOK
<1>1. CASE page[s].modal.opening = None
  BY <1>1 DEF ModalOK
<1>2. CASE page[s].modal.opening # None
  <2>1. PICK o \in Calls : o = page[s].modal.opening
    BY <1>0, <1>2 DEF Page
  <2>2. call'[o].opening = o
    BY <1>0, <1>2, <2>1 DEF ModalOK
  <2>3. ASSUME NEW j \in Calls, call'[j].opening = o
        PROVE  /\ call'[j].by = s /\ call'[j].op = page[s].modal.op
               /\ Spent(j)' \/ (call'[j].heard = "waiting" /\ j \in page'[s].sent)
    <3>1. /\ call[j].opening = o /\ call'[j].by = call[j].by /\ call'[j].op = call[j].op
          /\ call'[j].heard = call[j].heard
      BY <2>1, <2>3
    <3>2. /\ call[j].by = s /\ call[j].op = page[s].modal.op
          /\ Spent(j) \/ (call[j].heard = "waiting" /\ j \in page[s].sent)
      BY <1>0, <1>2, <2>1, <3>1 DEF ModalOK
    <3>3. Spent(j) => Spent(j)'
      BY <1>0, <1>2, <2>1, <3>1, SpentStays DEF CallOK
    <3> QED BY <3>1, <3>2, <3>3
  <2> QED BY <2>1, <2>2, <2>3 DEF ModalOK
<1> QED BY <1>1, <1>2

LEMMA ModalsStep ==
  ASSUME Inv, [Next]_vars, NEW s \in Staff
  PROVE  ModalOK(s)'
<1>0. ModalOK(s) /\ page[s] \in Page /\ TypeOK /\ NoModal.opening = None
  BY DEF Inv, TypeOK, NoModal
<1>1. ASSUME page'[s].modal.opening = None
      PROVE  ModalOK(s)'
  BY <1>1 DEF ModalOK
<1>2. ASSUME NEW t \in Staff,
             Visit(t) \/ Refetch(t) \/ Cancel(t) \/ \E op \in Ops : Open(t, op)
      PROVE  ModalOK(s)'
  <2>1. PICK p : /\ Turns(t, p)
                 /\ \/ p.modal.opening = None
                    \/ p.modal = page[t].modal /\ p.sent = page[t].sent
    BY <1>2, PagesTurn
  <2>2. page' = [page EXCEPT ![t] = p] /\ call' = call
    BY <2>1 DEF Turns
  <2>3. CASE s = t
    <3>1. page'[s] = p
      BY <1>0, <2>2, <2>3 DEF TypeOK
    <3> QED BY <1>1, <2>1, <2>2, <2>3, <3>1, ModalKept
  <2>4. CASE s # t
    <3>1. page'[s] = page[s]
      BY <1>0, <2>2, <2>4 DEF TypeOK
    <3> QED BY <2>2, <3>1, ModalKept
  <2> QED BY <2>3, <2>4
<1>3. ASSUME NEW t \in Staff, NEW k \in Calls, Submit(t, k)
      PROVE  ModalOK(s)'
  <2>1. /\ call[k].opening = None /\ \A j \in Calls : call[j].opening # k
        /\ \A j \in Calls : j # k => call'[j] = call[j]
    BY <1>3, SubmitIs, FreshCall
  <2>2. /\ call'[k].by = t /\ call'[k].op = page[t].modal.op
        /\ call'[k].opening = OpeningOf(t, k) /\ call'[k].heard = "waiting"
    BY <1>3, SubmitIs DEF SentAs
  <2>3. CASE s # t
    <3>1. page'[s] = page[s]
      BY <1>3, <2>3, SubmitIs
    <3>2. CASE page[s].modal.opening = None
      BY <1>1, <3>1, <3>2
    <3>3. CASE page[s].modal.opening # None
      <4>1. PICK o \in Calls : o = page[s].modal.opening /\ call[o].opening = o /\ call[o].by = s
        BY <1>0, <3>3 DEF Page, ModalOK
      <4>2. o # OpeningOf(t, k)
        BY <2>1, <2>3, <4>1 DEF OpeningOf, Inv, ModalOK
      <4>3. call[k].opening # o /\ call'[k].opening # o
        BY <2>1, <2>2, <3>3, <4>1, <4>2
      <4> QED BY <2>1, <3>1, <4>1, <4>3, ModalKept
    <3> QED BY <3>2, <3>3
  <2>4. CASE s = t
    <3>1. /\ page'[s].modal.op = page[s].modal.op /\ page'[s].modal.opening = OpeningOf(s, k)
          /\ page'[s].sent = page[s].sent \cup {k}
      BY <1>3, <2>4, SubmitIs
    <3>2. PICK o \in Calls : o = OpeningOf(s, k)
      BY <1>0 DEF OpeningOf, Page
    <3>3. call'[o].opening = o
      <4>1. CASE o = k
        BY <2>2, <2>4, <3>2, <4>1
      <4>2. CASE o # k
        BY <1>0, <2>1, <3>2, <4>2 DEF OpeningOf, ModalOK
      <4> QED BY <4>1, <4>2
    <3>4. ASSUME NEW j \in Calls, call'[j].opening = o
          PROVE  /\ call'[j].by = s /\ call'[j].op = page[s].modal.op
                 /\ Spent(j)' \/ (call'[j].heard = "waiting" /\ j \in page'[s].sent)
      <4>1. CASE j = k
        BY <2>2, <2>4, <3>1, <4>1
      <4>2. CASE j # k
        <5>1. call'[j] = call[j] /\ call[j].opening = o
          BY <2>1, <3>4, <4>2
        <5>2. o = page[s].modal.opening /\ o # None
          BY <2>1, <3>2, <5>1, GwlAssumption DEF OpeningOf
        <5>3. /\ call[j].by = s /\ call[j].op = page[s].modal.op
              /\ Spent(j) \/ (call[j].heard = "waiting" /\ j \in page[s].sent)
          BY <1>0, <5>1, <5>2 DEF ModalOK
        <5> QED BY <3>1, <5>1, <5>3 DEF Spent
      <4> QED BY <4>1, <4>2
    <3> QED BY <3>1, <3>2, <3>3, <3>4 DEF ModalOK
  <2> QED BY <2>3, <2>4
<1>4. ASSUME NEW t \in Staff, NEW k \in Calls, NEW r \in Calls, Decide(t, k, r)
      PROVE  ModalOK(s)'
  <2>1. /\ call[k].opening = None /\ \A j \in Calls : call[j].opening # k
        /\ \A j \in Calls : j # k => call'[j] = call[j]
    BY <1>4, DecideIs, FreshCall
  <2>2. call'[k].opening = k
    BY <1>4, DecideIs DEF SentAs
  <2>3. page'[s].modal = page[s].modal /\ page[s].sent \subseteq page'[s].sent
    BY <1>4, DecideIs
  <2>4. page[s].modal.opening # k
    BY <1>0, <2>1 DEF ModalOK
  <2>5. CASE page[s].modal.opening = None
    BY <1>1, <2>3, <2>5
  <2>6. CASE page[s].modal.opening # None
    BY <2>1, <2>2, <2>3, <2>4, <2>6, ModalKept
  <2> QED BY <2>5, <2>6
<1>5. ASSUME NEW k \in Calls,
             \/ ActsOnStatus(k) \/ ActsOnOfficer(k) \/ ActsOnRequest(k)
             \/ UpdateCreditStatus(k) \/ Rejects(k)
      PROVE  ModalOK(s)'
  BY <1>5, AnswersIs, ModalKept
<1>6. ASSUME NEW k \in Calls, Hear(k) \/ GiveUp(k)
      PROVE  ModalOK(s)'
  <2>1. PICK how :
          /\ Heard(k, how)
          /\ call[k].by \in Staff
          /\ \A t \in Staff : t # call[k].by => page'[t] = page[t]
          /\ LET p == page'[call[k].by]
                 q == page[call[k].by]
             IN  /\ p.sent = q.sent \ {k}
                 /\ \/ p.modal = NoModal
                    \/ /\ p.modal = q.modal
                       /\ how = "ok" /\ k \in q.sent => q.modal.op # call[k].op
    BY <1>6, HearIs
  <2>2. /\ \A j \in Calls : j # k => call'[j] = call[j]
        /\ call'[k].heard = how
        /\ \A j \in Calls : /\ call'[j].by = call[j].by /\ call'[j].op = call[j].op
                            /\ call'[j].opening = call[j].opening
                            /\ call'[j].stage = call[j].stage
                            /\ call'[j].applied = call[j].applied
    BY <1>0, <2>1, HeardIs
  <2>3. CASE page[s].modal.opening = None \/ page'[s].modal = NoModal
    <3>1. page'[s].modal.opening = None
      BY <1>0, <2>1, <2>3
    <3> QED BY <1>1, <3>1
  <2>4. CASE page[s].modal.opening # None /\ page'[s].modal # NoModal
    <3>1. PICK o \in Calls : o = page[s].modal.opening
      BY <1>0, <2>4 DEF Page
    <3>2. /\ call[o].opening = o
          /\ \A j \in Calls : call[j].opening = o =>
                /\ call[j].by = s /\ call[j].op = page[s].modal.op
                /\ Spent(j) \/ (call[j].heard = "waiting" /\ j \in page[s].sent)
      BY <1>0, <2>4, <3>1 DEF ModalOK
    <3>3. /\ page'[s].modal = page[s].modal
          /\ \A j \in page[s].sent : j # k => j \in page'[s].sent
      BY <2>1, <2>4
    <3>4. ASSUME call[k].opening = o
          PROVE  Spent(k)'
      <4>1. call[k].by = s /\ call[k].op = page[s].modal.op /\ k \in page[s].sent
        BY <2>1, <3>2, <3>4 DEF Heard, Spent
      <4>2. how = "nothing" \/ (how = "failed" /\ call[k].stage = "answered" /\ ~call[k].ok)
        BY <2>1, <2>4, <4>1 DEF Heard
      <4>3. CallOK(k)
        BY DEF Inv
      <4> QED BY <2>2, <4>2, <4>3 DEF Spent, CallOK
    <3>5. ASSUME NEW j \in Calls, call'[j].opening = o
          PROVE  /\ call'[j].by = s /\ call'[j].op = page[s].modal.op
                 /\ Spent(j)' \/ (call'[j].heard = "waiting" /\ j \in page'[s].sent)
      <4>1. call[j].opening = o
        BY <2>2, <3>5
      <4>2. CASE j = k
        BY <2>2, <3>2, <3>4, <4>1, <4>2
      <4>3. CASE j # k
        BY <2>2, <3>2, <3>3, <4>1, <4>3 DEF Spent
      <4> QED BY <4>2, <4>3
    <3> QED BY <2>2, <3>1, <3>2, <3>3, <3>5 DEF ModalOK
  <2> QED BY <2>3, <2>4
<1>7. CASE UNCHANGED vars
  BY <1>7, ModalKept DEF vars
<1> QED BY <1>2, <1>3, <1>4, <1>5, <1>6, <1>7, StepKinds

LEMMA RepeatsStep ==
  ASSUME Inv, [Next]_vars
  PROVE  RepeatsOK'
<1> SUFFICES ASSUME NEW j \in Calls, NEW k \in Calls, j < k,
                    call'[j].opening = call'[k].opening, call'[k].opening # None
             PROVE  Spent(j)'
  BY DEF RepeatsOK
<1>0. Advances(j) /\ Advances(k) /\ CallOK(j) /\ CallOK(k) /\ CallOK(j)' /\ CallOK(k)' /\ RepeatsOK
  BY CallsAdvance, CallsStep DEF Inv
<1>1. Used(j)' /\ Used(k)'
  BY <1>0 DEF CallOK
<1>2. CASE Used(j) /\ Used(k)
  <2>1. call[j].opening = call[k].opening /\ call[k].opening # None
    BY <1>0, <1>2 DEF Advances
  <2> QED BY <1>0, <1>2, <2>1, SpentStays DEF RepeatsOK
<1>3. CASE ~Used(k)
  <2>1. PICK s \in Staff, r \in Calls : Submit(s, k) \/ Decide(s, k, r)
    BY <1>1, <1>3, NewCall
  <2>2. CASE Submit(s, k)
    <3>1. /\ \A i \in Calls : call[i].opening # k
          /\ call'[j] = call[j] /\ ~Loading(s, page[s].modal.op)
      BY <2>2, SubmitIs, FreshCall, GwlAssumption
    <3>2. call'[k].opening = OpeningOf(s, k)
      BY <2>2, SubmitIs DEF SentAs
    <3>3. call[j].opening = page[s].modal.opening /\ page[s].modal.opening # None
      BY <3>1, <3>2 DEF OpeningOf
    <3>4. /\ call[j].op = page[s].modal.op
          /\ Spent(j) \/ (call[j].heard = "waiting" /\ j \in page[s].sent)
      BY <3>3 DEF Inv, ModalOK
    <3>5. Spent(j)
      BY <3>1, <3>4 DEF Loading
    <3> QED BY <3>1, <3>5 DEF Spent
  <2>3. CASE Decide(s, k, r)
    <3>1. call'[k].opening = k
      BY <2>3, DecideIs DEF SentAs
    <3>2. (\A i \in Calls : call[i].opening # k) /\ call'[j] = call[j]
      BY <2>3, DecideIs, FreshCall, GwlAssumption
    <3> QED BY <3>1, <3>2
  <2> QED BY <2>1, <2>2, <2>3
<1>4. CASE ~Used(j) /\ Used(k)
  <2>1. PICK s \in Staff, r \in Calls : Submit(s, j) \/ Decide(s, j, r)
    BY <1>1, <1>4, NewCall
  <2>2. IsNext(j)
    BY <2>1, SubmitIs, DecideIs
  <2> QED BY <1>4, <2>2, GwlAssumption DEF IsNext, Used
<1> QED BY <1>2, <1>3, <1>4
-----------------------------------------------------------------------------
(* The history of a case *)

\* What is said of one case
Explains(c) ==
    /\ case[c].status = StatusAfter(c, Len(trail[c]))
    /\ \A i \in DOMAIN trail[c] :
          /\ IsLast(c, i, {"ASSIGNED"}) => case[c].officer = trail[c][i].officer
          /\ IsLast(c, i, Offered) => (case[c].stamped <=> trail[c][i].type \in Resolved)
    /\ trail[c] = <<>> => case[c].officer = None /\ ~case[c].stamped

OfficersAre(c) ==
    \A i \in DOMAIN trail[c] : trail[c][i].type = "ASSIGNED" => trail[c][i].officer \in Officers

\* A call that acts on a case explains what it makes of it.
LEMMA ActsExplain ==
  ASSUME Inv, NEW k \in Calls, ActsOnStatus(k) \/ ActsOnOfficer(k) \/ ActsOnRequest(k),
         NEW c \in Cases
  PROVE  Explains(c)' /\ JobFollows(c)' /\ OfficersAre(c)'
<1> USE GwlAssumption
<1>0. TypeOK /\ Explains(c) /\ JobFollows(c) /\ OfficersAre(c)
  BY DEF Inv, Explains, JobFollows, OfficersAre, TrailExplainsCase, JobsFollow, OfficersOK
<1>1. PICK e \in Entry, row \in Row :
        /\ Acts(k, e, row) /\ call[k].on \in Cases /\ row.status = StatusOf(e)
        /\ \/ /\ e.type \in Offered
              /\ row.officer = case[call[k].on].officer
              /\ row.stamped = (e.type \in Resolved)
              /\ job' = job
           \/ /\ e.type = "ASSIGNED" /\ e.officer \in Officers
              /\ row.officer = e.officer
              /\ row.stamped = case[call[k].on].stamped
              /\ MakeJob(call[k].on, e.officer)
           \/ /\ e.type \in Requested
              /\ row.officer = case[call[k].on].officer
              /\ row.stamped = case[call[k].on].stamped
              /\ job' = job
  BY ActsIs
<1>2. case' = [case EXCEPT ![call[k].on] = row] /\ trail' = [trail EXCEPT ![call[k].on] = Append(@, e)]
  BY <1>1 DEF Acts
<1>3. CASE c # call[k].on
  <2>1. case'[c] = case[c] /\ trail'[c] = trail[c] /\ job'[c] = job[c]
    BY <1>0, <1>1, <1>2, <1>3 DEF TypeOK, MakeJob
  <2> QED BY <1>0, <2>1 DEF Explains, JobFollows, AssignedTo, OfficersAre, StatusAfter, IsLast
<1>4. CASE c = call[k].on
  <2> DEFINE L == Len(trail[c])
  <2>1. case'[c] = row
    BY <1>0, <1>2, <1>4 DEF TypeOK
  <2>2. /\ L \in Nat /\ Len(trail'[c]) = L + 1
        /\ DOMAIN trail[c] = 1 .. L /\ DOMAIN trail'[c] = 1 .. L + 1
        /\ trail'[c][L + 1] = e
        /\ \A i \in 1 .. L : trail'[c][i] = trail[c][i]
    BY <1>0, <1>2, <1>4, TrailIs
  <2>3. L = 0 => case[c].officer = None /\ ~case[c].stamped
    <3>1. L = 0 => trail[c] = <<>>
      BY <1>0 DEF TypeOK
    <3> QED BY <1>0, <3>1 DEF Explains
  <2> HIDE DEF L
  <2>4. OfficersAre(c)'
    <3>1. e.type = "ASSIGNED" => e.officer \in Officers
      BY <1>1 DEF Offered, Resolved, Requested
    <3>2. ASSUME NEW i \in 1 .. L + 1, trail'[c][i].type = "ASSIGNED"
          PROVE  trail'[c][i].officer \in Officers
      <4>1. CASE i = L + 1
        BY <2>2, <3>1, <3>2, <4>1
      <4>2. CASE i \in 1 .. L
        <5>1. trail[c][i].type = "ASSIGNED" /\ trail'[c][i] = trail[c][i]
          BY <2>2, <3>2, <4>2
        <5> QED BY <1>0, <2>2, <4>2, <5>1 DEF OfficersAre
      <4> QED BY <2>2, <3>2, <4>1, <4>2
    <3> QED BY <2>2, <3>2 DEF OfficersAre
  <2>5. Explains(c)'
    <3>1. (case[c].status = StatusAfter(c, Len(trail[c])))'
      BY <1>1, <2>1, <2>2 DEF StatusAfter, StatusOf
    <3>2. \A i \in 1 .. L + 1 :
            IsLast(c, i, {"ASSIGNED"})' => case'[c].officer = trail'[c][i].officer
      <4>1. SUFFICES ASSUME NEW i \in 1 .. L + 1, IsLast(c, i, {"ASSIGNED"})'
                     PROVE  case'[c].officer = trail'[c][i].officer
        OBVIOUS
      <4>2. /\ trail'[c][i].type = "ASSIGNED"
            /\ \A j \in 1 .. L + 1 : trail'[c][j].type = "ASSIGNED" => j <= i
        BY <2>2, <4>1 DEF IsLast
      <4>3. CASE e.type = "ASSIGNED"
        <5>1. i = L + 1
          BY <2>2, <4>2, <4>3
        <5>2. row.officer = e.officer
          BY <1>1, <4>3 DEF Offered, Resolved, Requested
        <5> QED BY <2>1, <2>2, <5>1, <5>2
      <4>4. CASE e.type # "ASSIGNED"
        <5>1. i \in 1 .. L
          BY <2>2, <4>2, <4>4
        <5>2. IsLast(c, i, {"ASSIGNED"})
          BY <2>2, <4>2, <5>1 DEF IsLast
        <5>3. row.officer = case[c].officer
          BY <1>1, <1>4, <4>4
        <5> QED BY <1>0, <2>1, <2>2, <5>1, <5>2, <5>3 DEF Explains
      <4> QED BY <4>3, <4>4
    <3>3. \A i \in 1 .. L + 1 :
            IsLast(c, i, Offered)' => (case'[c].stamped <=> trail'[c][i].type \in Resolved)
      <4>1. SUFFICES ASSUME NEW i \in 1 .. L + 1, IsLast(c, i, Offered)'
                     PROVE  case'[c].stamped <=> trail'[c][i].type \in Resolved
        OBVIOUS
      <4>2. /\ trail'[c][i].type \in Offered
            /\ \A j \in 1 .. L + 1 : trail'[c][j].type \in Offered => j <= i
        BY <2>2, <4>1 DEF IsLast
      <4>3. CASE e.type \in Offered
        <5>1. i = L + 1
          BY <2>2, <4>2, <4>3
        <5>2. row.stamped <=> e.type \in Resolved
          BY <1>1, <4>3 DEF Offered, Resolved, Requested
        <5> QED BY <2>1, <2>2, <5>1, <5>2
      <4>4. CASE e.type \notin Offered
        <5>1. i \in 1 .. L
          BY <2>2, <4>2, <4>4
        <5>2. IsLast(c, i, Offered)
          BY <2>2, <4>2, <5>1 DEF IsLast
        <5>3. row.stamped = case[c].stamped
          BY <1>1, <1>4, <4>4
        <5>4. case[c].stamped <=> trail[c][i].type \in Resolved
          BY <1>0, <2>2, <5>1, <5>2 DEF Explains
        <5> QED BY <2>1, <2>2, <5>1, <5>3, <5>4
      <4> QED BY <4>3, <4>4
    <3>4. trail'[c] # <<>>
      BY <2>2
    <3> QED BY <2>2, <3>1, <3>2, <3>3, <3>4 DEF Explains
  <2>6. JobFollows(c)'
    <3> DEFINE After(i, o) == trail'[c][i].type = "ASSIGNED" /\ trail'[c][i].officer = o
    <3>1. \A o : \A i \in 1 .. L : AssignedTo(c, i, o) => After(i, o)
      BY <2>2 DEF AssignedTo
    <3>2. \A i \in 1 .. L : i \in 1 .. L + 1 /\ i < L + 1
      BY <2>2
    <3>3. SUFFICES
            /\ \/ job'[c] = case'[c].officer
               \/ \E i, j \in 1 .. L + 1 :
                     i < j /\ After(i, job'[c]) /\ After(j, case'[c].officer)
            /\ case'[c].officer # None => \E i \in 1 .. L + 1 : After(i, case'[c].officer)
      BY <2>2 DEF JobFollows, AssignedTo
    <3>4. CASE e.type # "ASSIGNED"
      <4>1. job'[c] = job[c] /\ case'[c].officer = case[c].officer
        BY <1>1, <1>4, <2>1, <3>4
      <4> HIDE DEF After
      <4> QED BY <1>0, <2>2, <3>1, <3>2, <4>1 DEF JobFollows
    <3>5. CASE e.type = "ASSIGNED"
      <4>1. /\ e.officer \in Officers /\ MakeJob(c, e.officer)
            /\ case'[c].officer = e.officer
        BY <1>1, <1>4, <2>1, <3>5 DEF Offered, Resolved, Requested
      <4>2. job'[c] = IF job[c] = None THEN e.officer ELSE job[c]
        BY <1>0, <4>1 DEF MakeJob, TypeOK
      <4>3. L + 1 \in 1 .. L + 1 /\ After(L + 1, e.officer)
        BY <2>2, <3>5
      <4> HIDE DEF After
      <4>4. CASE job[c] = None
        BY <4>1, <4>2, <4>3, <4>4
      <4>5. CASE job[c] # None
        <5>1. PICK i \in 1 .. L : AssignedTo(c, i, job[c])
          BY <1>0, <2>2, <4>5 DEF JobFollows
        <5>2. job'[c] = job[c] /\ i \in 1 .. L + 1 /\ i < L + 1 /\ After(i, job[c])
          BY <3>1, <3>2, <4>2, <4>5, <5>1
        <5> QED BY <4>1, <4>3, <5>2
      <4> QED BY <4>4, <4>5
    <3> QED BY <3>4, <3>5
  <2> QED BY <2>4, <2>5, <2>6
<1> QED BY <1>3, <1>4

LEMMA HistoryStep ==
  ASSUME Inv, [Next]_vars
  PROVE  OfficersOK' /\ TrailExplainsCase' /\ JobsFollow'
<1>1. ASSUME NEW k \in Calls, ActsOnStatus(k) \/ ActsOnOfficer(k) \/ ActsOnRequest(k)
      PROVE  \A c \in Cases : Explains(c)' /\ JobFollows(c)' /\ OfficersAre(c)'
  BY <1>1, ActsExplain
<1>2. ASSUME case' = case, trail' = trail, job' = job
      PROVE  \A c \in Cases : Explains(c)' /\ JobFollows(c)' /\ OfficersAre(c)'
  BY <1>2 DEF Inv, OfficersOK, TrailExplainsCase, JobsFollow,
              Explains, JobFollows, AssignedTo, OfficersAre, StatusAfter, IsLast
<1>3. \/ case' = case /\ trail' = trail /\ job' = job
      \/ \E k \in Calls : ActsOnStatus(k) \/ ActsOnOfficer(k) \/ ActsOnRequest(k)
  BY StepKinds DEF vars, Visit, Refetch, Cancel, Open, Submit, Decide,
                   UpdateCreditStatus, Rejects, Refuse, Fail, Hear, GiveUp
<1>4. \A c \in Cases : Explains(c)' /\ JobFollows(c)' /\ OfficersAre(c)'
  BY <1>1, <1>2, <1>3
<1> QED BY <1>4 DEF OfficersOK, TrailExplainsCase, JobsFollow, Explains, JobFollows, OfficersAre
-----------------------------------------------------------------------------
(* The theorems *)

LEMMA InvInit == Init => Inv
<1> SUFFICES ASSUME Init
             PROVE  Inv
  OBVIOUS
<1> USE GwlAssumption
<1>1. Pending = {} /\ CreditsPage \in Page
  <2>1. Pending = {}
    BY DEF Init, Pending
  <2> QED BY <2>1 DEF CreditsPage, Page, NoModal
<1>2. Unused \in Call
  BY DEF Unused, Call
<1>3. TypeOK
  BY <1>1, <1>2 DEF Init, TypeOK, Statuses
<1>4. ASSUME NEW k \in Calls
      PROVE  CallOK(k) /\ call[k].opening = None
  BY DEF Init, CallOK, Used, Unused, Ops
<1>5. ASSUME NEW s \in Staff
      PROVE  PageOK(s) /\ ModalOK(s)
  <2>1. page[s] = CreditsPage
    BY DEF Init
  <2>2. /\ page[s].on = None /\ page[s].modal = NoModal /\ page[s].modal.opening = None
        /\ page[s].listed = {}
    BY <1>1, <2>1 DEF CreditsPage, NoModal
  <2> QED BY <2>2 DEF PageOK, ModalOK
<1>6. RepeatsOK
  BY <1>4 DEF RepeatsOK
<1>7. OfficersOK /\ TrailExplainsCase /\ JobsFollow
  BY DEF Init, OfficersOK, TrailExplainsCase, JobsFollow, JobFollows, StatusAfter, IsLast
<1> QED BY <1>3, <1>4, <1>5, <1>6, <1>7 DEF Inv

LEMMA InvStep == Inv /\ [Next]_vars => Inv'
BY TypeStep, CallsStep, PagesStep, ModalsStep, RepeatsStep, HistoryStep DEF Inv

LEMMA InvHolds == Spec => []Inv
BY InvInit, InvStep, PTL DEF Spec

\* Every row, call and page stays within its type, in spite of a modal that
\* outlives what it was opened on.
THEOREM GwlTypes == Spec => []TypeOK
<1>1. Inv => TypeOK
  BY DEF Inv
<1> QED BY <1>1, InvHolds, PTL

\* However calls of several sessions mix, and whatever fails, gwl_case_actions
\* tells what anomaly_flags says of a case.
THEOREM TheTrailExplains == Spec => []TrailExplainsCase
<1>1. Inv => TrailExplainsCase
  BY DEF Inv
<1> QED BY <1>1, InvHolds, PTL

\* JobFollowsAssignment: the field job is for the officer the case names, unless
\* the case was assigned again, when ON CONFLICT DO NOTHING keeps the earlier job.
THEOREM JobsFollowAssignments == Spec => []JobFollowsAssignment
<1>1. Inv => JobFollowsAssignment
  BY DEF Inv, JobsFollow, JobFollows, JobFollowsAssignment
<1> QED BY <1>1, InvHolds, PTL

\* A button disabled while its call is under way, and a modal closed by success,
\* are enough for one effect of a modal, as long as no answer is lost.
THEOREM OneEffect == Spec => []OneEffectPerOpening
<1>1. Inv => OneEffectPerOpening
  <2> SUFFICES ASSUME Inv, NEW j \in Calls, NEW k \in Calls, j < k,
                      call[j].applied, call[k].applied, call[j].opening = call[k].opening
               PROVE  call[j].heard = "nothing"
    BY DEF OneEffectPerOpening
  <2>1. CallOK(j) /\ CallOK(k) /\ RepeatsOK
    BY DEF Inv
  <2>2. call[k].opening # None
    BY <2>1, GwlAssumption DEF CallOK, Used
  <2>3. Spent(j)
    BY <2>1, <2>2 DEF RepeatsOK
  <2> QED BY <2>3 DEF Spent
<1> QED BY <1>1, InvHolds, PTL

\* Only who had not been shown a resolution, or a verdict, undoes it.
THEOREM FinalWords == Spec => FinalWordsStand
<1>1. Inv /\ [Next]_vars =>
        [/\ \A c \in Cases :
              case[c].status \in Resolved /\ case'[c].status \notin Resolved =>
                \E k \in Calls : /\ TakesEffect(k) /\ call[k].on = c
                                 /\ StatusAfter(c, call[k].seen) \notin Resolved
         /\ \A r \in Calls :
              request[r] \in Verdicts /\ request'[r] # request[r] =>
                \E k \in Calls : TakesEffect(k) /\ call[k].on = r /\ call[k].seen = 0]_vars
  <2> SUFFICES ASSUME Inv, [Next]_vars
               PROVE  /\ \A c \in Cases :
                           case[c].status \in Resolved /\ case'[c].status \notin Resolved =>
                             \E k \in Calls : /\ TakesEffect(k) /\ call[k].on = c
                                              /\ StatusAfter(c, call[k].seen) \notin Resolved
                      /\ \A r \in Calls :
                           request[r] \in Verdicts /\ request'[r] # request[r] =>
                             \E k \in Calls : TakesEffect(k) /\ call[k].on = r /\ call[k].seen = 0
    OBVIOUS
  <2>0. TypeOK /\ \A k \in Calls : CallOK(k)
    BY DEF Inv
  <2>1. ASSUME NEW k \in Calls, call[k].stage = "sent", call' = Answered(k, TRUE, TRUE)
        PROVE  TakesEffect(k)
    BY <2>0, <2>1, AnsweredIs DEF TakesEffect, CallOK
  <2>2. ASSUME NEW c \in Cases, case[c].status \in Resolved, case'[c].status \notin Resolved
        PROVE  \E k \in Calls : /\ TakesEffect(k) /\ call[k].on = c
                                /\ StatusAfter(c, call[k].seen) \notin Resolved
    <3>1. case' # case
      BY <2>2
    <3>2. PICK k \in Calls : ActsOnStatus(k) \/ ActsOnOfficer(k) \/ ActsOnRequest(k)
      BY <3>1, StepKinds DEF vars, Visit, Refetch, Cancel, Open, Submit, Decide,
                             UpdateCreditStatus, Rejects, Refuse, Fail, Hear, GiveUp
    <3>3. PICK e \in Entry, row \in Row : Acts(k, e, row) /\ call[k].on \in Cases
      BY <3>2, ActsIs
    <3>4. call[k].on = c
      BY <2>0, <2>2, <3>3 DEF Acts, TypeOK
    <3>5. TakesEffect(k) /\ call[k].op \in Ops
      BY <2>1, <3>3 DEF Acts
    <3> QED BY <2>0, <3>4, <3>5 DEF CallOK
  <2>3. ASSUME NEW r \in Calls, request[r] \in Verdicts, request'[r] # request[r]
        PROVE  \E k \in Calls : TakesEffect(k) /\ call[k].on = r /\ call[k].seen = 0
    <3>1. request' # request
      BY <2>3
    <3>2. PICK k \in Calls : \/ ActsOnStatus(k) \/ ActsOnOfficer(k) \/ ActsOnRequest(k)
                             \/ UpdateCreditStatus(k)
      BY <3>1, StepKinds DEF vars, Visit, Refetch, Cancel, Open, Submit, Decide,
                             Rejects, Refuse, Fail, Hear, GiveUp
    <3>3. CASE ActsOnStatus(k) \/ ActsOnOfficer(k) \/ ActsOnRequest(k)
      <4>1. /\ call[k].stage = "sent"
            /\ request' = request \/ request' = [request EXCEPT ![k] = "PENDING"]
        BY <3>3 DEF ActsOnStatus, ActsOnOfficer, ActsOnRequest, Acts
      <4>2. r # k
        BY <2>0, <2>3, <4>1 DEF CallOK, Verdicts
      <4> QED BY <2>0, <2>3, <4>1, <4>2 DEF TypeOK
    <3>4. CASE UpdateCreditStatus(k)
      <4>1. /\ call[k].stage = "sent" /\ call[k].op = "verdict"
            /\ call' = Answered(k, TRUE, TRUE)
            /\ request' = [request EXCEPT ![call[k].on] = call[k].arg]
        BY <3>4 DEF UpdateCreditStatus, Running
      <4>2. call[k].on = r
        BY <2>0, <2>3, <4>1 DEF TypeOK
      <4> QED BY <2>0, <2>1, <4>1, <4>2 DEF CallOK
    <3> QED BY <3>2, <3>3, <3>4
  <2> QED BY <2>2, <2>3
<1> QED BY <1>1, InvHolds, PTL DEF Spec, FinalWordsStand
-----------------------------------------------------------------------------
(***************************************************************************)
(* The trail is complete: each transaction that took effect on a case wrote*)
(* one entry of it, and there is no entry but of such a one.               *)
(***************************************************************************)

\* The calls that took effect on a case
Effects(c) == {k \in Calls : call[k].applied /\ call[k].on = c /\ call[k].op \in Ops}

\* Calls that are of the same case, kind and effect as before
LEMMA SameEffects ==
  ASSUME NEW c \in Cases,
         \A j \in Calls : (call'[j].applied /\ call'[j].on = c /\ call'[j].op \in Ops)
                          <=> (call[j].applied /\ call[j].on = c /\ call[j].op \in Ops)
  PROVE  Effects(c)' = Effects(c)
BY DEF Effects, Ops

\* A step adds an entry to the trail of a case together with the one call that it
\* lets take effect, or neither.
LEMMA EffectsMove ==
  ASSUME Inv, [Next]_vars, NEW c \in Cases
  PROVE  \/ Effects(c)' = Effects(c) /\ trail'[c] = trail[c]
         \/ \E k \in Calls : /\ k \notin Effects(c)
                             /\ Effects(c)' = Effects(c) \cup {k}
                             /\ Len(trail'[c]) = Len(trail[c]) + 1
<1>0. TypeOK /\ \A k \in Calls : CallOK(k)
  BY DEF Inv
<1>1. ASSUME call' = call, trail' = trail
      PROVE  Effects(c)' = Effects(c) /\ trail'[c] = trail[c]
  BY <1>1, SameEffects
<1>2. ASSUME NEW k \in Calls, ActsOnStatus(k) \/ ActsOnOfficer(k) \/ ActsOnRequest(k)
      PROVE  \/ Effects(c)' = Effects(c) /\ trail'[c] = trail[c]
             \/ /\ k \notin Effects(c)
                /\ Effects(c)' = Effects(c) \cup {k}
                /\ Len(trail'[c]) = Len(trail[c]) + 1
  <2>1. PICK e \in Entry, row \in Row : Acts(k, e, row) /\ call[k].on \in Cases
    BY <1>2, ActsIs
  <2>2. /\ call[k].stage = "sent" /\ call[k].op \in Ops
        /\ call' = Answered(k, TRUE, TRUE)
        /\ trail' = [trail EXCEPT ![call[k].on] = Append(@, e)]
    BY <2>1 DEF Acts
  <2>3. /\ \A j \in Calls : j # k => call'[j] = call[j]
        /\ call'[k].applied /\ call'[k].on = call[k].on /\ call'[k].op = call[k].op
    BY <1>0, <2>2, AnsweredIs
  <2>4. ~call[k].applied
    BY <1>0, <2>2 DEF CallOK
  <2>5. CASE call[k].on = c
    <3>1. k \notin Effects(c) /\ Effects(c)' = Effects(c) \cup {k}
      BY <2>2, <2>3, <2>4, <2>5 DEF Effects, Ops
    <3>2. Len(trail'[c]) = Len(trail[c]) + 1
      BY <1>0, <2>1, <2>2, <2>5, TrailIs
    <3> QED BY <3>1, <3>2
  <2>6. CASE call[k].on # c
    <3>1. Effects(c)' = Effects(c)
      BY <2>3, <2>6, SameEffects
    <3>2. trail'[c] = trail[c]
      BY <1>0, <2>1, <2>2, <2>6, TrailIs
    <3> QED BY <3>1, <3>2
  <2> QED BY <2>5, <2>6
<1>3. ASSUME NEW k \in Calls, UpdateCreditStatus(k) \/ Rejects(k)
      PROVE  Effects(c)' = Effects(c) /\ trail'[c] = trail[c]
  <2>1. /\ call[k].stage = "sent" /\ trail' = trail
        /\ \E applied \in BOOLEAN, ok \in BOOLEAN :
             /\ call' = Answered(k, applied, ok)
             /\ applied => call[k].op = "verdict"
    BY <1>3, RejectsIs DEF UpdateCreditStatus, Running
  <2>2. PICK applied \in BOOLEAN, ok \in BOOLEAN :
          call' = Answered(k, applied, ok) /\ (applied => call[k].op = "verdict")
    BY <2>1
  <2>3. /\ \A j \in Calls : j # k => call'[j] = call[j]
        /\ call'[k].applied = applied /\ call'[k].on = call[k].on
        /\ call'[k].op = call[k].op
    BY <1>0, <2>2, AnsweredIs
  <2>4. ~call[k].applied
    BY <1>0, <2>1 DEF CallOK
  <2>5. call'[k].applied => call'[k].op \notin Ops
    BY <2>2, <2>3 DEF Ops
  <2> QED BY <2>1, <2>3, <2>4, <2>5, SameEffects
<1>4. ASSUME NEW s \in Staff, NEW k \in Calls, NEW r \in Calls, Submit(s, k) \/ Decide(s, k, r)
      PROVE  Effects(c)' = Effects(c) /\ trail'[c] = trail[c]
  <2>1. CASE Submit(s, k)
    <3>1. /\ IsNext(k) /\ trail' = trail
          /\ \A j \in Calls : j # k => call'[j] = call[j]
      BY <2>1, SubmitIs
    <3>2. ~call'[k].applied
      BY <2>1, SubmitIs DEF SentAs
    <3>3. ~call[k].applied
      BY <1>0, <3>1, GwlAssumption DEF IsNext, CallOK, Used
    <3> QED BY <3>1, <3>2, <3>3, SameEffects
  <2>2. CASE Decide(s, k, r)
    <3>1. /\ IsNext(k) /\ trail' = trail
          /\ \A j \in Calls : j # k => call'[j] = call[j]
      BY <2>2, DecideIs
    <3>2. ~call'[k].applied
      BY <2>2, DecideIs DEF SentAs
    <3>3. ~call[k].applied
      BY <1>0, <3>1, GwlAssumption DEF IsNext, CallOK, Used
    <3> QED BY <3>1, <3>2, <3>3, SameEffects
  <2> QED BY <1>4, <2>1, <2>2
<1>5. ASSUME NEW k \in Calls, Hear(k) \/ GiveUp(k)
      PROVE  Effects(c)' = Effects(c) /\ trail'[c] = trail[c]
  <2>1. PICK how : Heard(k, how)
    BY <1>5, HearIs
  <2>2. trail' = trail
    BY <2>1 DEF Heard
  <2>3. \A j \in Calls : /\ call'[j].op = call[j].op /\ call'[j].on = call[j].on
                         /\ call'[j].applied = call[j].applied
    BY <1>0, <2>1, HeardIs
  <2> QED BY <2>2, <2>3, SameEffects
<1>6. \/ call' = call /\ trail' = trail
      \/ \E s \in Staff, k, r \in Calls : Submit(s, k) \/ Decide(s, k, r)
      \/ \E k \in Calls : ActsOnStatus(k) \/ ActsOnOfficer(k) \/ ActsOnRequest(k)
      \/ \E k \in Calls : UpdateCreditStatus(k) \/ Rejects(k)
      \/ \E k \in Calls : Hear(k) \/ GiveUp(k)
  BY StepKinds DEF vars, Visit, Refetch, Cancel, Open
<1> QED BY <1>1, <1>2, <1>3, <1>4, <1>5, <1>6

EffectsCounted ==
    \A c \in Cases : /\ IsFiniteSet(Effects(c))
                     /\ Len(trail[c]) = Cardinality(Effects(c))

\* Each transaction is whole: a case has as many entries in gwl_case_actions as
\* calls took effect on it.  No failure, no lost answer and no second session
\* leaves a change that is not logged, or an entry for what was rolled back.
THEOREM TheTrailIsComplete == Spec => []EffectsCounted
<1>1. Init => EffectsCounted
  <2> SUFFICES ASSUME Init, NEW c \in Cases
               PROVE  IsFiniteSet(Effects(c)) /\ Len(trail[c]) = Cardinality(Effects(c))
    BY DEF EffectsCounted
  <2>1. Effects(c) = {} /\ trail[c] = <<>>
    BY DEF Init, Effects, Unused
  <2> QED BY <2>1, FS_EmptySet
<1>2. Inv /\ EffectsCounted /\ [Next]_vars => EffectsCounted'
  <2> SUFFICES ASSUME Inv, EffectsCounted, [Next]_vars, NEW c \in Cases
               PROVE  /\ IsFiniteSet(Effects(c)')
                      /\ Len(trail'[c]) = Cardinality(Effects(c)')
    BY DEF EffectsCounted
  <2>1. IsFiniteSet(Effects(c)) /\ Len(trail[c]) = Cardinality(Effects(c))
    BY DEF EffectsCounted
  <2>2. CASE Effects(c)' = Effects(c) /\ trail'[c] = trail[c]
    BY <2>1, <2>2
  <2>3. ASSUME NEW k \in Calls, k \notin Effects(c), Effects(c)' = Effects(c) \cup {k},
               Len(trail'[c]) = Len(trail[c]) + 1
        PROVE  /\ IsFiniteSet(Effects(c)')
               /\ Len(trail'[c]) = Cardinality(Effects(c)')
    <3>1. /\ IsFiniteSet(Effects(c) \cup {k})
          /\ Cardinality(Effects(c) \cup {k}) = Cardinality(Effects(c)) + 1
      BY <2>1, <2>3, FS_AddElement
    <3> QED BY <2>1, <2>3, <3>1
  <2> QED BY <2>2, <2>3, EffectsMove
<1> QED BY <1>1, <1>2, InvHolds, PTL DEF Spec

\* What staff are told failed has not happened, and no request was filed for it:
\* to try again after an error is never to do a thing twice.  It is the answers
\* that are lost, and those that say a commit that failed was well, that mislead.
THEOREM FailuresChangeNothing ==
  Spec => [](\A k \in Calls : call[k].heard = "failed" =>
               /\ ~call[k].applied /\ request[k] = "none"
               /\ \A c \in Cases : k \notin Effects(c))
<1>1. Inv => \A k \in Calls : call[k].heard = "failed" =>
               /\ ~call[k].applied /\ request[k] = "none"
               /\ \A c \in Cases : k \notin Effects(c)
  BY DEF Inv, CallOK, Effects
<1> QED BY <1>1, InvHolds, PTL
=============================================================================
