--------------------------- MODULE OfflineProofs ---------------------------
(***************************************************************************)
(* Proofs about OfflineSync, for any entries and jobs, any number of       *)
(* overlapping passes, any number of kills and any lost calls and answers. *)
(***************************************************************************)
EXTENDS OfflineSync, FiniteSetTheorems, TLAPS

\* The passes that have sent the row of item i and not finished with it, and
\* those that have read the row and not sent it.
Holding(i) == {s \in Passes : pass[s].hand = i}
Waiting(i) == {s \in Passes : i \in pass[s].todo}

\* The server has run the request of item i.
Taken(i) == served[i] > 0
ShownTaken == \A i \in Items : screen[i] = "shown" =>
                                 row[i].status = "PENDING" \/ Taken(i)
DoneTaken  == \A i \in Items : row[i].status = "DONE" => Taken(i)

\* What a pass holds: a row it read is in the table; an answer means the server
\* has run the request; what is marked is a submission, and done.
PassOK(s) ==
    /\ \A i \in pass[s].todo : row[i].status # "NONE"
    /\ pass[s].hand # NoItem => row[pass[s].hand].status # "NONE"
    /\ pass[s].hand \notin pass[s].todo
    /\ pass[s].sent = "no" <=> pass[s].hand = NoItem
    /\ pass[s].sent \in {"answered", "marked"} =>
           Taken(pass[s].hand) /\ KindOf[pass[s].hand] # "outcome"
    /\ pass[s].sent = "marked" => /\ KindOf[pass[s].hand] = "submission"
                                  /\ row[pass[s].hand].status = "DONE"
PassInv == \A s \in Passes : PassOK(s)

\* What a screen knows: its row is written once, after its one call.
ScreenOK(i) ==
    /\ screen[i] = "new" => served[i] = 0
    /\ screen[i] \in {"new", "answered", "failed", "offline"} =>
           row[i].status = "NONE"
    /\ screen[i] = "answered" => Taken(i)
    /\ screen[i] = "offline" => KindOf[i] = "submission"
    /\ screen[i] = "queued" => /\ row[i].status # "NONE"
                               /\ KindOf[i] # "report"
ScreenInv == \A i \in Items : ScreenOK(i)

\* The statuses on their way to the device are backed too.
StatusOK(j) ==
    /\ local[j] = "COMPLETED" => Entered("submission", j)
    /\ local[j] = "OUTCOME_RECORDED" => Entered("outcome", j)
    /\ job[j] = "OUTCOME_RECORDED" => Entered("outcome", j)
    /\ cache.snap[j] = "OUTCOME_RECORDED" => Entered("outcome", j)
    /\ cache.snap[j] # "COMPLETED"
StatusInv == \A j \in Jobs : StatusOK(j)

\* A row is open while a pass may still read it.  While it is pending, each of
\* its requests is the screen's, one that was counted, one that is in a
\* pass's hands, or one a kill made a pass forget.  Once it is closed only the
\* passes that wait to send it may add to them.
Closed(i) == row[i].status = "DONE" \/ row[i].retry >= MaxRetries
CountOf(i) ==
    /\ row[i].status = "NONE" => served[i] <= 1 /\ ~Closed(i)
    /\ row[i].status = "PENDING" =>
           served[i] <= 1 + row[i].retry + Cardinality(Holding(i))
                           + Cardinality(Passes) * kills
    /\ Closed(i) => served[i] + Cardinality(Waiting(i)) <= ServeBound
CountInv == \A i \in Items : KindOf[i] # "report" => CountOf(i)

OfflineInv ==
    /\ TypeOK /\ PassInv /\ ScreenInv /\ DoneTaken /\ ShownTaken
    /\ StatusInv /\ CountInv
-----------------------------------------------------------------------------
(* The server's side of a call. *)

LEMMA Products ==
  ASSUME NEW m \in Nat, NEW n \in Nat
  PROVE  m * n \in Nat /\ m * (n + 1) = m * n + m /\ m * (1 + n) = m * n + m
OBVIOUS

LEMMA BoundIsNat ==
  ASSUME TypeOK
  PROVE  ServeBound \in Nat /\ Cardinality(Passes) * kills \in Nat
<1>1. Cardinality(Passes) \in Nat
  BY OfflineAssumption, FS_CardinalityType
<1>2. kills \in Nat
  BY DEF TypeOK
<1>3. MaxRetries \in Nat
  BY OfflineAssumption
<1> QED BY <1>1, <1>2, <1>3, Products DEF ServeBound

\* A request is counted, once unless it is a report's.
LEMMA BumpCounts ==
  ASSUME TypeOK, NEW i \in Items
  PROVE  /\ Bump(i) \in Nat
         /\ Bump(i) >= served[i] /\ Bump(i) > 0
         /\ KindOf[i] # "report" => Bump(i) = served[i] + 1
BY OfflineAssumption DEF Bump, TypeOK

\* What a call does to the server's state, and what an answer says of it.
LEMMA CallEffect ==
  ASSUME TypeOK, NEW i \in Items, NEW answered \in BOOLEAN, Call(i, answered)
  PROVE  /\ job' \in [Jobs -> JobStatuses]
         /\ served' \in [Items -> Nat]
         /\ \A k \in Items : served'[k] >= served[k]
         /\ \A k \in Items : k # i => served'[k] = served[k]
         /\ KindOf[i] # "report" => served'[i] <= served[i] + 1
         /\ answered => Taken(i)' /\ KindOf[i] # "outcome"
         /\ \A j \in Jobs : job'[j] = "OUTCOME_RECORDED" =>
              \/ job[j] = "OUTCOME_RECORDED"
              \/ KindOf[i] = "outcome" /\ JobOf[i] = j /\ served'[i] > 0
<1> USE OfflineAssumption
<1>1. CASE UNCHANGED <<job, served>> /\ ~answered
  BY <1>1 DEF TypeOK
<1>2. ASSUME Serve(i)
      PROVE  /\ job' \in [Jobs -> JobStatuses]
             /\ served' \in [Items -> Nat]
             /\ \A k \in Items : served'[k] >= served[k]
             /\ \A k \in Items : k # i => served'[k] = served[k]
             /\ KindOf[i] # "report" => served'[i] <= served[i] + 1
             /\ served'[i] > 0
             /\ \A j \in Jobs : job'[j] = "OUTCOME_RECORDED" =>
                  \/ job[j] = "OUTCOME_RECORDED"
                  \/ KindOf[i] = "outcome" /\ JobOf[i] = j /\ served'[i] > 0
  <2>1. JobOf[i] \in Jobs /\ KindOf[i] \in Kinds
    OBVIOUS
  <2>2. JobAfter(i, job[JobOf[i]]) \in JobStatuses
    <3>1. job[JobOf[i]] \in JobStatuses
      BY <2>1 DEF TypeOK
    <3>2. CASE KindOf[i] = "submission"
      BY <3>1, <3>2 DEF JobAfter, JobStatuses
    <3>3. CASE KindOf[i] = "outcome"
      BY <3>1, <3>3 DEF JobAfter, JobStatuses
    <3>4. CASE KindOf[i] = "report"
      BY <3>1, <3>4 DEF JobAfter, JobStatuses
    <3> QED BY <2>1, <3>2, <3>3, <3>4 DEF Kinds
  <2>3. /\ job' \in [Jobs -> JobStatuses]
        /\ \A j \in Jobs : j # JobOf[i] => job'[j] = job[j]
        /\ job'[JobOf[i]] \in {job[JobOf[i]], JobAfter(i, job[JobOf[i]])}
    BY <1>2, <2>1, <2>2 DEF Serve, TypeOK
  <2>4. /\ served' \in [Items -> Nat]
        /\ served'[i] = Bump(i)
        /\ \A k \in Items : k # i => served'[k] = served[k]
    BY <1>2, BumpCounts DEF Serve, TypeOK
  <2>5. \A k \in Items : served[k] \in Nat
    BY DEF TypeOK
  <2>6. JobAfter(i, job[JobOf[i]]) = "OUTCOME_RECORDED" =>
          job[JobOf[i]] = "OUTCOME_RECORDED" \/ KindOf[i] = "outcome"
    BY <2>1 DEF JobAfter, TypeOK, Kinds
  <2>7. served'[i] > 0
    BY <2>4, BumpCounts
  <2>8. \A k \in Items : served'[k] >= served[k]
    BY <2>4, <2>5, BumpCounts
  <2>9. KindOf[i] # "report" => served'[i] <= served[i] + 1
    BY <2>4, <2>5, BumpCounts
  <2> QED BY <2>3, <2>4, <2>6, <2>7, <2>8, <2>9
<1>3. answered => Serve(i) /\ KindOf[i] # "outcome"
  BY DEF Call, AnswerParses
<1> QED BY <1>1, <1>2, <1>3 DEF Call, Taken
-----------------------------------------------------------------------------
(* Types. *)

LEMMA QueuedType ==
  ASSUME NEW kind
  PROVE  Pending(kind) \in SUBSET Items /\ Cardinality(Queued(kind)) \in Nat
<1>1. Queued(kind) \in SUBSET Items
  BY DEF Queued
<1>2. IsFiniteSet(Queued(kind))
  BY <1>1, OfflineAssumption, FS_Subset
<1> QED BY <1>1, <1>2, FS_CardinalityType DEF Pending

LEMMA EnterType ==
  ASSUME TypeOK, NEW s \in Passes, NEW kind \in Kinds, Enter(s, kind)
  PROVE  pass' \in [Passes -> Pass]
<1>1. PICK todo \in {Pending(kind), {}} :
        pass' = [pass EXCEPT ![s] = [stage |-> kind, todo |-> todo,
                                     hand |-> NoItem, sent |-> "no"]]
  BY DEF Enter
<1>2. todo \in SUBSET Items
  BY QueuedType
<1>3. [stage |-> kind, todo |-> todo, hand |-> NoItem, sent |-> "no"] \in Pass
  BY <1>2 DEF Pass
<1> QED BY <1>1, <1>3 DEF TypeOK

LEMMA TypeStep == TypeOK /\ [Next]_vars => TypeOK'
<1> SUFFICES ASSUME TypeOK, [Next]_vars
             PROVE  TypeOK'
  OBVIOUS
<1> USE OfflineAssumption
<1>1. ASSUME NEW i \in Items, ScreenCalls(i)
      PROVE  TypeOK'
  <2>1. screen' \in [Items -> {"new", "answered", "failed", "offline", "queued",
                               "shown", "gone"}]
    BY <1>1 DEF ScreenCalls, TypeOK
  <2>2. /\ job' \in [Jobs -> JobStatuses]
        /\ served' \in [Items -> Nat]
    BY <1>1, CallEffect DEF ScreenCalls, TypeOK
  <2> QED BY <1>1, <2>1, <2>2 DEF ScreenCalls, TypeOK
<1>2. ASSUME NEW i \in Items, ScreenQueues(i)
      PROVE  TypeOK'
  <2>1. [status |-> "PENDING", retry |-> 0,
         place |-> Cardinality(Queued(KindOf[i]))] \in Row
    BY QueuedType DEF Row
  <2>2. row' \in [Items -> Row]
    BY <1>2, <2>1 DEF ScreenQueues, TypeOK
  <2>3. screen' \in [Items -> {"new", "answered", "failed", "offline", "queued",
                               "shown", "gone"}]
    BY <1>2 DEF ScreenQueues, TypeOK
  <2> QED BY <1>2, <2>2, <2>3 DEF ScreenQueues, TypeOK
<1>3. ASSUME NEW i \in Items, ScreenUpdatesLocally(i)
      PROVE  TypeOK'
  BY <1>3 DEF ScreenUpdatesLocally, TypeOK, JobStatuses
<1>4. ASSUME NEW i \in Items, ScreenConfirms(i)
      PROVE  TypeOK'
  BY <1>4 DEF ScreenConfirms, TypeOK
<1>5. ASSUME NEW s \in Passes, StartSync(s)
      PROVE  TypeOK'
  <2>1. pass' \in [Passes -> Pass]
    BY <1>5, EnterType DEF StartSync, Kinds
  <2> QED BY <1>5, <2>1 DEF StartSync, TypeOK, device
<1>6. ASSUME NEW s \in Passes, NextTable(s)
      PROVE  TypeOK'
  <2>1. Asleep \in Pass
    BY DEF Asleep, Pass
  <2>2. pass[s].stage \in Kinds
    BY <1>6 DEF NextTable, TypeOK, Pass
  <2>3. NextStage(pass[s].stage) \in Kinds \cup {"idle"}
    BY <2>2 DEF NextStage, Kinds
  <2>4. pass' \in [Passes -> Pass]
    BY <1>6, <2>1, <2>3, EnterType DEF NextTable, TypeOK
  <2> QED BY <1>6, <2>4 DEF NextTable, TypeOK, device
<1>7. ASSUME NEW s \in Passes, Send(s)
      PROVE  TypeOK'
  <2>1. PICK i \in pass[s].todo, answered \in BOOLEAN :
          /\ Call(i, answered)
          /\ pass' = [pass EXCEPT ![s] = InHand(@, i, answered)]
    BY <1>7 DEF Send
  <2>2. i \in Items
    BY <2>1 DEF TypeOK, Pass
  <2>3. pass' \in [Passes -> Pass]
    <3>1. pass[s] \in Pass
      BY DEF TypeOK
    <3>2. InHand(pass[s], i, answered) \in Pass
      BY <2>2, <3>1 DEF Pass, InHand
    <3> QED BY <2>1, <3>2 DEF TypeOK
  <2>4. /\ job' \in [Jobs -> JobStatuses]
        /\ served' \in [Items -> Nat]
    BY <2>1, <2>2, CallEffect
  <2> QED BY <1>7, <2>3, <2>4 DEF Send, TypeOK, device
<1>8. ASSUME NEW s \in Passes, MarkDone(s)
      PROVE  TypeOK'
  <2>1. row' \in [Items -> Row]
    <3> DEFINE i == pass[s].hand
    <3>1. row' = [row EXCEPT ![i].status = "DONE"]
      BY <1>8 DEF MarkDone
    <3>2. row \in [Items -> Row]
      BY DEF TypeOK
    <3> HIDE DEF i
    <3> QED BY <3>1, <3>2 DEF Row
  <2>2. [pass[s] EXCEPT !.sent = "marked"] \in Pass
    BY DEF TypeOK, Pass
  <2>3. pass' \in [Passes -> Pass]
    BY <1>8, <2>2 DEF MarkDone, TypeOK
  <2> QED BY <1>8, <2>1, <2>3 DEF MarkDone, TypeOK
<1>9. ASSUME NEW s \in Passes, pass' = [pass EXCEPT ![s] = Advance(@)]
      PROVE  pass' \in [Passes -> Pass]
  <2>1. pass[s] \in Pass
    BY DEF TypeOK
  <2>2. Advance(pass[s]) \in Pass
    BY <2>1 DEF Advance, Pass
  <2> QED BY <1>9, <2>2 DEF TypeOK
<1>10. ASSUME NEW s \in Passes, UpdateLocally(s)
       PROVE  TypeOK'
  BY <1>9, <1>10 DEF UpdateLocally, TypeOK, JobStatuses
<1>11. ASSUME NEW s \in Passes, MarkFailed(s)
       PROVE  TypeOK'
  <2>1. row' \in [Items -> Row]
    <3> DEFINE i == pass[s].hand
    <3>1. row' = [row EXCEPT ![i].retry = @ + 1]
      BY <1>11 DEF MarkFailed
    <3>2. CASE i \in Items
      <4>1. row[i] \in Row
        BY <3>2 DEF TypeOK
      <4>2. [row[i] EXCEPT !.retry = @ + 1] \in Row
        BY <4>1 DEF Row
      <4> HIDE DEF i
      <4> QED BY <3>1, <4>2 DEF TypeOK
    <3>3. CASE i \notin Items
      BY <3>1, <3>3 DEF TypeOK
    <3> QED BY <3>2, <3>3
  <2> QED BY <1>9, <1>11, <2>1 DEF MarkFailed, TypeOK
<1>12. ASSUME NEW s \in Passes, MarkThrows(s)
       PROVE  TypeOK'
  BY <1>12 DEF MarkThrows, TypeOK, Asleep, Pass, device
<1>13. CASE RefreshFetch
  BY <1>13 DEF RefreshFetch, TypeOK
<1>14. CASE RefreshCheck
  <2> DEFINE keep == {JobOf[i] : i \in {n \in Items : KindOf[n] = "submission"
                                                /\ row[n].status = "PENDING"}}
  <2>1. keep \in SUBSET Jobs
    OBVIOUS
  <2>2. cache' = [cache EXCEPT !.at = "checked", !.keep = keep]
    BY <1>14 DEF RefreshCheck
  <2> HIDE DEF keep
  <2> QED BY <1>14, <2>1, <2>2 DEF RefreshCheck, TypeOK
<1>15. CASE RefreshCommit
  BY <1>15 DEF RefreshCommit, TypeOK, NoRefresh
<1>16. CASE Kill
  BY <1>16 DEF Kill, TypeOK, NoRefresh, Asleep, Pass
<1>17. CASE UNCHANGED vars
  BY <1>17 DEF vars, TypeOK
<1> QED
  BY <1>1, <1>2, <1>3, <1>4, <1>5, <1>6, <1>7, <1>8, <1>10, <1>11, <1>12, <1>13,
     <1>14, <1>15, <1>16, <1>17
  DEF Next, ScreenStep, PassStep, Refresh
-----------------------------------------------------------------------------
(* What never goes back: a row that was queued, a row that is done, and the *)
(* requests the server has counted.                                         *)

LEMMA Grows ==
  ASSUME TypeOK, ScreenInv, [Next]_vars, NEW i \in Items
  PROVE  /\ served'[i] >= served[i]
         /\ row[i].status # "NONE" => row'[i].status # "NONE"
         /\ row[i].status = "DONE" => row'[i].status = "DONE"
<1>1. /\ served[i] \in Nat
      /\ row \in [Items -> Row]
  BY DEF TypeOK
<1>2. ASSUME NEW k \in Items, ScreenCalls(k)
      PROVE  served'[i] >= served[i] /\ row' = row
  BY <1>1, <1>2, CallEffect DEF ScreenCalls
<1>3. ASSUME NEW k \in Items, ScreenQueues(k)
      PROVE  /\ served' = served
             /\ i # k => row'[i] = row[i]
             /\ row[k].status = "NONE"
             /\ row'[k].status = "PENDING"
  BY <1>1, <1>3 DEF ScreenQueues, ScreenInv, ScreenOK
<1>4. ASSUME NEW s \in Passes, Send(s)
      PROVE  served'[i] >= served[i] /\ row' = row
  <2>1. PICK k \in pass[s].todo, answered \in BOOLEAN : Call(k, answered)
    BY <1>4 DEF Send
  <2>2. k \in Items
    BY DEF TypeOK, Pass
  <2> QED BY <1>4, <2>1, <2>2, CallEffect DEF Send, device
<1>5. ASSUME NEW s \in Passes, MarkDone(s) \/ MarkFailed(s)
      PROVE  /\ served' = served
             /\ row'[i].status \in {row[i].status, "DONE"}
  <2>1. CASE MarkDone(s)
    BY <1>1, <2>1 DEF MarkDone, Row
  <2>2. CASE MarkFailed(s)
    BY <1>1, <2>2 DEF MarkFailed, Row
  <2> QED BY <1>5, <2>1, <2>2
<1>6. CASE \/ \E k \in Items : ScreenUpdatesLocally(k) \/ ScreenConfirms(k)
           \/ \E s \in Passes : \/ StartSync(s) \/ NextTable(s)
                                \/ UpdateLocally(s) \/ MarkThrows(s)
           \/ Refresh \/ Kill \/ UNCHANGED vars
  <2>1. UNCHANGED <<row, served>>
    BY <1>6 DEF ScreenUpdatesLocally, ScreenConfirms, StartSync, NextTable,
                UpdateLocally, MarkThrows, Refresh, RefreshFetch, RefreshCheck,
                RefreshCommit, Kill, vars, device
  <2> QED BY <1>1, <2>1
<1> QED
  BY <1>1, <1>2, <1>3, <1>4, <1>5, <1>6 DEF Next, ScreenStep, PassStep

LEMMA TakenStays ==
  ASSUME TypeOK, ScreenInv, [Next]_vars, NEW i \in Items, Taken(i)
  PROVE  Taken(i)'
<1>1. served[i] \in Nat /\ served'[i] \in Nat
  BY TypeStep DEF TypeOK
<1> QED BY <1>1, Grows DEF Taken

LEMMA EnteredStays ==
  ASSUME TypeOK, ScreenInv, [Next]_vars, NEW kind, NEW j, Entered(kind, j)
  PROVE  Entered(kind, j)'
<1>1. PICK i \in Items : /\ KindOf[i] = kind /\ JobOf[i] = j
                         /\ row[i].status # "NONE" \/ served[i] > 0
  BY DEF Entered
<1>2. served[i] \in Nat /\ served'[i] \in Nat
  BY TypeStep DEF TypeOK
<1>3. row'[i].status # "NONE" \/ served'[i] > 0
  BY <1>1, <1>2, Grows
<1> QED BY <1>1, <1>3 DEF Entered
-----------------------------------------------------------------------------
(* What the passes hold. *)

\* A pass that does not move keeps what it holds.
LEMMA PassKept ==
  ASSUME TypeOK, PassInv, ScreenInv, [Next]_vars, NEW s \in Passes,
         pass'[s] = pass[s]
  PROVE  PassOK(s)'
<1>1. pass[s].todo \in SUBSET Items /\ pass[s].hand \in Items \cup {NoItem}
  BY DEF TypeOK, Pass
<1>2. PassOK(s)
  BY DEF PassInv
<1>3. \A i \in Items : row[i].status # "NONE" => row'[i].status # "NONE"
  BY Grows
<1>4. \A i \in Items : row[i].status = "DONE" => row'[i].status = "DONE"
  BY Grows
<1>5. \A i \in Items : Taken(i) => Taken(i)'
  BY TakenStays
<1>6. pass[s].hand # NoItem => pass[s].hand \in Items
  BY <1>1
<1>7. Taken(pass[s].hand) /\ pass[s].hand # NoItem => Taken(pass[s].hand)'
  BY <1>5, <1>6 DEF Taken
<1>8. /\ \A i \in pass[s].todo : row'[i].status # "NONE"
      /\ pass[s].hand # NoItem => row'[pass[s].hand].status # "NONE"
  BY <1>1, <1>2, <1>3 DEF PassOK
<1>9. pass[s].sent \in {"answered", "marked"} =>
        Taken(pass[s].hand)' /\ KindOf[pass[s].hand] # "outcome"
  BY <1>2, <1>7 DEF PassOK
<1>10. pass[s].sent = "marked" => /\ KindOf[pass[s].hand] = "submission"
                                  /\ row'[pass[s].hand].status = "DONE"
  BY <1>2, <1>4, <1>6 DEF PassOK
<1>11. /\ pass[s].hand \notin pass[s].todo
       /\ pass[s].sent = "no" <=> pass[s].hand = NoItem
  BY <1>2 DEF PassOK
<1> QED BY <1>8, <1>9, <1>10, <1>11 DEF PassOK

\* A pass with an empty hand and nothing, or pending rows, to do.
LEMMA PassEmpty ==
  ASSUME NEW s \in Passes, pass'[s].hand = NoItem, pass'[s].sent = "no",
         pass'[s].todo \in SUBSET Items,
         \A i \in pass'[s].todo : row'[i].status # "NONE"
  PROVE  PassOK(s)'
BY OfflineAssumption DEF PassOK

LEMMA EnterReads ==
  ASSUME TypeOK, NEW s \in Passes, NEW kind, Enter(s, kind)
  PROVE  /\ pass'[s].hand = NoItem /\ pass'[s].sent = "no"
         /\ pass'[s].todo \in SUBSET Items
         /\ \A i \in pass'[s].todo :
              row[i].status = "PENDING" /\ row[i].retry < MaxRetries
         /\ \A t \in Passes : t # s => pass'[t] = pass[t]
<1>1. PICK todo \in {Pending(kind), {}} :
        pass' = [pass EXCEPT ![s] = [stage |-> kind, todo |-> todo,
                                     hand |-> NoItem, sent |-> "no"]]
  BY DEF Enter
<1>2. todo \in SUBSET Items
  BY QueuedType
<1>3. pass'[s] = [stage |-> kind, todo |-> todo, hand |-> NoItem, sent |-> "no"]
  BY <1>1 DEF TypeOK
<1> QED BY <1>1, <1>2, <1>3 DEF TypeOK, Pending, Queued

\* What each step does to the pass that takes it.
LEMMA MoveEffect ==
  ASSUME TypeOK, NEW s \in Passes, StartSync(s) \/ NextTable(s)
  PROVE  /\ UNCHANGED <<device, job, served, kills>>
         /\ pass'[s].hand = NoItem /\ pass'[s].sent = "no"
         /\ pass'[s].todo \in SUBSET Items
         /\ \A i \in pass'[s].todo :
              row[i].status = "PENDING" /\ row[i].retry < MaxRetries
         /\ \A t \in Passes : t # s => pass'[t] = pass[t]
<1>1. CASE StartSync(s)
  BY <1>1, EnterReads DEF StartSync
<1>2. CASE NextTable(s) /\ pass' = [pass EXCEPT ![s] = Asleep]
  BY <1>2 DEF NextTable, Asleep, TypeOK
<1>3. CASE NextTable(s) /\ Enter(s, NextStage(pass[s].stage))
  BY <1>3, EnterReads DEF NextTable
<1> QED BY <1>1, <1>2, <1>3 DEF NextTable

LEMMA SendEffect ==
  ASSUME TypeOK, NEW s \in Passes, Send(s)
  PROVE  \E i \in Items, answered \in BOOLEAN :
           /\ i \in pass[s].todo
           /\ Call(i, answered)
           /\ pass'[s].hand = i
           /\ pass'[s].todo = pass[s].todo \ {i}
           /\ pass'[s].sent = IF answered THEN "answered" ELSE "failed"
           /\ \A t \in Passes : t # s => pass'[t] = pass[t]
           /\ UNCHANGED <<device, kills>>
<1>1. PICK i \in pass[s].todo, answered \in BOOLEAN :
        /\ Call(i, answered)
        /\ pass' = [pass EXCEPT ![s] = InHand(@, i, answered)]
  BY DEF Send
<1>2. i \in Items
  BY DEF TypeOK, Pass
<1>3. pass'[s] = InHand(pass[s], i, answered)
  BY <1>1 DEF TypeOK
<1>4. pass[s] \in Pass
  BY DEF TypeOK
<1>5. /\ pass'[s].hand = i
      /\ pass'[s].todo = pass[s].todo \ {i}
      /\ pass'[s].sent = IF answered THEN "answered" ELSE "failed"
  BY <1>3, <1>4 DEF InHand, Pass
<1>6. \A t \in Passes : t # s => pass'[t] = pass[t]
  BY <1>1 DEF TypeOK
<1> QED BY <1>1, <1>2, <1>5, <1>6 DEF Send

LEMMA AdvanceEffect ==
  ASSUME TypeOK, NEW s \in Passes, pass' = [pass EXCEPT ![s] = Advance(@)]
  PROVE  /\ pass'[s].hand = NoItem /\ pass'[s].sent = "no"
         /\ pass'[s].todo = pass[s].todo
         /\ \A t \in Passes : t # s => pass'[t] = pass[t]
<1>1. pass'[s] = Advance(pass[s]) /\ pass[s] \in Pass
  BY DEF TypeOK
<1> QED BY <1>1 DEF Advance, Pass, TypeOK

LEMMA MarkDoneEffect ==
  ASSUME TypeOK, NEW s \in Passes, MarkDone(s)
  PROVE  /\ pass'[s].hand = pass[s].hand /\ pass'[s].sent = "marked"
         /\ pass'[s].todo = pass[s].todo
         /\ \A t \in Passes : t # s => pass'[t] = pass[t]
BY DEF MarkDone, TypeOK, Pass
LEMMA PassStepInv == TypeOK /\ PassInv /\ ScreenInv /\ [Next]_vars => PassInv'
<1> SUFFICES ASSUME TypeOK, PassInv, ScreenInv, [Next]_vars, NEW t \in Passes
             PROVE  PassOK(t)'
  BY DEF PassInv
<1>1. CASE pass'[t] = pass[t]
  BY <1>1, PassKept
<1>2. /\ PassOK(t)
      /\ pass[t] \in Pass
      /\ \A i \in Items : row[i].status # "NONE" => row'[i].status # "NONE"
  BY Grows DEF PassInv, TypeOK
<1>3. CASE StartSync(t) \/ NextTable(t)
  <2>1. \A i \in pass'[t].todo : row'[i].status # "NONE"
    BY <1>3, MoveEffect DEF device
  <2> QED BY <1>3, <2>1, MoveEffect, PassEmpty
<1>4. CASE Send(t)
  <2>1. PICK i \in Items, answered \in BOOLEAN :
          /\ i \in pass[t].todo
          /\ Call(i, answered)
          /\ pass'[t].hand = i
          /\ pass'[t].todo = pass[t].todo \ {i}
          /\ pass'[t].sent = IF answered THEN "answered" ELSE "failed"
          /\ UNCHANGED <<device, kills>>
    BY <1>4, SendEffect
  <2>2. i # NoItem /\ row[i].status # "NONE" /\ row' = row
    BY <1>2, <2>1, OfflineAssumption DEF PassOK, device
  <2>3. answered => Taken(i)' /\ KindOf[i] # "outcome"
    BY <2>1, CallEffect
  <2>4. answered => Taken(pass[t].hand)' /\ KindOf[i] # "outcome"
    BY <2>1, <2>3 DEF Taken
  <2>5. \A k \in pass'[t].todo : row'[k].status # "NONE"
    BY <1>2, <2>1, <2>2 DEF PassOK
  <2>6. /\ pass'[t].sent \in {"answered", "marked"} => answered
        /\ pass'[t].sent # "marked" /\ pass'[t].sent # "no"
    BY <2>1
  <2>7. /\ row'[pass'[t].hand].status # "NONE"
        /\ pass'[t].hand \notin pass'[t].todo
        /\ pass'[t].hand # NoItem
    BY <2>1, <2>2
  <2>8. pass'[t].sent \in {"answered", "marked"} =>
          Taken(pass[t].hand)' /\ KindOf[pass'[t].hand] # "outcome"
    BY <2>1, <2>4, <2>6
  <2> QED BY <2>5, <2>6, <2>7, <2>8 DEF PassOK
<1>5. CASE MarkDone(t)
  <2> DEFINE i == pass[t].hand
  <2>1. /\ i # NoItem /\ i \in Items
        /\ i \notin pass[t].todo
        /\ Taken(i) /\ KindOf[i] # "outcome" /\ KindOf[i] # "report"
    BY <1>2, <1>5 DEF MarkDone, PassOK, RowMarkable, Pass
  <2>2. KindOf[i] = "submission"
    BY <2>1, OfflineAssumption DEF Kinds
  <2>3. row'[i].status = "DONE"
    BY <1>5, <2>1 DEF MarkDone, TypeOK, Row
  <2>4. /\ pass'[t].hand = i /\ pass'[t].sent = "marked"
        /\ pass'[t].todo = pass[t].todo
    BY <1>5, MarkDoneEffect
  <2>5. Taken(pass[t].hand)'
    BY <1>5, <2>1, <2>4 DEF MarkDone, Taken
  <2>6. \A k \in pass'[t].todo : row'[k].status # "NONE"
    BY <1>2, <2>4 DEF PassOK, Pass
  <2> HIDE DEF i
  <2>7. /\ KindOf[pass'[t].hand] = "submission"
        /\ row'[pass'[t].hand].status = "DONE"
        /\ pass'[t].hand \notin pass'[t].todo
        /\ pass'[t].hand # NoItem
    BY <2>1, <2>2, <2>3, <2>4
  <2> QED BY <2>4, <2>5, <2>6, <2>7 DEF PassOK
<1>6. CASE UpdateLocally(t) \/ MarkFailed(t)
  <2>1. pass' = [pass EXCEPT ![t] = Advance(@)]
    BY <1>6 DEF UpdateLocally, MarkFailed
  <2>2. /\ pass'[t].hand = NoItem /\ pass'[t].sent = "no"
        /\ pass'[t].todo = pass[t].todo
    BY <2>1, AdvanceEffect
  <2>3. pass[t].todo \in SUBSET Items
    BY <1>2 DEF Pass
  <2>4. \A i \in pass'[t].todo : row'[i].status # "NONE"
    BY <1>2, <2>2, <2>3 DEF PassOK
  <2> QED BY <2>2, <2>3, <2>4, PassEmpty
<1>7. CASE MarkThrows(t) \/ Kill
  <2>1. pass'[t] = Asleep
    BY <1>7 DEF MarkThrows, Kill, TypeOK
  <2> QED BY <2>1, PassEmpty DEF Asleep
<1>8. CASE \E s \in Passes : s # t /\ (StartSync(s) \/ PassStep(s))
  <2>1. PICK s \in Passes : s # t /\ (StartSync(s) \/ PassStep(s))
    BY <1>8
  <2>2. \/ StartSync(s) \/ NextTable(s) \/ Send(s) \/ MarkDone(s)
        \/ UpdateLocally(s) \/ MarkFailed(s) \/ MarkThrows(s)
    BY <2>1 DEF PassStep
  <2>3. pass'[t] = pass[t]
    <3>1. CASE StartSync(s) \/ NextTable(s)
      BY <2>1, <3>1, MoveEffect
    <3>2. CASE Send(s)
      BY <2>1, <3>2, SendEffect
    <3>3. CASE MarkDone(s)
      BY <2>1, <3>3, MarkDoneEffect
    <3>4. CASE UpdateLocally(s) \/ MarkFailed(s)
      <4>1. pass' = [pass EXCEPT ![s] = Advance(@)]
        BY <3>4 DEF UpdateLocally, MarkFailed
      <4> QED BY <2>1, <4>1, AdvanceEffect
    <3>5. CASE MarkThrows(s)
      BY <2>1, <3>5 DEF MarkThrows, TypeOK
    <3> QED BY <2>2, <3>1, <3>2, <3>3, <3>4, <3>5
  <2> QED BY <2>3, PassKept
<1>9. CASE ScreenStep \/ Refresh \/ UNCHANGED vars
  <2>1. pass' = pass
    BY <1>9 DEF ScreenStep, ScreenCalls, ScreenQueues, ScreenUpdatesLocally,
                ScreenConfirms, Refresh, RefreshFetch, RefreshCheck,
                RefreshCommit, vars
  <2> QED BY <1>1, <2>1
<1> QED
  BY <1>3, <1>4, <1>5, <1>6, <1>7, <1>8, <1>9 DEF Next, PassStep
-----------------------------------------------------------------------------
(* What the screens know. *)

\* An item whose screen has not moved, and whose row and requests have not
\* changed but by steps a row in the table allows.
LEMMA ScreenKept ==
  ASSUME TypeOK, ScreenInv, [Next]_vars, NEW i \in Items,
         screen'[i] = screen[i],
         row[i].status = "NONE" => row'[i].status = "NONE" /\ served'[i] = served[i]
  PROVE  ScreenOK(i)'
<1>1. ScreenOK(i)
  BY DEF ScreenInv
<1>2. row[i].status # "NONE" => row'[i].status # "NONE"
  BY Grows
<1>3. Taken(i) => Taken(i)'
  BY TakenStays
<1> QED BY <1>1, <1>2, <1>3 DEF ScreenOK

LEMMA ScreenStepInv == TypeOK /\ PassInv /\ ScreenInv /\ [Next]_vars => ScreenInv'
<1> SUFFICES ASSUME TypeOK, PassInv, ScreenInv, [Next]_vars, NEW i \in Items
             PROVE  ScreenOK(i)'
  BY DEF ScreenInv
<1>1. ScreenOK(i)
  BY DEF ScreenInv
<1>2. ASSUME NEW k \in Items, ScreenCalls(k)
      PROVE  ScreenOK(i)'
  <2>1. CASE i # k
    <3>1. served'[i] = served[i] /\ screen'[i] = screen[i] /\ row' = row
      BY <1>2, <2>1, CallEffect DEF ScreenCalls, TypeOK
    <3> QED BY <3>1, ScreenKept
  <2>2. CASE i = k
    <3>1. row'[i].status = "NONE"
      BY <1>1, <1>2, <2>2 DEF ScreenCalls, ScreenOK
    <3>2. CASE screen' = [screen EXCEPT ![i] = "offline"] /\ KindOf[i] = "submission"
      BY <3>1, <3>2 DEF ScreenOK, TypeOK
    <3>3. ASSUME NEW answered \in BOOLEAN, Call(i, answered),
                 screen' = [screen EXCEPT ![i] =
                              IF answered THEN "answered" ELSE "failed"]
          PROVE  ScreenOK(i)'
      <4>1. answered => Taken(i)'
        BY <3>3, CallEffect
      <4>2. screen'[i] = IF answered THEN "answered" ELSE "failed"
        BY <3>3 DEF TypeOK
      <4> QED BY <3>1, <4>1, <4>2 DEF ScreenOK
    <3> QED BY <1>2, <2>2, <3>2, <3>3 DEF ScreenCalls
  <2> QED BY <2>1, <2>2
<1>3. ASSUME NEW k \in Items, ScreenQueues(k)
      PROVE  ScreenOK(i)'
  <2>1. CASE i # k
    <3>1. served' = served /\ screen'[i] = screen[i] /\ row'[i] = row[i]
      BY <1>3, <2>1 DEF ScreenQueues, TypeOK
    <3> QED BY <3>1, ScreenKept
  <2>2. CASE i = k
    <3>1. row'[i].status = "PENDING"
      BY <1>3, <2>2 DEF ScreenQueues, TypeOK
    <3>2. screen'[i] = IF KindOf[i] = "outcome" \/ screen[i] = "offline"
                       THEN "queued" ELSE "shown"
      BY <1>3, <2>2 DEF ScreenQueues, TypeOK
    <3>3. screen[i] = "offline" => KindOf[i] = "submission"
      BY <1>1 DEF ScreenOK
    <3> QED BY <3>1, <3>2, <3>3 DEF ScreenOK
  <2> QED BY <2>1, <2>2
<1>4. ASSUME NEW k \in Items, ScreenUpdatesLocally(k) \/ ScreenConfirms(k)
      PROVE  ScreenOK(i)'
  <2>1. /\ UNCHANGED <<row, served>>
        /\ screen' = [screen EXCEPT ![k] = "shown"]
    BY <1>4 DEF ScreenUpdatesLocally, ScreenConfirms
  <2>2. CASE i # k
    BY <2>1, <2>2, ScreenKept DEF TypeOK
  <2>3. CASE i = k
    BY <2>1, <2>3 DEF ScreenOK, TypeOK
  <2> QED BY <2>2, <2>3
<1>5. ASSUME NEW s \in Passes, Send(s)
      PROVE  ScreenOK(i)'
  <2>1. PICK k \in Items, answered \in BOOLEAN :
          k \in pass[s].todo /\ Call(k, answered) /\ UNCHANGED <<device, kills>>
    BY <1>5, SendEffect
  <2>2. row[k].status # "NONE"
    BY <2>1 DEF PassInv, PassOK
  <2>3. i # k => served'[i] = served[i]
    BY <2>1, CallEffect
  <2> QED BY <2>1, <2>2, <2>3, ScreenKept DEF device
<1>6. ASSUME NEW s \in Passes, MarkDone(s) \/ MarkFailed(s)
      PROVE  ScreenOK(i)'
  <2> DEFINE k == pass[s].hand
  <2>1. k # NoItem /\ row[k].status # "NONE"
    BY <1>6 DEF PassInv, PassOK, MarkDone, MarkFailed
  <2>2. UNCHANGED <<screen, served>>
    BY <1>6 DEF MarkDone, MarkFailed
  <2>3. i # k => row'[i] = row[i]
    BY <1>6 DEF MarkDone, MarkFailed, TypeOK
  <2> QED BY <2>1, <2>2, <2>3, ScreenKept
<1>7. CASE Kill
  <2>1. /\ UNCHANGED <<row, served>>
        /\ screen'[i] = IF screen[i] \in {"new", "shown"} THEN screen[i] ELSE "gone"
    BY <1>7 DEF Kill
  <2> QED BY <1>1, <2>1 DEF ScreenOK
<1>8. CASE \/ \E s \in Passes : \/ StartSync(s) \/ NextTable(s)
                                \/ UpdateLocally(s) \/ MarkThrows(s)
           \/ Refresh \/ UNCHANGED vars
  <2>1. UNCHANGED <<row, served, screen>>
    BY <1>8 DEF StartSync, NextTable, UpdateLocally, MarkThrows, Refresh,
                RefreshFetch, RefreshCheck, RefreshCommit, vars, device
  <2> QED BY <2>1, ScreenKept
<1> QED
  BY <1>2, <1>3, <1>4, <1>5, <1>6, <1>7, <1>8 DEF Next, ScreenStep, PassStep
-----------------------------------------------------------------------------
(* What was shown or marked done was taken by the server. *)

LEMMA TakenStepInv ==
  TypeOK /\ PassInv /\ ScreenInv /\ DoneTaken /\ ShownTaken /\ [Next]_vars
    => DoneTaken' /\ ShownTaken'
<1> SUFFICES ASSUME TypeOK, PassInv, ScreenInv, DoneTaken, ShownTaken,
                    [Next]_vars, NEW i \in Items
             PROVE  /\ row'[i].status = "DONE" => Taken(i)'
                    /\ screen'[i] = "shown" => row'[i].status = "PENDING" \/ Taken(i)'
  BY DEF DoneTaken, ShownTaken, Taken
<1>1. /\ row[i].status = "DONE" => Taken(i)
      /\ screen[i] = "shown" => row[i].status = "PENDING" \/ Taken(i)
  BY DEF DoneTaken, ShownTaken, Taken
<1>2. Taken(i) => Taken(i)'
  BY TakenStays
<1>3. row[i] \in Row /\ ScreenOK(i)
  BY DEF TypeOK, ScreenInv
<1>4. CASE \E s \in Passes : MarkDone(s) /\ pass[s].hand = i
  BY <1>2, <1>4 DEF PassInv, PassOK, MarkDone
<1>5. CASE ScreenQueues(i)
  BY <1>5 DEF ScreenQueues, TypeOK
<1>6. CASE ScreenUpdatesLocally(i) \/ ScreenConfirms(i)
  <2>1. row' = row
    BY <1>6 DEF ScreenUpdatesLocally, ScreenConfirms
  <2>2. row[i].status = "PENDING" \/ Taken(i)
    BY <1>1, <1>3, <1>6 DEF ScreenUpdatesLocally, ScreenConfirms, ScreenOK, Row
  <2> QED BY <1>1, <1>2, <2>1, <2>2
<1>7. ASSUME row'[i].status = row[i].status,
             screen'[i] = "shown" => screen[i] = "shown"
      PROVE  /\ row'[i].status = "DONE" => Taken(i)'
             /\ screen'[i] = "shown" => row'[i].status = "PENDING" \/ Taken(i)'
  BY <1>1, <1>2, <1>7
<1>8. ASSUME NEW k \in Items,
             \/ ScreenCalls(k)
             \/ k # i /\ (\/ ScreenQueues(k) \/ ScreenUpdatesLocally(k)
                          \/ ScreenConfirms(k))
      PROVE  row'[i] = row[i] /\ (screen'[i] = "shown" => screen[i] = "shown")
  BY <1>8 DEF ScreenCalls, ScreenQueues, ScreenUpdatesLocally, ScreenConfirms, TypeOK
<1>9. ASSUME NEW s \in Passes, \/ MarkFailed(s)
                               \/ MarkDone(s) /\ pass[s].hand # i
      PROVE  row'[i].status = row[i].status /\ screen' = screen
  BY <1>3, <1>9 DEF MarkDone, MarkFailed, TypeOK, Row
<1>10. ASSUME NEW s \in Passes, StartSync(s) \/ NextTable(s) \/ Send(s)
                                \/ UpdateLocally(s) \/ MarkThrows(s)
       PROVE  row' = row /\ screen' = screen
  BY <1>10 DEF StartSync, NextTable, Send, UpdateLocally, MarkThrows, device
<1>11. CASE Refresh \/ Kill \/ UNCHANGED vars
  <2>1. row' = row /\ (screen'[i] = "shown" => screen[i] = "shown")
    BY <1>11 DEF Refresh, RefreshFetch, RefreshCheck, RefreshCommit, Kill, vars
  <2> QED BY <1>7, <2>1
<1> QED
  BY <1>4, <1>5, <1>6, <1>7, <1>8, <1>9, <1>10, <1>11
  DEF Next, ScreenStep, PassStep
-----------------------------------------------------------------------------
(* Where the status on the device comes from. *)

\* The status of a job the server has comes to be recorded by an entry only.
LEMMA CallBacked ==
  ASSUME TypeOK, ScreenInv, StatusInv, [Next]_vars, NEW i \in Items,
         NEW answered \in BOOLEAN, Call(i, answered), NEW j \in Jobs
  PROVE  job'[j] = "OUTCOME_RECORDED" => Entered("outcome", j)'
<1>1. CASE job[j] = "OUTCOME_RECORDED"
  BY <1>1, EnteredStays DEF StatusInv, StatusOK
<1>2. CASE KindOf[i] = "outcome" /\ JobOf[i] = j /\ served'[i] > 0
  BY <1>2 DEF Entered
<1> QED BY <1>1, <1>2, CallEffect

LEMMA StatusStepInv ==
  TypeOK /\ PassInv /\ ScreenInv /\ StatusInv /\ [Next]_vars => StatusInv'
<1> SUFFICES ASSUME TypeOK, PassInv, ScreenInv, StatusInv, [Next]_vars,
                    NEW j \in Jobs
             PROVE  StatusOK(j)'
  BY DEF StatusInv
<1>1. StatusOK(j)
  BY DEF StatusInv
<1>2. /\ Entered("submission", j) => Entered("submission", j)'
      /\ Entered("outcome", j) => Entered("outcome", j)'
  BY EnteredStays
<1>3. ASSUME NEW i \in Items, ScreenCalls(i)
      PROVE  StatusOK(j)'
  <2>1. UNCHANGED <<local, cache>>
    BY <1>3 DEF ScreenCalls
  <2>2. job'[j] = "OUTCOME_RECORDED" => Entered("outcome", j)'
    BY <1>1, <1>2, <1>3, CallBacked DEF ScreenCalls, StatusOK
  <2> QED BY <1>1, <1>2, <2>1, <2>2 DEF StatusOK
<1>4. ASSUME NEW s \in Passes, Send(s)
      PROVE  StatusOK(j)'
  <2>1. UNCHANGED <<local, cache>>
    BY <1>4 DEF Send, device
  <2>2. job'[j] = "OUTCOME_RECORDED" => Entered("outcome", j)'
    BY <1>4, SendEffect, CallBacked
  <2> QED BY <1>1, <1>2, <2>1, <2>2 DEF StatusOK
<1>5. ASSUME NEW i \in Items, ScreenUpdatesLocally(i)
      PROVE  StatusOK(j)'
  <2>1. UNCHANGED <<row, job, cache, served>>
    BY <1>5 DEF ScreenUpdatesLocally
  <2>2. KindOf[i] \in {"submission", "outcome"} /\ row'[i].status # "NONE"
    BY <1>5, <2>1, OfflineAssumption
    DEF ScreenUpdatesLocally, ScreenInv, ScreenOK, Kinds
  <2>3. local'[j] = IF j = JobOf[i]
                    THEN IF KindOf[i] = "outcome" THEN "OUTCOME_RECORDED"
                         ELSE "COMPLETED"
                    ELSE local[j]
    BY <1>5 DEF ScreenUpdatesLocally, TypeOK
  <2>4. Entered(KindOf[i], JobOf[i])'
    BY <2>2 DEF Entered
  <2> QED BY <1>1, <1>2, <2>1, <2>2, <2>3, <2>4 DEF StatusOK
<1>6. ASSUME NEW s \in Passes, UpdateLocally(s)
      PROVE  StatusOK(j)'
  <2> DEFINE i == pass[s].hand
  <2>1. UNCHANGED <<row, job, cache, served>>
    BY <1>6 DEF UpdateLocally
  <2>2. i # NoItem /\ KindOf[i] = "submission" /\ row[i].status = "DONE"
    BY <1>6 DEF UpdateLocally, PassInv, PassOK
  <2>3. i \in Items
    BY <2>2 DEF TypeOK, Pass
  <2>4. local'[j] = IF j = JobOf[i] THEN "COMPLETED" ELSE local[j]
    BY <1>6 DEF UpdateLocally, TypeOK
  <2> HIDE DEF i
  <2>5. Entered("submission", JobOf[i])
    BY <2>2, <2>3 DEF Entered
  <2>6. j = JobOf[i] => Entered("submission", j)'
    BY <1>2, <2>5
  <2> QED BY <1>1, <1>2, <2>1, <2>4, <2>6 DEF StatusOK
<1>7. CASE RefreshFetch
  <2>1. UNCHANGED <<local, job>>
    BY <1>7 DEF RefreshFetch
  <2>2. cache'.snap[j] = IF job[j] = "COMPLETED" THEN "ABSENT"
                         ELSE job[j]
    BY <1>7 DEF RefreshFetch
  <2> QED BY <1>1, <1>2, <2>1, <2>2 DEF StatusOK
<1>8. CASE RefreshCheck
  <2>1. UNCHANGED <<local, job>> /\ cache'.snap = cache.snap
    BY <1>8 DEF RefreshCheck, TypeOK
  <2> QED BY <1>1, <1>2, <2>1 DEF StatusOK
<1>9. CASE RefreshCommit
  <2>1. job' = job /\ cache'.snap[j] = "ABSENT"
    BY <1>9 DEF RefreshCommit, NoRefresh
  <2>2. local'[j] \in {local[j], cache.snap[j]}
    BY <1>9 DEF RefreshCommit
  <2> QED BY <1>1, <1>2, <2>1, <2>2 DEF StatusOK
<1>10. CASE Kill
  <2>1. UNCHANGED <<local, job>> /\ cache'.snap[j] = "ABSENT"
    BY <1>10 DEF Kill, NoRefresh
  <2> QED BY <1>1, <1>2, <2>1 DEF StatusOK
<1>11. CASE \/ \E i \in Items : ScreenQueues(i) \/ ScreenConfirms(i)
            \/ \E s \in Passes : \/ StartSync(s) \/ NextTable(s) \/ MarkDone(s)
                                 \/ MarkFailed(s) \/ MarkThrows(s)
            \/ UNCHANGED vars
  <2>1. UNCHANGED <<local, job, cache>>
    BY <1>11 DEF ScreenQueues, ScreenConfirms, StartSync, NextTable, MarkDone,
                 MarkFailed, MarkThrows, vars, device
  <2> QED BY <1>1, <1>2, <2>1 DEF StatusOK
<1> QED
  BY <1>3, <1>4, <1>5, <1>6, <1>7, <1>8, <1>9, <1>10, <1>11
  DEF Next, ScreenStep, PassStep, Refresh
-----------------------------------------------------------------------------
(* How often an item is served. *)

LEMMA PassSets ==
  ASSUME NEW i
  PROVE  /\ Holding(i) \in SUBSET Passes /\ Waiting(i) \in SUBSET Passes
         /\ IsFiniteSet(Holding(i)) /\ Cardinality(Holding(i)) \in Nat
         /\ IsFiniteSet(Waiting(i)) /\ Cardinality(Waiting(i)) \in Nat
         /\ Cardinality(Holding(i)) <= Cardinality(Passes)
<1>1. Holding(i) \in SUBSET Passes /\ Waiting(i) \in SUBSET Passes
  BY DEF Holding, Waiting
<1>2. /\ IsFiniteSet(Holding(i)) /\ Cardinality(Holding(i)) <= Cardinality(Passes)
      /\ IsFiniteSet(Waiting(i))
  BY <1>1, OfflineAssumption, FS_Subset
<1> QED BY <1>1, <1>2, FS_CardinalityType

LEMMA PassSetsNext ==
  ASSUME NEW i
  PROVE  Cardinality(Holding(i))' \in Nat /\ Cardinality(Waiting(i))' \in Nat
<1>1. Holding(i)' \in SUBSET Passes /\ Waiting(i)' \in SUBSET Passes
  BY DEF Holding, Waiting
<1>2. IsFiniteSet(Holding(i)') /\ IsFiniteSet(Waiting(i)')
  BY <1>1, OfflineAssumption, FS_Subset
<1> QED BY <1>2, FS_CardinalityType

\* A pass holds an item or waits to send it, never both.
LEMMA PassSetsApart ==
  ASSUME TypeOK, PassInv, NEW i \in Items
  PROVE  Cardinality(Holding(i)) + Cardinality(Waiting(i)) <= Cardinality(Passes)
<1>1. Holding(i) \cap Waiting(i) = {}
  BY DEF PassInv, PassOK, Holding, Waiting
<1>2. Holding(i) \cup Waiting(i) \in SUBSET Passes
  BY DEF Holding, Waiting
<1>3. Cardinality(Holding(i) \cup Waiting(i)) <= Cardinality(Passes)
  BY <1>2, OfflineAssumption, FS_Subset
<1>4. Cardinality(Holding(i) \cup Waiting(i)) =
        Cardinality(Holding(i)) + Cardinality(Waiting(i))
        - Cardinality(Holding(i) \cap Waiting(i))
  BY PassSets, FS_Union
<1>5. Cardinality(Holding(i) \cap Waiting(i)) = 0
  BY <1>1, FS_EmptySet
<1> QED BY <1>3, <1>4, <1>5, PassSets

\* The numbers of the count, with the product of ServeBound taken apart.
LEMMA Numbers ==
  ASSUME TypeOK, PassInv, NEW i \in Items
  PROVE  /\ Cardinality(Passes) \in Nat /\ Cardinality(Passes) * kills \in Nat
         /\ ServeBound = MaxRetries + Cardinality(Passes) + Cardinality(Passes) * kills
         /\ Cardinality(Holding(i)) \in Nat /\ Cardinality(Waiting(i)) \in Nat
         /\ Cardinality(Holding(i)) + Cardinality(Waiting(i)) <= Cardinality(Passes)
         /\ served[i] \in Nat /\ row[i] \in Row /\ row[i].retry \in Nat
         /\ MaxRetries \in Nat /\ MaxRetries > 0
<1>1. Cardinality(Passes) \in Nat
  BY OfflineAssumption, FS_CardinalityType
<1>2. kills \in Nat /\ served[i] \in Nat /\ row[i] \in Row
  BY DEF TypeOK
<1>3. row[i].retry \in Nat
  BY <1>2 DEF Row
<1>4. MaxRetries \in Nat /\ MaxRetries > 0
  BY OfflineAssumption
<1>5. ServeBound = MaxRetries + Cardinality(Passes) + Cardinality(Passes) * kills
  BY <1>1, <1>2, <1>4, Products DEF ServeBound
<1> QED BY <1>1, <1>2, <1>3, <1>4, <1>5, Products, PassSets, PassSetsApart

\* The passes that hold item i after one pass has moved.
LEMMA SetsMove ==
  ASSUME NEW i \in Items, NEW s \in Passes,
         \A t \in Passes : t # s => pass'[t] = pass[t]
  PROVE  /\ (pass'[s].hand = i <=> pass[s].hand = i) => Holding(i)' = Holding(i)
         /\ pass'[s].hand = i => Holding(i)' = Holding(i) \cup {s}
         /\ pass'[s].hand # i => Holding(i)' = Holding(i) \ {s}
         /\ (i \in pass'[s].todo <=> i \in pass[s].todo) => Waiting(i)' = Waiting(i)
         /\ i \notin pass'[s].todo => Waiting(i)' = Waiting(i) \ {s}
BY DEF Holding, Waiting

\* A step that changes neither the row nor the requests, and adds no pass
\* that waits to send a closed row nor takes one from those that hold it.
LEMMA CountKept ==
  ASSUME TypeOK, PassInv, NEW i \in Items, CountOf(i),
         row'[i] = row[i], served'[i] = served[i], kills' = kills,
         row[i].status = "PENDING" =>
           Cardinality(Holding(i))' >= Cardinality(Holding(i)),
         Closed(i) => Cardinality(Waiting(i))' <= Cardinality(Waiting(i))
  PROVE  CountOf(i)'
<1>1. Cardinality(Holding(i))' \in Nat /\ Cardinality(Waiting(i))' \in Nat
  BY PassSetsNext
<1>2. ServeBound' = ServeBound
  BY DEF ServeBound
<1> QED BY <1>1, <1>2, Numbers DEF CountOf, Closed
\* A pass sends the row: it is counted in hand.
LEMMA CountSend ==
  ASSUME TypeOK, PassInv, NEW i \in Items, KindOf[i] # "report", CountOf(i),
         NEW s \in Passes, Send(s)
  PROVE  CountOf(i)'
<1>1. PICK k \in Items, answered \in BOOLEAN :
        /\ k \in pass[s].todo
        /\ Call(k, answered)
        /\ pass'[s].hand = k
        /\ pass'[s].todo = pass[s].todo \ {k}
        /\ \A t \in Passes : t # s => pass'[t] = pass[t]
        /\ UNCHANGED <<device, kills>>
  BY SendEffect
<1>2. row' = row /\ kills' = kills /\ ServeBound' = ServeBound
  BY <1>1 DEF device, ServeBound
<1>3. /\ pass[s].hand = NoItem
      /\ NoItem \notin Items
  BY OfflineAssumption DEF Send, PassInv, PassOK
<1>4. CASE k # i
  <2>1. Holding(i)' = Holding(i) /\ Waiting(i)' = Waiting(i)
    BY <1>1, <1>3, <1>4, SetsMove
  <2>2. served'[i] = served[i]
    BY <1>1, <1>4, CallEffect
  <2> QED BY <1>2, <2>1, <2>2, CountKept, PassSets
<1>5. CASE k = i
  <2>1. /\ Holding(i)' = Holding(i) \cup {s} /\ s \notin Holding(i)
        /\ Waiting(i)' = Waiting(i) \ {s} /\ s \in Waiting(i)
    BY <1>1, <1>3, <1>5, SetsMove DEF Holding, Waiting
  <2>2. /\ Cardinality(Holding(i))' = Cardinality(Holding(i)) + 1
        /\ Cardinality(Waiting(i))' = Cardinality(Waiting(i)) - 1
    <3>1. IsFiniteSet(Holding(i)) /\ IsFiniteSet(Waiting(i))
      BY PassSets
    <3>2. Cardinality(Holding(i) \cup {s}) = Cardinality(Holding(i)) + 1
      BY <2>1, <3>1, FS_AddElement
    <3>3. Cardinality(Waiting(i) \ {s}) = Cardinality(Waiting(i)) - 1
      BY <2>1, <3>1, FS_RemoveElement
    <3> QED BY <2>1, <3>2, <3>3
  <2>3. served'[i] <= served[i] + 1 /\ served' \in [Items -> Nat]
    BY <1>1, <1>5, CallEffect
  <2>4. row[i].status # "NONE"
    BY <1>1, <1>5 DEF PassInv, PassOK
  <2> QED BY <1>2, <2>2, <2>3, <2>4, Numbers DEF CountOf, Closed
<1> QED BY <1>4, <1>5

\* The row is marked done: what it had is within the bound, with what the other
\* passes hold and wait to send.
LEMMA CountMarkDone ==
  ASSUME TypeOK, PassInv, NEW i \in Items, CountOf(i),
         NEW s \in Passes, MarkDone(s)
  PROVE  CountOf(i)'
<1>1. /\ pass'[s].hand = pass[s].hand /\ pass'[s].todo = pass[s].todo
      /\ \A t \in Passes : t # s => pass'[t] = pass[t]
  BY MarkDoneEffect
<1>2. Holding(i)' = Holding(i) /\ Waiting(i)' = Waiting(i)
  BY <1>1, SetsMove
<1>3. UNCHANGED <<served, kills>> /\ ServeBound' = ServeBound
  BY DEF MarkDone, ServeBound
<1>4. CASE pass[s].hand # i
  <2>1. row'[i] = row[i]
    BY <1>4 DEF MarkDone, TypeOK
  <2> QED BY <1>2, <1>3, <2>1, CountKept, PassSets
<1>5. CASE pass[s].hand = i
  <2>1. row'[i].status = "DONE" /\ row'[i].retry = row[i].retry
    BY <1>5 DEF MarkDone, TypeOK, Row
  <2>2. row[i].status # "NONE"
    BY <1>5, OfflineAssumption DEF PassInv, PassOK
  <2>3. row[i].status \in {"PENDING", "DONE"}
    BY <2>2, Numbers DEF Row
  <2>4. served[i] + Cardinality(Waiting(i)) <= ServeBound
    BY <2>3, Numbers DEF CountOf, Closed
  <2> QED BY <1>2, <1>3, <2>1, <2>4 DEF CountOf, Closed
<1> QED BY <1>4, <1>5

\* The attempt is counted: what was in hand is in retry_count.
LEMMA CountMarkFailed ==
  ASSUME TypeOK, PassInv, NEW i \in Items, CountOf(i),
         NEW s \in Passes, MarkFailed(s)
  PROVE  CountOf(i)'
<1>1. /\ pass'[s].hand = NoItem /\ pass'[s].todo = pass[s].todo
      /\ \A t \in Passes : t # s => pass'[t] = pass[t]
  BY AdvanceEffect DEF MarkFailed
<1>2. Waiting(i)' = Waiting(i) /\ NoItem \notin Items
  BY <1>1, SetsMove, OfflineAssumption
<1>3. UNCHANGED <<served, kills>> /\ ServeBound' = ServeBound
  BY DEF MarkFailed, ServeBound
<1>4. CASE pass[s].hand # i
  <2>1. row'[i] = row[i]
    BY <1>4 DEF MarkFailed, TypeOK
  <2>2. Holding(i)' = Holding(i)
    BY <1>1, <1>2, <1>4, SetsMove
  <2> QED BY <1>2, <1>3, <2>1, <2>2, CountKept, PassSets
<1>5. CASE pass[s].hand = i
  <2>1. row'[i].status = row[i].status /\ row'[i].retry = row[i].retry + 1
    BY <1>5 DEF MarkFailed, TypeOK, Row
  <2>2. row[i].status # "NONE"
    BY <1>2, <1>5 DEF PassInv, PassOK
  <2>3. row[i].status \in {"PENDING", "DONE"}
    BY <2>2, Numbers DEF Row
  <2>4. Holding(i)' = Holding(i) \ {s} /\ s \in Holding(i)
    BY <1>1, <1>2, <1>5, SetsMove DEF Holding
  <2>5. Cardinality(Holding(i))' = Cardinality(Holding(i)) - 1
    BY <2>4, PassSets, FS_RemoveElement
  <2>6. served[i] + Cardinality(Waiting(i)) <= ServeBound \/ ~Closed(i)'
    BY <2>1, <2>3, Numbers DEF CountOf, Closed
  <2>7. row[i].status = "PENDING" =>
          served[i] <= 1 + row'[i].retry + Cardinality(Holding(i))'
                          + Cardinality(Passes) * kills
    BY <2>1, <2>5, Numbers DEF CountOf
  <2> QED BY <1>2, <1>3, <2>1, <2>2, <2>6, <2>7 DEF CountOf
<1> QED BY <1>4, <1>5

\* A kill forgets what the passes hold; the bound makes room for all of them.
LEMMA CountKill ==
  ASSUME TypeOK, PassInv, NEW i \in Items, CountOf(i), Kill
  PROVE  CountOf(i)'
<1>1. /\ UNCHANGED <<row, served>> /\ kills' = kills + 1
      /\ \A s \in Passes : pass'[s] = Asleep
  BY DEF Kill
<1>2. Waiting(i)' = {} /\ Cardinality(Waiting(i))' = 0
  BY <1>1, FS_EmptySet DEF Waiting, Asleep
<1>3. kills \in Nat
  BY DEF TypeOK
<1>4. Cardinality(Passes) * kills' = Cardinality(Passes) * kills + Cardinality(Passes)
  BY <1>1, <1>3, Numbers, Products
<1>5. ServeBound' = ServeBound + Cardinality(Passes)
  <2>1. Cardinality(Passes) \in Nat /\ kills + 1 \in Nat
    BY <1>3, Numbers
  <2>2. ServeBound' = MaxRetries + Cardinality(Passes) * (1 + kills')
    BY DEF ServeBound
  <2>3. Cardinality(Passes) * (1 + kills') = Cardinality(Passes) * kills'
                                             + Cardinality(Passes)
    BY <1>1, <2>1, Products
  <2> QED BY <1>4, <2>2, <2>3, Numbers
<1>6. Cardinality(Holding(i))' \in Nat
  BY PassSetsNext
<1> QED BY <1>1, <1>2, <1>4, <1>5, <1>6, Numbers DEF CountOf, Closed
LEMMA CountStepInv ==
  TypeOK /\ PassInv /\ ScreenInv /\ CountInv /\ [Next]_vars => CountInv'
<1> SUFFICES ASSUME TypeOK, PassInv, ScreenInv, CountInv, [Next]_vars,
                    NEW i \in Items, KindOf[i] # "report"
             PROVE  CountOf(i)'
  BY DEF CountInv
<1>1. CountOf(i) /\ ScreenOK(i)
  BY DEF CountInv, ScreenInv
<1>2. CASE ScreenCalls(i)
  <2>1. /\ screen[i] = "new" /\ row' = row /\ kills' = kills
        /\ served'[i] <= served[i] + 1 \/ served' = served
    BY <1>2, CallEffect DEF ScreenCalls
  <2>2. served[i] = 0 /\ row[i].status = "NONE"
    BY <1>1, <2>1 DEF ScreenOK
  <2>3. served'[i] <= 1
    BY <2>1, <2>2
  <2> QED BY <1>1, <2>1, <2>2, <2>3 DEF CountOf, Closed
<1>3. CASE ScreenQueues(i)
  <2>1. row'[i].status = "PENDING" /\ row'[i].retry = 0
    BY <1>3 DEF ScreenQueues, TypeOK
  <2>2. served[i] <= 1 /\ UNCHANGED <<served, kills>>
    BY <1>1, <1>3 DEF ScreenQueues, ScreenOK, CountOf
  <2>3. Cardinality(Holding(i))' \in Nat
    BY PassSetsNext
  <2> QED BY <2>1, <2>2, <2>3, Numbers DEF CountOf, Closed
<1>4. ASSUME NEW k \in Items, ScreenCalls(k) \/ ScreenQueues(k), k # i
      PROVE  CountOf(i)'
  <2>1. UNCHANGED <<pass, kills>>
    BY <1>4 DEF ScreenCalls, ScreenQueues
  <2>2. served'[i] = served[i] /\ row'[i] = row[i]
    BY <1>4, CallEffect DEF ScreenCalls, ScreenQueues, TypeOK
  <2>3. Holding(i)' = Holding(i) /\ Waiting(i)' = Waiting(i)
    BY <2>1 DEF Holding, Waiting
  <2> QED BY <1>1, <2>1, <2>2, <2>3, CountKept, PassSets
<1>5. ASSUME NEW s \in Passes, StartSync(s) \/ NextTable(s)
      PROVE  CountOf(i)'
  <2>1. UNCHANGED <<row, served, kills>>
    BY <1>5, MoveEffect DEF device
  <2>2. pass[s].hand = NoItem
    BY <1>5 DEF StartSync, NextTable, Asleep, PassInv, PassOK
  <2>3. Holding(i)' = Holding(i)
    BY <1>5, <2>2, MoveEffect, SetsMove
  <2>4. Closed(i) => Waiting(i)' = Waiting(i) \ {s}
    <3>1. Closed(i) => i \notin pass'[s].todo
      BY <1>5, MoveEffect, Numbers DEF Closed
    <3> QED BY <1>5, <3>1, MoveEffect, SetsMove
  <2>5. Closed(i) => Cardinality(Waiting(i))' <= Cardinality(Waiting(i))
    <3>1. IsFiniteSet(Waiting(i)) /\ Waiting(i) \ {s} \in SUBSET Waiting(i)
      BY PassSets
    <3>2. Cardinality(Waiting(i) \ {s}) <= Cardinality(Waiting(i))
      BY <3>1, FS_Subset
    <3> QED BY <2>4, <3>2, PassSets
  <2> QED BY <1>1, <2>1, <2>3, <2>5, CountKept, PassSets
<1>6. ASSUME NEW s \in Passes, UpdateLocally(s)
      PROVE  CountOf(i)'
  <2>1. /\ pass'[s].hand = NoItem /\ pass'[s].todo = pass[s].todo
        /\ \A t \in Passes : t # s => pass'[t] = pass[t]
        /\ UNCHANGED <<row, served, kills>>
    BY <1>6, AdvanceEffect DEF UpdateLocally
  <2>2. pass[s].hand = i => row[i].status = "DONE"
    BY <1>6 DEF UpdateLocally, PassInv, PassOK
  <2>3. Waiting(i)' = Waiting(i)
    BY <2>1, SetsMove
  <2>4. pass[s].hand # i => Holding(i)' = Holding(i)
    BY <2>1, OfflineAssumption, SetsMove
  <2> QED BY <1>1, <2>1, <2>2, <2>3, <2>4, CountKept, PassSets
<1>7. ASSUME NEW s \in Passes, MarkThrows(s)
      PROVE  CountOf(i)'
  <2>1. /\ pass' = [pass EXCEPT ![s] = Asleep] /\ pass[s].hand # i
        /\ UNCHANGED <<row, served, kills>>
    BY <1>7 DEF MarkThrows, RowMarkable, device
  <2>2. /\ pass'[s].hand = NoItem /\ pass'[s].todo = {}
        /\ \A t \in Passes : t # s => pass'[t] = pass[t]
    BY <2>1 DEF Asleep, TypeOK
  <2>3. Holding(i)' = Holding(i) /\ Waiting(i)' = Waiting(i) \ {s}
    BY <2>1, <2>2, OfflineAssumption, SetsMove
  <2>4. Cardinality(Waiting(i))' <= Cardinality(Waiting(i))
    BY <2>3, PassSets, FS_RemoveElement
  <2> QED BY <1>1, <2>1, <2>3, <2>4, CountKept, PassSets
<1>8. CASE \/ \E k \in Items : ScreenUpdatesLocally(k) \/ ScreenConfirms(k)
           \/ Refresh \/ UNCHANGED vars
  <2>1. UNCHANGED <<row, pass, served, kills>>
    BY <1>8 DEF ScreenUpdatesLocally, ScreenConfirms, Refresh, RefreshFetch,
                RefreshCheck, RefreshCommit, vars
  <2>2. Holding(i)' = Holding(i) /\ Waiting(i)' = Waiting(i)
    BY <2>1 DEF Holding, Waiting
  <2> QED BY <1>1, <2>1, <2>2, CountKept, PassSets
<1> QED
  BY <1>1, <1>2, <1>3, <1>4, <1>5, <1>6, <1>7, <1>8, CountSend, CountMarkDone,
     CountMarkFailed, CountKill
  DEF Next, ScreenStep, PassStep
-----------------------------------------------------------------------------
(* The inductive invariant, and what follows from it. *)

LEMMA InitInv == Init => OfflineInv
<1> SUFFICES ASSUME Init
             PROVE  OfflineInv
  OBVIOUS
<1> USE OfflineAssumption DEF Init
<1>1. TypeOK
  BY DEF TypeOK, NoRow, Asleep, NoRefresh, Row, Pass, JobStatuses
<1>2. PassInv
  BY DEF PassInv, PassOK, Asleep
<1>3. ScreenInv
  BY DEF ScreenInv, ScreenOK, NoRow
<1>4. DoneTaken /\ ShownTaken
  BY DEF DoneTaken, ShownTaken, NoRow
<1>5. StatusInv
  BY DEF StatusInv, StatusOK, NoRefresh
<1>6. CountInv
  BY DEF CountInv, CountOf, Closed, NoRow
<1> QED BY <1>1, <1>2, <1>3, <1>4, <1>5, <1>6 DEF OfflineInv

LEMMA StepInv == OfflineInv /\ [Next]_vars => OfflineInv'
BY TypeStep, PassStepInv, ScreenStepInv, TakenStepInv, StatusStepInv, CountStepInv
DEF OfflineInv

LEMMA InvHolds == Spec => []OfflineInv
BY InitInv, StepInv, PTL DEF Spec

\* The variables keep their types, for any entries, passes and kills.
THEOREM TypeCorrect == Spec => []TypeOK
<1>1. OfflineInv => TypeOK
  BY DEF OfflineInv
<1> QED BY <1>1, InvHolds, PTL

\* However calls and answers are lost, passes overlap and the app is killed, an
\* outcome or a report the officer was told is recorded is in the server's tables
\* or still in the queue (the _submit of the two screens).
THEOREM ShownIsSaved == Spec => []ShownSurvives
<1>1. OfflineInv => ShownSurvives
  BY DEF OfflineInv, ShownTaken, ShownSurvives, Taken, Applied, Commits
<1> QED BY <1>1, InvHolds, PTL

\* The guard "retry_count < 5" bounds how often a submission or an outcome is
\* served, for any number of overlapping passes and of kills
\* (getPendingSubmissions, getPendingOutcomes).
THEOREM RetriesBound == Spec => []RequestsBounded
<1>1. OfflineInv => RequestsBounded
  <2> SUFFICES ASSUME OfflineInv, NEW i \in Items, KindOf[i] # "report"
               PROVE  served[i] <= ServeBound
    BY DEF RequestsBounded
  <2>1. TypeOK /\ PassInv /\ CountOf(i)
    BY DEF OfflineInv, CountInv
  <2> QED BY <2>1, Numbers DEF CountOf, Closed, Row
<1> QED BY <1>1, InvHolds, PTL

\* The status the app shows for a job is one an entry of the officer gave it,
\* whatever answer of the server a refresh writes late (cacheJobs).
THEOREM StatusIsBacked == Spec => []LocalStatusBacked
<1>1. OfflineInv => LocalStatusBacked
  BY DEF OfflineInv, StatusInv, StatusOK, LocalStatusBacked
<1> QED BY <1>1, InvHolds, PTL
-----------------------------------------------------------------------------
(* The queue implements the outbox.  Each action is a step of the outbox on *)
(* the entry it is about, or leaves box, server and officer as they were.   *)

Box      == [i \in Items |-> row[i].status]
OnServer == {i \in Items : served[i] > 0}
Told     == {i \in Items : screen[i] = "shown"}

\* The server takes the entry a call is about, or nothing.
LEMMA CallTakes ==
  ASSUME TypeOK, NEW i \in Items, NEW answered \in BOOLEAN, Call(i, answered)
  PROVE  \/ OnServer' = OnServer
         \/ OnServer' = OnServer \cup {i}
<1>1. CASE UNCHANGED served
  BY <1>1 DEF OnServer
<1>2. CASE served' = [served EXCEPT ![i] = Bump(i)]
  <2>1. served \in [Items -> Nat] /\ Bump(i) > 0
    BY BumpCounts DEF TypeOK
  <2>2. served'[i] > 0 /\ \A k \in Items : k # i => served'[k] = served[k]
    BY <1>2, <2>1
  <2> QED BY <1>2, <2>2 DEF OnServer
<1> QED BY <1>1, <1>2 DEF Call, Serve

\* A call in which no row and no screen's word changes is a step of the outbox.
LEMMA CallIsTake ==
  ASSUME TypeOK, NEW i \in Items, NEW answered \in BOOLEAN, Call(i, answered),
         UNCHANGED <<Box, Told>>
  PROVE  Promise!Take(i) \/ UNCHANGED <<Box, OnServer, Told>>
<1>1. CASE OnServer' = OnServer
  BY <1>1
<1>2. CASE OnServer' = OnServer \cup {i}
  BY <1>2 DEF Promise!Take, Box, OnServer, Told
<1> QED BY <1>1, <1>2, CallTakes

LEMMA StepKeepsPromise ==
  OfflineInv /\ [Next]_vars => [Promise!Next]_<<Box, OnServer, Told>>
<1> SUFFICES ASSUME OfflineInv, [Next]_vars
             PROVE  Promise!Next \/ UNCHANGED <<Box, OnServer, Told>>
  OBVIOUS
<1>1. /\ TypeOK /\ PassInv /\ ScreenInv
      /\ row \in [Items -> Row]
      /\ screen \in [Items -> {"new", "answered", "failed", "offline", "queued",
                               "shown", "gone"}]
  BY DEF OfflineInv, TypeOK
<1>2. ASSUME NEW i \in Items, ScreenCalls(i)
      PROVE  Promise!Take(i) \/ UNCHANGED <<Box, OnServer, Told>>
  <2>1. UNCHANGED <<Box, Told>>
    BY <1>1, <1>2 DEF ScreenCalls, Box, Told
  <2>2. CASE UNCHANGED served
    BY <2>1, <2>2 DEF OnServer
  <2>3. CASE \E answered \in BOOLEAN : Call(i, answered)
    BY <1>1, <2>1, <2>3, CallIsTake
  <2> QED BY <1>2, <2>2, <2>3 DEF ScreenCalls
<1>3. ASSUME NEW i \in Items, ScreenQueues(i)
      PROVE  Promise!Keep(i)
  <2>1. row[i].status = "NONE"
    BY <1>1, <1>3 DEF ScreenQueues, ScreenInv, ScreenOK
  <2>2. row'[i].status = "PENDING" /\ \A k \in Items : k # i => row'[k] = row[k]
    BY <1>1, <1>3 DEF ScreenQueues
  <2>3. Box' = [Box EXCEPT ![i] = "PENDING"] /\ Box[i] = "NONE"
    BY <2>1, <2>2 DEF Box
  <2>4. i \notin Told /\ Told' \in {Told, Told \cup {i}} /\ OnServer' = OnServer
    BY <1>1, <1>3 DEF ScreenQueues, Told, OnServer
  <2> QED BY <2>3, <2>4 DEF Promise!Keep, Box, OnServer, Told
<1>4. ASSUME NEW i \in Items, ScreenUpdatesLocally(i) \/ ScreenConfirms(i)
      PROVE  Promise!Tell(i)
  <2>1. row[i].status \in {"PENDING", "DONE"} \/ Taken(i)
    BY <1>1, <1>4 DEF ScreenUpdatesLocally, ScreenConfirms, ScreenInv, ScreenOK, Row
  <2>2. row[i].status = "PENDING" \/ Taken(i)
    BY <2>1 DEF OfflineInv, DoneTaken, Taken
  <2>3. Promise!Safe(i)
    BY <2>2 DEF Promise!Safe, Taken
  <2>4. Told' = Told \cup {i}
    BY <1>1, <1>4 DEF ScreenUpdatesLocally, ScreenConfirms, Told
  <2>5. UNCHANGED <<Box, OnServer>>
    BY <1>4 DEF ScreenUpdatesLocally, ScreenConfirms, Box, OnServer
  <2> QED BY <2>3, <2>4, <2>5 DEF Promise!Tell, Box, OnServer, Told
<1>5. ASSUME NEW s \in Passes, Send(s)
      PROVE  Promise!Next \/ UNCHANGED <<Box, OnServer, Told>>
  <2>1. PICK i \in Items, answered \in BOOLEAN :
          Call(i, answered) /\ UNCHANGED <<device, kills>>
    BY <1>1, <1>5, SendEffect
  <2>2. UNCHANGED <<Box, Told>>
    BY <2>1 DEF device, Box, Told
  <2> QED BY <1>1, <2>1, <2>2, CallIsTake DEF Promise!Next
<1>6. ASSUME NEW s \in Passes, MarkDone(s)
      PROVE  \E i \in Items : Promise!Drop(i) \/ UNCHANGED <<Box, OnServer, Told>>
  <2>1. PICK i \in Items : i = pass[s].hand /\ Taken(i) /\ row[i].status # "NONE"
    BY <1>1, <1>6, OfflineAssumption DEF MarkDone, PassInv, PassOK, TypeOK, Pass
  <2>2. row' = [row EXCEPT ![i].status = "DONE"]
    BY <1>6, <2>1 DEF MarkDone
  <2>3. row'[i].status = "DONE" /\ \A k \in Items : k # i => row'[k] = row[k]
    BY <1>1, <2>2 DEF Row
  <2>4. UNCHANGED <<OnServer, Told>>
    BY <1>6 DEF MarkDone, OnServer, Told
  <2>5. CASE row[i].status = "DONE"
    <3>1. Box' = Box
      BY <2>3, <2>5 DEF Box
    <3> QED BY <2>4, <3>1
  <2>6. CASE row[i].status = "PENDING"
    <3>1. Box[i] = "PENDING" /\ Box' = [Box EXCEPT ![i] = "DONE"]
      BY <2>3, <2>6 DEF Box
    <3> QED BY <2>1, <2>4, <3>1 DEF Promise!Drop, Taken, Box, OnServer, Told
  <2>7. row[i].status \in {"PENDING", "DONE"}
    BY <1>1, <2>1 DEF Row
  <2> QED BY <2>5, <2>6, <2>7
<1>7. ASSUME NEW s \in Passes, MarkFailed(s)
      PROVE  UNCHANGED <<Box, OnServer, Told>>
  <2>1. \A k \in Items : row'[k].status = row[k].status
    BY <1>1, <1>7 DEF MarkFailed, Row
  <2> QED BY <1>7, <2>1 DEF MarkFailed, Box, OnServer, Told
<1>8. CASE Kill
  <2>1. Told' = Told
    BY <1>1, <1>8 DEF Kill, Told
  <2> QED BY <1>8, <2>1 DEF Kill, Box, OnServer
<1>9. CASE \/ \E s \in Passes : \/ StartSync(s) \/ NextTable(s)
                                \/ UpdateLocally(s) \/ MarkThrows(s)
           \/ Refresh \/ UNCHANGED vars
  <2>1. UNCHANGED <<row, served, screen>>
    BY <1>9 DEF StartSync, NextTable, UpdateLocally, MarkThrows, Refresh,
                RefreshFetch, RefreshCheck, RefreshCommit, vars, device
  <2> QED BY <2>1 DEF Box, OnServer, Told
<1> QED
  BY <1>2, <1>3, <1>4, <1>5, <1>6, <1>7, <1>8, <1>9
  DEF Next, ScreenStep, PassStep, Promise!Next

\* The offline queue, whatever passes overlap, calls are lost or kills come, is
\* an at-least-once outbox to the officer.
THEOREM QueueIsOutbox == Spec => ImplementsOutbox
<1>1. Init => Promise!Init
  BY DEF Init, Promise!Init, NoRow
<1>2. OfflineInv /\ [Next]_vars => [Promise!Next]_<<Box, OnServer, Told>>
  BY StepKeepsPromise
<1> QED BY <1>1, <1>2, InvHolds, PTL
        DEF Spec, ImplementsOutbox, Promise!Spec, Box, OnServer, Told

\* The outbox keeps its word by itself: what the officer was told is in the box,
\* or taken by the server.  What the server does with it is not in the outbox.
THEOREM OutboxKeepsWord == Promise!Spec => [](\A i \in Told : Promise!Safe(i))
<1> DEFINE Word == \A i \in Told : Promise!Safe(i)
<1>1. Promise!Init => Word
  BY DEF Promise!Init, Told
<1>2. ASSUME Word, [Promise!Next]_<<Box, OnServer, Told>>
      PROVE  Word'
  <2>1. ASSUME NEW i \in Items, NEW k \in Items, Promise!Safe(k),
               Promise!Keep(i) \/ Promise!Take(i) \/ Promise!Drop(i) \/ Promise!Tell(i)
        PROVE  Promise!Safe(k)'
    BY <2>1 DEF Promise!Keep, Promise!Take, Promise!Drop, Promise!Tell,
                Promise!Safe
  <2>2. ASSUME NEW i \in Items,
               Promise!Keep(i) \/ Promise!Take(i) \/ Promise!Drop(i) \/ Promise!Tell(i)
        PROVE  \A k \in Told' : k \in Told \/ Promise!Safe(k)'
    BY <2>2, <2>1 DEF Promise!Keep, Promise!Take, Promise!Drop, Promise!Tell,
                Promise!Safe, Told
  <2>3. CASE UNCHANGED <<Box, OnServer, Told>>
    BY <1>2, <2>3 DEF Promise!Safe, Box, OnServer, Told
  <2>4. \A k \in Told : k \in Items
    BY DEF Told
  <2> QED BY <1>2, <2>1, <2>2, <2>3, <2>4 DEF Promise!Next
<1> QED BY <1>1, <1>2, PTL DEF Promise!Spec, Box, OnServer, Told
-----------------------------------------------------------------------------
(* What of PassEnds needs no fairness: a pass that has begun can always go  *)
(* on, and the steps it has left become fewer with each of its steps and    *)
(* never more by anybody else's.                                            *)

StageRank(stage) == CASE stage = "submission" -> 3
                      [] stage = "outcome"    -> 2
                      [] stage = "report"     -> 1
                      [] stage = "idle"       -> 0
SentRank(sent) == CASE sent = "no"       -> 0
                    [] sent = "marked"   -> 1
                    [] sent = "answered" -> 2
                    [] sent = "failed"   -> 2

\* A bound on the steps of a pass: each table costs a step to leave and three
\* for each row it may hold.
Table == 3 * Cardinality(Items) + 4
StepsOf(p) == Table * StageRank(p.stage) + 3 * Cardinality(p.todo) + SentRank(p.sent)
StepsLeft(s) == StepsOf(pass[s])

\* The guard of some step of the pass holds.
CanGoOn(s) ==
    LET p == pass[s]
    IN  \/ p.stage # "idle" /\ p.todo = {} /\ p.sent = "no"
        \/ p.sent = "no" /\ \E i \in p.todo : First(i, p.todo)
        \/ p.sent \in {"answered", "failed"} /\ RowMarkable(KindOf[p.hand])
        \/ p.sent \in {"answered", "failed"} /\ ~RowMarkable(KindOf[p.hand])
        \/ p.sent = "marked"

LEMMA StepsAreNat ==
  ASSUME NEW p \in Pass
  PROVE  /\ StepsOf(p) \in Nat
         /\ Table \in Nat /\ Table > 3 * Cardinality(Items)
         /\ StageRank(p.stage) \in 0 .. 3
         /\ SentRank(p.sent) \in 0 .. 2
         /\ Cardinality(p.todo) \in Nat
         /\ Cardinality(p.todo) <= Cardinality(Items)
<1>1. p.todo \in SUBSET Items /\ IsFiniteSet(p.todo)
  BY OfflineAssumption, FS_Subset DEF Pass
<1>2. /\ Cardinality(p.todo) \in Nat /\ Cardinality(Items) \in Nat
      /\ Cardinality(p.todo) <= Cardinality(Items)
  BY <1>1, OfflineAssumption, FS_CardinalityType, FS_Subset
<1>3. StageRank(p.stage) \in 0 .. 3
  BY DEF StageRank, Pass, Kinds
<1>4. SentRank(p.sent) \in 0 .. 2
  BY DEF SentRank, Pass
<1>5. Table \in Nat /\ Table > 3 * Cardinality(Items)
  BY <1>2 DEF Table
<1>6. Table * StageRank(p.stage) \in Nat
  BY <1>3, <1>5, Products
<1> QED BY <1>2, <1>3, <1>4, <1>5, <1>6 DEF StepsOf

\* Within a table: fewer rows to send, or the same and the hand nearer to empty.
LEMMA FewerInTable ==
  ASSUME NEW p \in Pass, NEW q \in Pass, q.stage = p.stage,
         \/ q.todo = p.todo /\ SentRank(q.sent) < SentRank(p.sent)
         \/ \E i \in p.todo : q.todo = p.todo \ {i} /\ p.sent = "no"
  PROVE  StepsOf(q) < StepsOf(p)
<1>1. /\ IsFiniteSet(p.todo)
      /\ Cardinality(p.todo) \in Nat /\ Cardinality(q.todo) \in Nat
      /\ SentRank(p.sent) \in 0 .. 2 /\ SentRank(q.sent) \in 0 .. 2
      /\ StageRank(p.stage) \in Nat /\ Table \in Nat
  <2>1. p.todo \in SUBSET Items
    BY DEF Pass
  <2> QED BY <2>1, StepsAreNat, OfflineAssumption, FS_Subset
<1>2. Table * StageRank(p.stage) \in Nat
  BY <1>1, Products
<1>3. CASE q.todo = p.todo /\ SentRank(q.sent) < SentRank(p.sent)
  BY <1>1, <1>2, <1>3 DEF StepsOf
<1>4. CASE \E i \in p.todo : q.todo = p.todo \ {i} /\ p.sent = "no"
  <2>1. Cardinality(q.todo) = Cardinality(p.todo) - 1
    BY <1>1, <1>4, FS_RemoveElement
  <2> QED BY <1>1, <1>2, <2>1 DEF StepsOf
<1> QED BY <1>3, <1>4

\* Into a later table, whatever it holds.
LEMMA FewerInNextTable ==
  ASSUME NEW p \in Pass, NEW q \in Pass, q.sent = "no",
         StageRank(q.stage) < StageRank(p.stage)
  PROVE  StepsOf(q) < StepsOf(p)
<1> DEFINE a == StageRank(p.stage)  b == StageRank(q.stage)
<1>1. /\ a \in 0 .. 3 /\ b \in 0 .. 3 /\ Table \in Nat
      /\ Table > 3 * Cardinality(q.todo)
      /\ Cardinality(p.todo) \in Nat /\ Cardinality(q.todo) \in Nat
      /\ SentRank(p.sent) \in 0 .. 2 /\ SentRank(q.sent) = 0
  <2>1. Cardinality(Items) \in Nat
    BY OfflineAssumption, FS_CardinalityType
  <2>2. SentRank(q.sent) = 0
    BY DEF SentRank
  <2>3. /\ Cardinality(q.todo) \in Nat /\ Cardinality(q.todo) <= Cardinality(Items)
        /\ Cardinality(p.todo) \in Nat /\ SentRank(p.sent) \in 0 .. 2
        /\ Table \in Nat /\ Table > 3 * Cardinality(Items)
    BY StepsAreNat
  <2>4. a \in 0 .. 3 /\ b \in 0 .. 3
    BY StepsAreNat
  <2> QED BY <2>1, <2>2, <2>3, <2>4
<1> HIDE DEF a, b
<1>2. Table * a >= Table * b + Table
  <2>1. a \in {b + 1, b + 2, b + 3} /\ b \in Nat
    <3>1. b < a
      BY DEF a, b
    <3> QED BY <1>1, <3>1
  <2>2. Table * (b + 1) = Table * b + Table /\ Table * b \in Nat
    BY <1>1, Products
  <2>3. CASE a = b + 1
    BY <1>1, <2>1, <2>2, <2>3
  <2>4. Table * (b + 2) = Table * b + Table + Table
    BY <1>1, <2>2
  <2>5. CASE a = b + 2
    BY <1>1, <2>1, <2>2, <2>4, <2>5
  <2>6. Table * (b + 3) = Table * b + Table + Table + Table
    BY <1>1, <2>2
  <2>7. CASE a = b + 3
    BY <1>1, <2>1, <2>2, <2>6, <2>7
  <2> QED BY <2>1, <2>3, <2>5, <2>7
<1>3. Table * a \in Nat /\ Table * b \in Nat
  BY <1>1, Products
<1>4. Table * b + 3 * Cardinality(q.todo) < Table * a + 3 * Cardinality(p.todo) + SentRank(p.sent)
  BY <1>1, <1>2, <1>3
<1> QED BY <1>1, <1>3, <1>4 DEF StepsOf, a, b

\* A pass that is idle holds nothing.
IdleInv == \A s \in Passes : pass[s].stage = "idle" => pass[s] = Asleep

LEMMA StageMoves ==
  ASSUME TypeOK, [Next]_vars, NEW s \in Passes
  PROVE  \/ pass'[s] = pass[s]
         \/ pass'[s] = Asleep
         \/ pass'[s].stage # "idle" /\ (StartSync(s) \/ NextTable(s))
         \/ /\ pass'[s].stage = pass[s].stage
            /\ Send(s) \/ MarkDone(s) \/ UpdateLocally(s) \/ MarkFailed(s)
<1>1. pass[s] \in Pass
  BY DEF TypeOK
<1>2. ASSUME NEW t \in Passes, NEW kind \in Kinds, Enter(t, kind)
      PROVE  /\ t # s => pass'[s] = pass[s]
             /\ t = s => pass'[s].stage # "idle"
  BY <1>2 DEF Enter, TypeOK, Kinds
<1>3. ASSUME NEW t \in Passes, StartSync(t) \/ NextTable(t)
      PROVE  \/ pass'[s] = pass[s]
             \/ pass'[s] = Asleep
             \/ pass'[s].stage # "idle" /\ t = s
  <2>1. CASE StartSync(t)
    BY <1>2, <2>1 DEF StartSync, Kinds
  <2>2. CASE NextTable(t) /\ pass' = [pass EXCEPT ![t] = Asleep]
    BY <2>2 DEF TypeOK
  <2>3. CASE NextTable(t) /\ NextStage(pass[t].stage) # "idle"
    <3>1. pass[t].stage \in Kinds
      BY <2>3 DEF NextTable, TypeOK, Pass
    <3>2. NextStage(pass[t].stage) \in Kinds
      BY <2>3, <3>1 DEF NextStage, Kinds
    <3>3. Enter(t, NextStage(pass[t].stage))
      BY <2>3 DEF NextTable
    <3> QED BY <1>2, <3>2, <3>3
  <2> QED BY <1>3, <2>1, <2>2, <2>3 DEF NextTable
<1>4. ASSUME NEW t \in Passes,
             Send(t) \/ MarkDone(t) \/ UpdateLocally(t) \/ MarkFailed(t)
      PROVE  \/ pass'[s] = pass[s]
             \/ pass'[s].stage = pass[s].stage /\ t = s
  <2>1. CASE Send(t)
    <3>1. PICK i \in pass[t].todo, answered \in BOOLEAN :
            pass' = [pass EXCEPT ![t] = InHand(@, i, answered)]
      BY <2>1 DEF Send
    <3>2. t = s => pass'[s] = InHand(pass[s], i, answered)
      BY <3>1 DEF TypeOK
    <3>3. t # s => pass'[s] = pass[s]
      BY <3>1 DEF TypeOK
    <3> QED BY <1>1, <3>2, <3>3 DEF InHand, Pass
  <2>2. CASE MarkDone(t)
    BY <1>1, <2>2 DEF MarkDone, TypeOK, Pass
  <2>3. CASE UpdateLocally(t) \/ MarkFailed(t)
    <3>1. pass' = [pass EXCEPT ![t] = Advance(@)]
      BY <2>3 DEF UpdateLocally, MarkFailed
    <3>2. pass'[s] = IF t = s THEN Advance(pass[s]) ELSE pass[s]
      BY <3>1 DEF TypeOK
    <3> QED BY <1>1, <3>2 DEF Advance, Pass
  <2> QED BY <1>4, <2>1, <2>2, <2>3
<1>5. ASSUME \E t \in Passes : MarkThrows(t)
      PROVE  pass'[s] \in {pass[s], Asleep}
  BY <1>5 DEF MarkThrows, TypeOK
<1>6. CASE Kill
  BY <1>6 DEF Kill
<1>7. CASE ScreenStep \/ Refresh \/ UNCHANGED vars
  BY <1>7 DEF ScreenStep, ScreenCalls, ScreenQueues, ScreenUpdatesLocally,
              ScreenConfirms, Refresh, RefreshFetch, RefreshCheck,
              RefreshCommit, vars
<1> QED BY <1>3, <1>4, <1>5, <1>6, <1>7 DEF Next, PassStep

LEMMA IdleStepInv == TypeOK /\ IdleInv /\ [Next]_vars => IdleInv'
<1> SUFFICES ASSUME TypeOK, IdleInv, [Next]_vars, NEW s \in Passes,
                    pass'[s].stage = "idle", pass'[s] # Asleep
             PROVE  FALSE
  BY DEF IdleInv
<1>1. /\ pass[s] = Asleep
      /\ Send(s) \/ MarkDone(s) \/ UpdateLocally(s) \/ MarkFailed(s)
  BY StageMoves DEF IdleInv
<1> QED BY <1>1 DEF Asleep, Send, MarkDone, UpdateLocally, MarkFailed

LEMMA StepShrinks ==
  ASSUME TypeOK, IdleInv, [Next]_vars, NEW s \in Passes, PassStep(s)
  PROVE  StepsLeft(s)' < StepsLeft(s)
<1> DEFINE p == pass[s]  q == pass'[s]
<1>1. p \in Pass /\ q \in Pass /\ TypeOK'
  BY TypeStep DEF TypeOK
<1>2. CASE NextTable(s)
  <2>1. p.stage \in Kinds /\ p.stage # "idle"
    BY <1>1, <1>2 DEF NextTable, Pass
  <2>2. q.stage = NextStage(p.stage) /\ q.sent = "no"
    <3>1. CASE NextStage(p.stage) = "idle"
      BY <1>2, <3>1 DEF NextTable, TypeOK, Asleep
    <3>2. CASE Enter(s, NextStage(p.stage))
      BY <3>2 DEF Enter, TypeOK
    <3> QED BY <1>2, <3>1, <3>2 DEF NextTable
  <2>3. StageRank(q.stage) < StageRank(p.stage)
    BY <2>1, <2>2 DEF NextStage, StageRank, Kinds
  <2> HIDE DEF p, q
  <2>4. StepsOf(q) < StepsOf(p)
    BY <1>1, <2>2, <2>3, FewerInNextTable
  <2> QED BY <2>4 DEF StepsLeft, p, q
<1>3. CASE Send(s)
  <2>1. PICK i \in p.todo, answered \in BOOLEAN :
          pass' = [pass EXCEPT ![s] = InHand(@, i, answered)]
    BY <1>3 DEF Send
  <2>2. q = InHand(p, i, answered)
    BY <2>1 DEF TypeOK
  <2>3. q.stage = p.stage /\ q.todo = p.todo \ {i} /\ p.sent = "no"
    BY <1>1, <1>3, <2>2 DEF InHand, Pass, Send
  <2> HIDE DEF p, q
  <2>4. StepsOf(q) < StepsOf(p)
    BY <1>1, <2>1, <2>3, FewerInTable
  <2> QED BY <2>4 DEF StepsLeft, p, q
<1>4. CASE MarkDone(s)
  <2>1. /\ q.stage = p.stage /\ q.todo = p.todo
        /\ p.sent = "answered" /\ q.sent = "marked"
    BY <1>1, <1>4 DEF MarkDone, TypeOK, Pass
  <2>2. SentRank(q.sent) < SentRank(p.sent)
    BY <2>1 DEF SentRank
  <2> HIDE DEF p, q
  <2>3. StepsOf(q) < StepsOf(p)
    BY <1>1, <2>1, <2>2, FewerInTable
  <2> QED BY <2>3 DEF StepsLeft, p, q
<1>5. CASE UpdateLocally(s) \/ MarkFailed(s)
  <2>1. q = Advance(p) /\ p.sent \in {"marked", "failed"}
    BY <1>5 DEF UpdateLocally, MarkFailed, TypeOK
  <2>2. q.stage = p.stage /\ q.todo = p.todo /\ q.sent = "no"
    BY <1>1, <2>1 DEF Advance, Pass
  <2>3. SentRank(q.sent) < SentRank(p.sent)
    BY <2>1, <2>2 DEF SentRank
  <2> HIDE DEF p, q
  <2>4. StepsOf(q) < StepsOf(p)
    BY <1>1, <2>2, <2>3, FewerInTable
  <2> QED BY <2>4 DEF StepsLeft, p, q
<1>6. CASE MarkThrows(s)
  <2>1. q = Asleep
    BY <1>6 DEF MarkThrows, TypeOK
  <2>2. p.stage # "idle" /\ StageRank(p.stage) > 0
    BY <1>1, <1>6 DEF MarkThrows, IdleInv, Asleep, StageRank, Pass, Kinds
  <2>3. q.sent = "no" /\ StageRank(q.stage) = 0
    BY <2>1 DEF Asleep, StageRank
  <2> QED BY <1>1, <2>2, <2>3, FewerInNextTable DEF StepsLeft
<1> QED BY <1>2, <1>3, <1>4, <1>5, <1>6 DEF PassStep

\* Only its own steps and a kill touch a pass: one that grows has just begun.
LEMMA GrowsIfBegun ==
  ASSUME TypeOK, IdleInv, [Next]_vars, NEW s \in Passes,
         StepsLeft(s)' > StepsLeft(s)
  PROVE  StartSync(s)
<1>1. pass[s] \in Pass /\ pass'[s] \in Pass
  BY TypeStep DEF TypeOK
<1>2. StepsLeft(s) \in Nat /\ StepsLeft(s)' \in Nat
  BY <1>1, StepsAreNat DEF StepsLeft
<1>3. ~PassStep(s)
  BY <1>2, StepShrinks
<1>4. pass'[s] # pass[s]
  BY <1>2 DEF StepsLeft
<1>5. CASE pass'[s] = Asleep
  <2>1. StepsOf(Asleep) = 0
    <3>1. StageRank("idle") = 0 /\ SentRank("no") = 0 /\ Cardinality({}) = 0
      BY FS_EmptySet DEF StageRank, SentRank
    <3>2. Table \in Nat
      BY <1>1, StepsAreNat
    <3> QED BY <3>1, <3>2 DEF StepsOf, Asleep
  <2> QED BY <1>2, <1>5, <2>1 DEF StepsLeft
<1>6. CASE \/ pass'[s].stage # "idle" /\ (StartSync(s) \/ NextTable(s))
           \/ Send(s) \/ MarkDone(s) \/ UpdateLocally(s) \/ MarkFailed(s)
  BY <1>3, <1>6 DEF PassStep
<1> QED BY <1>4, <1>5, <1>6, StageMoves

\* Some row of a nonempty table comes first in created_at.
LEMMA FirstExists ==
  ASSUME TypeOK, NEW todo \in SUBSET Items, todo # {}
  PROVE  \E i \in todo : First(i, todo)
<1> DEFINE places == {row[i].place : i \in todo}
           less   == OpToRel(<, Nat)
<1>1. places \subseteq Nat /\ places # {}
  BY DEF TypeOK, Row
<1>2. IsWellFoundedOn(less, Nat)
  BY NatLessThanWellFounded
<1>3. \A m, n \in Nat : m < n => <<m, n>> \in less
  BY DEF OpToRel
<1> HIDE DEF places, less
<1>4. PICK n \in places : \A m \in places : ~(<<m, n>> \in less)
  BY <1>1, <1>2, WFMin
<1>5. ASSUME NEW m \in places PROVE n <= m
  <2>1. m \in Nat /\ n \in Nat
    BY <1>1
  <2>2. ~(m < n)
    BY <1>3, <1>4, <2>1
  <2> QED BY <2>1, <2>2
<1> QED BY <1>4, <1>5 DEF places, First

\* Whoever runs beside it, a pass that has begun can take a step, each step it
\* takes leaves it fewer, and only beginning again gives it more: a pass is as
\* long as what it read, whatever rows are queued behind it, and neither a row
\* that fails every time nor a report row that throws can hold it up.
THEOREM PassStepsRunOut ==
  Spec => /\ [](\A s \in Passes : /\ StepsLeft(s) \in Nat
                                  /\ pass[s].stage # "idle" => CanGoOn(s))
          /\ [][\A s \in Passes : /\ PassStep(s) => StepsLeft(s)' < StepsLeft(s)
                                  /\ StepsLeft(s)' > StepsLeft(s) => StartSync(s)]_vars
<1> DEFINE Live == \A s \in Passes : /\ StepsLeft(s) \in Nat
                                     /\ pass[s].stage # "idle" => CanGoOn(s)
           Shrink == \A s \in Passes :
                       /\ PassStep(s) => StepsLeft(s)' < StepsLeft(s)
                       /\ StepsLeft(s)' > StepsLeft(s) => StartSync(s)
<1>1. Init => IdleInv
  BY DEF Init, IdleInv
<1>2. TypeOK /\ IdleInv /\ [Next]_vars => IdleInv'
  BY IdleStepInv
<1>3. TypeOK => Live
  <2> SUFFICES ASSUME TypeOK, NEW s \in Passes
               PROVE  StepsLeft(s) \in Nat /\ (pass[s].stage # "idle" => CanGoOn(s))
    OBVIOUS
  <2>1. pass[s] \in Pass
    BY DEF TypeOK
  <2>2. pass[s].todo \in SUBSET Items
    BY <2>1 DEF Pass
  <2>3. pass[s].todo # {} => \E i \in pass[s].todo : First(i, pass[s].todo)
    BY <2>2, FirstExists
  <2>4. pass[s].sent \in {"no", "answered", "failed", "marked"}
    BY <2>1 DEF Pass
  <2> QED BY <2>1, <2>3, <2>4, StepsAreNat DEF StepsLeft, CanGoOn
<1>4. TypeOK /\ IdleInv /\ [Next]_vars => Shrink
  BY StepShrinks, GrowsIfBegun
<1>5. TypeOK /\ IdleInv /\ [Next]_vars => [Shrink]_vars
  BY <1>4
<1>6. Spec => []IdleInv
  BY <1>1, <1>2, TypeCorrect, PTL DEF Spec
<1>7. Spec => []Live
  BY <1>3, TypeCorrect, PTL
<1>8. Spec => [][Shrink]_vars
  BY <1>5, <1>6, TypeCorrect, PTL DEF Spec
<1> QED BY <1>7, <1>8
=============================================================================
