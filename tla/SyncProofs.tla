----------------------------- MODULE SyncProofs -----------------------------
(***************************************************************************)
(* Proofs about SyncGateway, for any requests, batches, pool and clock.    *)
(***************************************************************************)
EXTENDS SyncGateway, FiniteSetTheorems, SequenceTheorems, TLAPS

\* The action in hand is one of the batch.
LEMMA HandIsAction ==
  ASSUME TypeOK, NEW p \in Pushes, Open(p)
  PROVE  /\ At(p) \in DOMAIN Batch[p]
         /\ At(p) = Len(tx[p].answers) + 1
         /\ Now(p) \in Actions /\ Here(p) \in Rows
         /\ Here(p) = TargetOf(p, At(p))
<1>1. tx[p].answers \in Seq(Statuses) /\ Batch[p] \in Seq(Actions)
  BY SyncAssumption DEF TypeOK, Tx
<1>2. Len(tx[p].answers) \in Nat /\ Len(Batch[p]) \in Nat
  BY <1>1
<1>3. At(p) \in 1 .. Len(Batch[p])
  BY <1>2 DEF Open, At
<1> QED BY <1>1, <1>3, SyncAssumption DEF Now, Here, Action, TargetOf, At

\* An answer more.
LEMMA AnswerIs ==
  ASSUME TypeOK, NEW p \in Pushes, NEW s \in Statuses
  PROVE  /\ Answer(p, s) \in Tx
         /\ Answer(p, s).answers = Append(tx[p].answers, s)
         /\ Answer(p, s).looked = FALSE
         /\ Answer(p, s).hand = tx[p].hand
         /\ Answer(p, s).began = tx[p].began
         /\ Answer(p, s).base = tx[p].base
         /\ Answer(p, s).doomed = tx[p].doomed
         /\ Answer(p, s).outcome = tx[p].outcome
<1>1. tx[p] \in Tx
  BY DEF TypeOK
<1>2. Append(tx[p].answers, s) \in Seq(Statuses)
  <2>1. tx[p].answers \in Seq(Statuses)
    BY <1>1 DEF Tx
  <2> QED BY <2>1
<1> QED BY <1>1, <1>2 DEF Answer, Tx

\* What a statement can make of the transaction of p.
Looks(p) == /\ ToLook(p) /\ UpdatedAt(p, Here(p)) <= Taken[Now(p)]
            /\ tx' = [tx EXCEPT ![p] = [tx[p] EXCEPT !.looked = TRUE]]
Tells(p) == \E s \in Statuses :
              /\ s = "APPLIED" => Fate[Now(p)] = "void"
              /\ tx' = [tx EXCEPT ![p] = Answer(p, s)]
Dooms(p) == tx' = [tx EXCEPT ![p] = Doom(p)]
Writes(p) == /\ ToWrite(p) /\ ~Locked(p, Here(p)) /\ Fate[Now(p)] = "sound"
             /\ tx' = [tx EXCEPT ![p] = [Answer(p, "APPLIED")
                                           EXCEPT !.hand = @ \cup {At(p)}]]
Moves(p) == /\ Open(p)
            /\ Looks(p) \/ Tells(p) \/ Dooms(p) \/ Writes(p)
            /\ UNCHANGED <<clock, row, request, updates, faults>>

LEMMA TimesAreNat ==
  ASSUME TypeOK, NEW p \in Pushes, NEW x \in Rows
  PROVE  UpdatedAt(p, x) \in Nat
BY DEF UpdatedAt, TypeOK, Tx

LEMMA StatementsMove ==
  ASSUME TypeOK, NEW p \in Pushes, Queue(p) \/ Look(p) \/ Write(p) \/ Victim(p)
  PROVE  Moves(p)
<1>1. CASE Queue(p)
  BY <1>1 DEF Queue, Moves, Tells, Dooms, Statuses
<1>2. CASE Look(p)
  <2>1. Open(p)
    BY <1>2 DEF Look, ToLook
  <2>2. /\ UpdatedAt(p, Here(p)) \in Nat
        /\ Taken[Now(p)] \in Nat
    BY <2>1, HandIsAction, TimesAreNat, SyncAssumption
  <2>3. CASE UpdatedAt(p, Here(p)) > Taken[Now(p)]
    BY <1>2, <2>1, <2>3 DEF Look, Moves, Tells, Statuses
  <2>4. CASE ~(UpdatedAt(p, Here(p)) > Taken[Now(p)])
    <3>1. /\ tx' = [tx EXCEPT ![p] = [tx[p] EXCEPT !.looked = TRUE]]
          /\ UNCHANGED <<clock, row, request, updates, faults>>
          /\ ToLook(p)
      BY <1>2, <2>4 DEF Look
    <3>2. UpdatedAt(p, Here(p)) <= Taken[Now(p)]
      BY <2>2, <2>4
    <3> QED BY <2>1, <3>1, <3>2 DEF Moves, Looks
  <2> QED BY <2>3, <2>4
<1>3. CASE Write(p)
  <2>1. CASE Fate[Now(p)] = "void"
    BY <1>3, <2>1 DEF Write, ToWrite, Moves, Tells, Statuses
  <2>2. CASE Fate[Now(p)] = "broken"
    BY <1>3, <2>2 DEF Write, ToWrite, Moves, Dooms
  <2>3. CASE Fate[Now(p)] = "sound"
    BY <1>3, <2>3 DEF Write, ToWrite, Moves, Writes
  <2> QED BY <1>3, <2>1, <2>2, <2>3 DEF Write
<1>4. CASE Victim(p)
  BY <1>4 DEF Victim, InCircle, WaitsFor, ToWrite, Moves, Dooms
<1> QED BY <1>1, <1>2, <1>3, <1>4
-----------------------------------------------------------------------------
LEMMA TypeStep == TypeOK /\ [Next]_vars => TypeOK'
<1> SUFFICES ASSUME TypeOK, [Next]_vars
             PROVE  TypeOK'
  OBVIOUS
<1> USE SyncAssumption
<1>1. ASSUME NEW p \in Pushes, Moves(p)
      PROVE  TypeOK'
  <2> SUFFICES tx' \in [Pushes -> Tx]
    BY <1>1 DEF Moves, TypeOK
  <2>1. CASE Looks(p)
    BY <2>1, ZenonT(40) DEF Looks, TypeOK, Tx
  <2>2. CASE Tells(p)
    <3>1. PICK s \in Statuses : tx' = [tx EXCEPT ![p] = Answer(p, s)]
      BY <2>2 DEF Tells
    <3>2. Answer(p, s) \in Tx
      BY AnswerIs
    <3> QED BY <3>1, <3>2 DEF TypeOK
  <2>3. CASE Dooms(p)
    <3>1. Answer(p, "REJECTED") \in Tx
      BY AnswerIs DEF Statuses
    <3>2. Doom(p) \in Tx
      BY <3>1 DEF Doom, Tx
    <3> QED BY <2>3, <3>2 DEF Dooms, TypeOK
  <2>4. CASE Writes(p)
    <3>1. Answer(p, "APPLIED") \in Tx
      BY AnswerIs DEF Statuses
    <3>2. At(p) \in Nat
      BY <1>1, HandIsAction, DOMAIN Batch[p] \subseteq Nat DEF Moves
    <3>3. [Answer(p, "APPLIED") EXCEPT !.hand = @ \cup {At(p)}] \in Tx
      BY <3>1, <3>2 DEF Tx
    <3> QED BY <2>4, <3>3 DEF Writes, TypeOK
  <2> QED BY <1>1, <2>1, <2>2, <2>3, <2>4 DEF Moves
<1>2. ASSUME NEW p \in Pushes, Commit(p) \/ CommitDoomed(p) \/ CommitLost(p)
      PROVE  TypeOK'
  <2>1. tx' \in [Pushes -> Tx]
    <3>1. PICK o \in {"committed", "rolled back", "lost"} :
            tx' = [tx EXCEPT ![p] = [tx[p] EXCEPT !.outcome = o]]
      BY <1>2 DEF Commit, CommitDoomed, CommitLost
    <3>2. [tx[p] EXCEPT !.outcome = o] \in Tx
      BY DEF TypeOK, Tx
    <3> QED BY <3>1, <3>2 DEF TypeOK
  <2>2. request' = [request EXCEPT ![p] = "answered"] /\ clock' = clock /\ updates' = updates
    BY <1>2 DEF Commit, CommitDoomed, CommitLost
  <2>3. request' \in [Requests -> {"waiting", "running", "answered", "gone"}]
    BY <2>2 DEF TypeOK
  <2>4. faults' \in Nat
    <3>1. faults' = faults \/ faults' = faults + 1
      BY <1>2 DEF Commit, CommitDoomed, CommitLost
    <3> QED BY <3>1 DEF TypeOK
  <2>5. row' \in [Rows -> [at : Nat, rev : Nat]]
    <3>1. CASE Commit(p)
      <4>1. tx[p].began \in Nat /\ \A x \in Rows : row[x] \in [at : Nat, rev : Nat]
        BY DEF TypeOK, Tx
      <4>2. \A x \in Rows : [at |-> tx[p].began, rev |-> row[x].rev + 1]
                                \in [at : Nat, rev : Nat]
        BY <4>1
      <4> QED BY <3>1, <4>1, <4>2 DEF Commit
    <3> QED BY <1>2, <3>1 DEF CommitDoomed, CommitLost, TypeOK
  <2> QED BY <2>1, <2>2, <2>3, <2>4, <2>5 DEF TypeOK
<1>3. ASSUME NEW r \in Requests, Begin(r)
      PROVE  TypeOK'
  <2>1. tx' \in [Pushes -> Tx]
    BY <1>3, ZenonT(40) DEF Begin, TypeOK, Tx
  <2> QED BY <1>3, <2>1 DEF Begin, TypeOK
<1>4. ASSUME NEW r \in Requests, BeginFails(r) \/ Pull(r)
      PROVE  TypeOK'
  <2>1. \E s \in {"gone", "answered"} : request' = [request EXCEPT ![r] = s]
    BY <1>4 DEF BeginFails, Pull
  <2>2. faults' \in Nat /\ UNCHANGED <<clock, row, tx, updates>>
    BY <1>4 DEF BeginFails, Pull, TypeOK
  <2> QED BY <2>1, <2>2 DEF TypeOK
<1>5. ASSUME NEW x \in Jobs, UpdateStatus(x)
      PROVE  TypeOK'
  BY <1>5 DEF UpdateStatus, TypeOK
<1>6. CASE Tick \/ Die \/ UNCHANGED vars
  BY <1>6 DEF Tick, Die, vars, TypeOK
<1> QED
  BY <1>1, <1>2, <1>3, <1>4, <1>5, <1>6, StatementsMove
     DEF Next, PushStep, Requests

\* TypeOK: a push answers with the three statuses the route documents, and
\* every row and transaction has the values its place in the code allows.
THEOREM TypeCorrect == Spec => []TypeOK
<1>1. Init => TypeOK
  BY SyncAssumption DEF Init, TypeOK, Tx, Unbegun
<1> QED BY <1>1, TypeStep, PTL DEF Spec
-----------------------------------------------------------------------------
(***************************************************************************)
(* What the answers of a push say.  The answers given so far and the       *)
(* actions written so far tell the same story, a doomed transaction has    *)
(* rejected something, and a push is answered when every action is.        *)
(***************************************************************************)
Awaiting == \A p \in Pushes : request[p] = "waiting" => tx[p] = Unbegun

TrueSoFar(p, a, hand, doomed) ==
    /\ Len(a) <= Len(Batch[p])
    /\ \A i \in hand : i \in DOMAIN a /\ a[i] = "APPLIED"
    /\ \A i \in DOMAIN a :
          a[i] = "APPLIED" /\ Fate[Action(p, i)] # "void" => i \in hand
    /\ doomed => \E k \in DOMAIN a : a[k] = "REJECTED"

Told == \A p \in Pushes : TrueSoFar(p, tx[p].answers, tx[p].hand, tx[p].doomed)

Ended ==
    \A p \in Pushes :
      /\ request[p] = "answered" => /\ Len(tx[p].answers) = Len(Batch[p])
                                    /\ tx[p].outcome # "open"
      /\ tx[p].outcome = "rolled back" => tx[p].doomed

ToldInv == TypeOK /\ Awaiting /\ Told /\ Ended

LEMMA UnbegunIs ==
  /\ Unbegun.hand = {} /\ Unbegun.doomed = FALSE /\ Unbegun.looked = FALSE
  /\ Unbegun.answers = <<>> /\ Unbegun.outcome = "open"
BY DEF Unbegun

LEMMA ToldInit == Init => ToldInv
<1> SUFFICES ASSUME Init PROVE ToldInv
  OBVIOUS
<1>1. TypeOK
  BY SyncAssumption DEF Init, TypeOK, Tx, Unbegun
<1>2. \A p \in Pushes : tx[p] = Unbegun /\ request[p] = "waiting"
  BY DEF Init, Requests
<1>3. \A p \in Pushes : Len(Batch[p]) \in Nat
  BY SyncAssumption
<1>4. \A p \in Pushes : /\ tx[p].hand = {} /\ ~tx[p].doomed
                         /\ tx[p].answers = <<>> /\ tx[p].outcome = "open"
  BY <1>2, UnbegunIs
<1>5. Told
  <2>1. Len(<<>>) = 0 /\ DOMAIN <<>> = {}
    OBVIOUS
  <2> QED BY <1>3, <1>4, <2>1 DEF Told, TrueSoFar
<1>6. Awaiting /\ Ended
  BY <1>2, <1>4 DEF Awaiting, Ended
<1> QED BY <1>1, <1>5, <1>6 DEF ToldInv

\* What a statement leaves of the transactions: all but p's, and p's answers.
LEMMA MovesChanges ==
  ASSUME TypeOK, NEW p \in Pushes, Moves(p)
  PROVE  /\ \A q \in Pushes \ {p} : tx'[q] = tx[q]
         /\ tx'[p].outcome = tx[p].outcome
         /\ tx'[p].began = tx[p].began /\ tx'[p].base = tx[p].base
         /\ \/ /\ tx'[p].answers = tx[p].answers /\ tx'[p].hand = tx[p].hand
               /\ tx'[p].doomed = tx[p].doomed /\ tx'[p].looked /\ Looks(p)
            \/ \E s \in Statuses :
                 /\ tx'[p].answers = Append(tx[p].answers, s) /\ ~tx'[p].looked
                 /\ \/ /\ tx'[p].hand = tx[p].hand /\ tx'[p].doomed = tx[p].doomed
                       /\ s = "APPLIED" => Fate[Now(p)] = "void"
                    \/ /\ tx'[p].hand = tx[p].hand /\ tx'[p].doomed
                       /\ s = "REJECTED"
                    \/ /\ tx'[p].hand = tx[p].hand \cup {At(p)}
                       /\ tx'[p].doomed = tx[p].doomed
                       /\ s = "APPLIED" /\ Writes(p)
<1>1. tx[p] \in Tx
  BY DEF TypeOK
<1>2. CASE Looks(p)
  BY <1>1, <1>2 DEF Looks, TypeOK, Tx
<1>3. CASE Tells(p)
  <2>1. PICK s \in Statuses : /\ s = "APPLIED" => Fate[Now(p)] = "void"
                              /\ tx' = [tx EXCEPT ![p] = Answer(p, s)]
    BY <1>3 DEF Tells
  <2>2. tx'[p] = Answer(p, s) /\ \A q \in Pushes \ {p} : tx'[q] = tx[q]
    BY <2>1 DEF TypeOK
  <2> QED BY <2>1, <2>2, AnswerIs, ZenonT(40)
<1>4. CASE Dooms(p)
  <2>1. tx'[p] = Doom(p) /\ \A q \in Pushes \ {p} : tx'[q] = tx[q]
    BY <1>4 DEF Dooms, TypeOK
  <2>2. Answer(p, "REJECTED") \in Tx
    BY AnswerIs DEF Statuses
  <2>3. /\ Doom(p).doomed
        /\ Doom(p).answers = Answer(p, "REJECTED").answers
        /\ Doom(p).looked = Answer(p, "REJECTED").looked
        /\ Doom(p).hand = Answer(p, "REJECTED").hand
        /\ Doom(p).began = Answer(p, "REJECTED").began
        /\ Doom(p).base = Answer(p, "REJECTED").base
        /\ Doom(p).outcome = Answer(p, "REJECTED").outcome
    BY <2>2 DEF Doom, Tx
  <2>4. "REJECTED" \in Statuses
    BY DEF Statuses
  <2> QED BY <2>1, <2>3, <2>4, AnswerIs
<1>5. CASE Writes(p)
  <2> DEFINE W == [Answer(p, "APPLIED") EXCEPT !.hand = @ \cup {At(p)}]
  <2>1. tx'[p] = W /\ \A q \in Pushes \ {p} : tx'[q] = tx[q]
    BY <1>5 DEF Writes, TypeOK
  <2>2. Answer(p, "APPLIED") \in Tx
    BY AnswerIs DEF Statuses
  <2>3. /\ W.hand = Answer(p, "APPLIED").hand \cup {At(p)}
        /\ W.doomed = Answer(p, "APPLIED").doomed
        /\ W.answers = Answer(p, "APPLIED").answers
        /\ W.looked = Answer(p, "APPLIED").looked
        /\ W.began = Answer(p, "APPLIED").began
        /\ W.base = Answer(p, "APPLIED").base
        /\ W.outcome = Answer(p, "APPLIED").outcome
    BY <2>2 DEF Tx
  <2>4. "APPLIED" \in Statuses
    BY DEF Statuses
  <2> HIDE DEF W
  <2> QED BY <1>5, <2>1, <2>3, <2>4, AnswerIs
<1> QED BY <1>2, <1>3, <1>4, <1>5 DEF Moves

\* A statement's answer, added to true ones, keeps them true.
LEMMA MovesTells ==
  ASSUME ToldInv, NEW p \in Pushes, Moves(p)
  PROVE  (Awaiting /\ Told /\ Ended)'
<1> DEFINE a == tx[p].answers
           n == Len(a)
<1>1. TypeOK /\ Awaiting /\ Told /\ Ended
  BY DEF ToldInv
<1>2. request' = request /\ request[p] = "running" /\ At(p) = n + 1
  BY <1>1, HandIsAction DEF Moves, Open
<1>3. At(p) \in DOMAIN Batch[p] /\ Len(Batch[p]) \in Nat /\ At(p) <= Len(Batch[p])
  BY <1>1, HandIsAction, SyncAssumption DEF Moves, Open
<1>4. a \in Seq(Statuses) /\ n \in Nat /\ DOMAIN a = 1 .. n
  <2>1. a \in Seq(Statuses)
    BY <1>1 DEF TypeOK, Tx
  <2> QED BY <2>1
<1>5. (Awaiting /\ Ended)'
  BY <1>1, <1>2, MovesChanges, ZenonT(40) DEF Awaiting, Ended
<1>6. \A q \in Pushes \ {p} : tx'[q] = tx[q]
  BY <1>1, MovesChanges
<1>7. SUFFICES TrueSoFar(p, tx'[p].answers, tx'[p].hand, tx'[p].doomed)
  BY <1>1, <1>5, <1>6 DEF Told
<1>8. CASE /\ tx'[p].answers = a /\ tx'[p].hand = tx[p].hand
           /\ tx'[p].doomed = tx[p].doomed
  BY <1>1, <1>8 DEF Told
<1>9. ASSUME NEW s \in Statuses, tx'[p].answers = Append(a, s),
             \/ /\ tx'[p].hand = tx[p].hand /\ tx'[p].doomed = tx[p].doomed
                /\ s = "APPLIED" => Fate[Now(p)] = "void"
             \/ /\ tx'[p].hand = tx[p].hand /\ tx'[p].doomed /\ s = "REJECTED"
             \/ /\ tx'[p].hand = tx[p].hand \cup {At(p)}
                /\ tx'[p].doomed = tx[p].doomed /\ s = "APPLIED"
      PROVE  TrueSoFar(p, tx'[p].answers, tx'[p].hand, tx'[p].doomed)
  <2> DEFINE b == tx'[p].answers
  <2>1. /\ DOMAIN b = 1 .. n + 1 /\ Len(b) = n + 1
        /\ b[n + 1] = s /\ \A i \in 1 .. n : b[i] = a[i]
    BY <1>4, <1>9
  <2>2. \A i \in 1 .. n + 1 : i \in 1 .. n \/ i = n + 1
    BY <1>4
  <2>3. n + 1 \in 1 .. n + 1 /\ 1 .. n \subseteq 1 .. n + 1
    BY <1>4
  <2>4. Now(p) = Action(p, n + 1)
    BY <1>2 DEF Now
  <2>5. /\ \A i \in tx[p].hand : i \in 1 .. n /\ a[i] = "APPLIED"
        /\ \A i \in 1 .. n : a[i] = "APPLIED" /\ Fate[Action(p, i)] # "void"
                              => i \in tx[p].hand
        /\ tx[p].doomed => \E k \in 1 .. n : a[k] = "REJECTED"
    BY <1>1, <1>4 DEF Told, TrueSoFar
  <2>6. n + 1 <= Len(Batch[p])
    BY <1>2, <1>3
  <2> HIDE DEF a, b, n
  <2>7. Len(b) <= Len(Batch[p])
    BY <2>1, <2>6
  <2>8. \A i \in tx'[p].hand : i \in DOMAIN b /\ b[i] = "APPLIED"
    BY <1>2, <1>9, <2>1, <2>3, <2>5
  <2>9. \A i \in DOMAIN b : b[i] = "APPLIED" /\ Fate[Action(p, i)] # "void"
                               => i \in tx'[p].hand
    BY <1>2, <1>9, <2>1, <2>2, <2>4, <2>5
  <2>10. tx'[p].doomed => \E k \in DOMAIN b : b[k] = "REJECTED"
    BY <1>9, <2>1, <2>3, <2>5
  <2> QED BY <2>7, <2>8, <2>9, <2>10 DEF b, TrueSoFar
<1> QED BY <1>1, <1>8, <1>9, MovesChanges

\* A push at its end has answered every action of its batch.
LEMMA AllAnswered ==
  ASSUME ToldInv, NEW p \in Pushes, Over(p)
  PROVE  Len(tx[p].answers) = Len(Batch[p])
<1>1. Len(tx[p].answers) <= Len(Batch[p]) /\ Len(tx[p].answers) + 1 > Len(Batch[p])
  BY DEF ToldInv, Told, TrueSoFar, Over, At
<1>2. tx[p].answers \in Seq(Statuses)
  BY DEF ToldInv, TypeOK, Tx
<1>3. Batch[p] \in Seq(Actions)
  BY SyncAssumption
<1>4. Len(tx[p].answers) \in Nat /\ Len(Batch[p]) \in Nat
  BY <1>2, <1>3
<1> QED BY <1>1, <1>4

LEMMA BeginTells ==
  ASSUME ToldInv, NEW r \in Requests, Begin(r)
  PROVE  (Awaiting /\ Told /\ Ended)'
<1>1. \A p \in Pushes :
         /\ tx'[p].answers = tx[p].answers /\ tx'[p].hand = tx[p].hand
         /\ tx'[p].doomed = tx[p].doomed /\ tx'[p].outcome = tx[p].outcome
         /\ p # r => tx'[p] = tx[p]
  BY DEF Begin, ToldInv, TypeOK, Tx
<1>2. \A p \in Pushes : request'[p] = IF p = r THEN "running" ELSE request[p]
  BY DEF Begin, ToldInv, TypeOK, Requests
<1>3. Told'
  BY <1>1 DEF Told, ToldInv
<1>4. Awaiting'
  BY <1>1, <1>2 DEF Awaiting, ToldInv
<1>5. Ended'
  BY <1>1, <1>2 DEF Ended, ToldInv
<1> QED BY <1>3, <1>4, <1>5

LEMMA ToldStep == ToldInv /\ [Next]_vars => ToldInv'
<1> SUFFICES ASSUME ToldInv, [Next]_vars
             PROVE  ToldInv'
  OBVIOUS
<1>0. TypeOK /\ Awaiting /\ Told /\ Ended
  BY DEF ToldInv
<1> SUFFICES (Awaiting /\ Told /\ Ended)'
  BY TypeStep DEF ToldInv
<1>1. ASSUME NEW p \in Pushes, Moves(p)
      PROVE  (Awaiting /\ Told /\ Ended)'
  BY <1>1, MovesTells
<1>2. ASSUME NEW p \in Pushes, Commit(p) \/ CommitDoomed(p) \/ CommitLost(p)
      PROVE  (Awaiting /\ Told /\ Ended)'
  <2>1. PICK o \in {"committed", "rolled back", "lost"} :
          /\ tx' = [tx EXCEPT ![p] = [tx[p] EXCEPT !.outcome = o]]
          /\ o = "rolled back" => tx[p].doomed
    BY <1>2 DEF Commit, CommitDoomed, CommitLost
  <2>2. request' = [request EXCEPT ![p] = "answered"] /\ Over(p)
    BY <1>2 DEF Commit, CommitDoomed, CommitLost
  <2>3. tx[p] \in Tx /\ tx'[p] = [tx[p] EXCEPT !.outcome = o]
    BY <1>0, <2>1 DEF TypeOK
  <2>4. /\ tx'[p].answers = tx[p].answers /\ tx'[p].hand = tx[p].hand
        /\ tx'[p].doomed = tx[p].doomed /\ tx'[p].outcome = o
    BY <2>3 DEF Tx
  <2>5. \A q \in Pushes \ {p} : tx'[q] = tx[q] /\ request'[q] = request[q]
    BY <1>0, <2>1, <2>2 DEF TypeOK, Requests
  <2>6. request'[p] = "answered"
    BY <1>0, <2>2 DEF TypeOK, Requests
  <2>7. Len(tx[p].answers) = Len(Batch[p])
    BY <2>2, AllAnswered
  <2> QED BY <1>0, <2>1, <2>4, <2>5, <2>6, <2>7 DEF Awaiting, Told, Ended
<1>3. ASSUME NEW r \in Requests, Begin(r)
      PROVE  (Awaiting /\ Told /\ Ended)'
  BY <1>3, BeginTells
<1>4. ASSUME NEW r \in Requests, BeginFails(r) \/ (r \in Pulls /\ Pull(r))
      PROVE  (Awaiting /\ Told /\ Ended)'
  <2>1. tx' = tx
    BY <1>4 DEF BeginFails, Pull
  <2>2. \A p \in Pushes : request'[p] = request[p] \/ request'[p] = "gone"
    BY <1>0, <1>4, SyncAssumption DEF BeginFails, Pull, TypeOK, Requests
  <2> QED BY <1>0, <2>1, <2>2 DEF Awaiting, Told, Ended
<1>5. CASE Die
  BY <1>0, <1>5 DEF Die, Awaiting, Told, Ended, Requests
<1>6. CASE Tick \/ (\E x \in Jobs : UpdateStatus(x)) \/ UNCHANGED vars
  BY <1>0, <1>6 DEF Tick, UpdateStatus, vars, Awaiting, Told, Ended
<1> QED
  BY <1>0, <1>1, <1>2, <1>3, <1>4, <1>5, <1>6, StatementsMove
     DEF Next, PushStep, Requests

\* AnswersAreTrue: whatever a batch holds and however its transaction ends, an
\* answer without a rejection is true, and nothing refused is ever applied.
THEOREM AnswersTrue == Spec => []AnswersAreTrue
<1>1. ToldInv => AnswersAreTrue
  <2> SUFFICES ASSUME ToldInv, NEW p \in Pushes, request[p] = "answered",
                      NEW i \in DOMAIN Batch[p]
               PROVE  /\ tx[p].answers[i] # "APPLIED" => i \notin Landed(p)
                      /\ \/ tx[p].answers[i] = "APPLIED" /\ Fate[Action(p, i)] # "void"
                              => i \in Landed(p)
                         \/ \E k \in DOMAIN Batch[p] : tx[p].answers[k] = "REJECTED"
                         \/ tx[p].outcome = "lost"
    BY DEF AnswersAreTrue
  <2>1. tx[p] \in Tx /\ Batch[p] \in Seq(Actions)
    BY SyncAssumption DEF ToldInv, TypeOK
  <2>2. tx[p].answers \in Seq(Statuses) /\ Len(tx[p].answers) = Len(Batch[p])
    BY <2>1 DEF Tx, ToldInv, Ended
  <2>3. DOMAIN tx[p].answers = DOMAIN Batch[p]
    BY <2>1, <2>2
  <2>4. tx[p].outcome \in {"committed", "rolled back", "lost"}
    BY <2>1 DEF Tx, ToldInv, Ended
  <2>5. tx[p].outcome = "rolled back" =>
          \E k \in DOMAIN Batch[p] : tx[p].answers[k] = "REJECTED"
    BY <2>3 DEF ToldInv, Ended, Told, TrueSoFar
  <2> QED BY <2>3, <2>4, <2>5 DEF ToldInv, Told, TrueSoFar, Landed
<1> QED BY <1>1, ToldInit, ToldStep, PTL DEF Spec
-----------------------------------------------------------------------------
(***************************************************************************)
(* What a push may overwrite.  The base of a running push bounds the rows  *)
(* from below, so a row that changes under it has a larger rev from then   *)
(* on; a row that has not is no newer than what the push looked at.        *)
(***************************************************************************)
NotNewer(p, x, t) == row[x].at <= t \/ row[x].rev > tx[p].base[x]

\* The batch is older than the push.
Clocked(p) == request[p] = "running" =>
                \A i \in DOMAIN Batch[p] : Taken[Action(p, i)] <= tx[p].began

Behind(p) == request[p] = "running" =>
               \A x \in Rows : tx[p].base[x] <= row[x].rev

Seen(p) == Open(p) /\ tx[p].looked => NotNewer(p, Here(p), Taken[Now(p)])

HandSeen(p) == request[p] = "running" =>
                 \A i \in tx[p].hand : TargetOf(p, i) \in Jobs =>
                    NotNewer(p, TargetOf(p, i), Taken[Action(p, i)])

SeenOf(p) == Clocked(p) /\ Behind(p) /\ Seen(p) /\ HandSeen(p)

SeenInv == ToldInv /\ \A p \in Pushes : SeenOf(p)

\* A row that is written gets a larger rev.
RowsGrow == \A x \in Rows : row'[x] = row[x] \/ row'[x].rev = row[x].rev + 1

\* What was written is of the batch.
LEMMA HandIsOfBatch ==
  ASSUME ToldInv, NEW p \in Pushes, NEW i \in tx[p].hand
  PROVE  /\ i \in 1 .. Len(tx[p].answers) /\ i \in DOMAIN Batch[p]
         /\ Action(p, i) \in Actions /\ TargetOf(p, i) \in Rows
         /\ Taken[Action(p, i)] \in Nat
<1>1. tx[p].answers \in Seq(Statuses)
  BY DEF ToldInv, TypeOK, Tx
<1>2. Batch[p] \in Seq(Actions)
  BY SyncAssumption
<1>3. i \in DOMAIN tx[p].answers /\ Len(tx[p].answers) <= Len(Batch[p])
  BY DEF ToldInv, Told, TrueSoFar
<1>4. i \in 1 .. Len(tx[p].answers) /\ i \in DOMAIN Batch[p]
  BY <1>1, <1>2, <1>3
<1>5. Action(p, i) \in Actions
  BY <1>2, <1>4 DEF Action
<1> QED BY <1>4, <1>5, SyncAssumption DEF TargetOf

\* A push that nothing happens to, or that ends, keeps what it has seen.
LEMMA StillSeen ==
  ASSUME SeenInv, TypeOK', RowsGrow, NEW p \in Pushes, tx'[p] = tx[p],
         request'[p] = request[p] \/ request'[p] # "running"
  PROVE  SeenOf(p)'
<1>1. TypeOK /\ ToldInv /\ SeenOf(p)
  BY DEF SeenInv, ToldInv
<1>2. ASSUME NEW x \in Rows, NEW t \in Nat, request[p] = "running", NotNewer(p, x, t)
      PROVE  row'[x].at <= t \/ row'[x].rev > tx[p].base[x]
  <2>1. tx[p].base[x] \in Nat /\ row[x].rev \in Nat
    BY <1>1 DEF TypeOK, Tx
  <2>2. tx[p].base[x] <= row[x].rev
    BY <1>1, <1>2 DEF SeenOf, Behind
  <2> QED BY <1>2, <2>1, <2>2 DEF NotNewer, RowsGrow
<1>3. Clocked(p)'
  BY <1>1 DEF SeenOf, Clocked
<1>4. Behind(p)'
  <2> SUFFICES ASSUME request[p] = "running", NEW x \in Rows
               PROVE  tx[p].base[x] <= row'[x].rev
    BY DEF Behind
  <2>1. tx[p].base[x] \in Nat /\ row[x].rev \in Nat
    BY <1>1 DEF TypeOK, Tx
  <2> QED BY <1>1, <2>1 DEF SeenOf, Behind, RowsGrow
<1>5. Seen(p)'
  <2> SUFFICES ASSUME Open(p), tx[p].looked
               PROVE  \/ row'[Here(p)].at <= Taken[Now(p)]
                      \/ row'[Here(p)].rev > tx[p].base[Here(p)]
    BY DEF Seen, NotNewer, Open, Here, Now, At
  <2>1. Here(p) \in Rows /\ Taken[Now(p)] \in Nat
    BY <1>1, HandIsAction, SyncAssumption
  <2> QED BY <1>1, <1>2, <2>1 DEF SeenOf, Seen, Open
<1>6. HandSeen(p)'
  <2> SUFFICES ASSUME request[p] = "running", NEW i \in tx[p].hand,
                      TargetOf(p, i) \in Jobs
               PROVE  \/ row'[TargetOf(p, i)].at <= Taken[Action(p, i)]
                      \/ row'[TargetOf(p, i)].rev > tx[p].base[TargetOf(p, i)]
    BY DEF HandSeen, NotNewer
  <2> QED BY <1>1, <1>2, HandIsOfBatch DEF SeenOf, HandSeen
<1> QED BY <1>3, <1>4, <1>5, <1>6 DEF SeenOf

\* The action in hand may be written: its job was looked at, and was not newer.
LEMMA MayWrite ==
  ASSUME SeenInv, NEW p \in Pushes, Writes(p), Here(p) \in Jobs
  PROVE  NotNewer(p, Here(p), Taken[Now(p)])
BY DEF SeenInv, SeenOf, Seen, Writes, ToWrite

\* A statement of p: what its transaction has seen stays true.
LEMMA MovesSeen ==
  ASSUME SeenInv, TypeOK', NEW p \in Pushes, Moves(p)
  PROVE  SeenOf(p)'
<1>1. TypeOK /\ ToldInv /\ SeenOf(p) /\ Open(p)
  BY DEF SeenInv, ToldInv, Moves
<1>2. row' = row /\ request' = request /\ request[p] = "running"
  BY <1>1 DEF Moves, Open
<1>3. tx'[p].began = tx[p].began /\ tx'[p].base = tx[p].base
  BY <1>1, MovesChanges
<1>4. Clocked(p)' /\ Behind(p)'
  BY <1>1, <1>2, <1>3 DEF SeenOf, Clocked, Behind
<1>5. /\ At(p) \in DOMAIN Batch[p] /\ Now(p) = Action(p, At(p))
      /\ Now(p) \in Actions /\ Here(p) = TargetOf(p, At(p)) /\ Here(p) \in Rows
      /\ Taken[Now(p)] \in Nat
  BY <1>1, HandIsAction, SyncAssumption DEF Now
<1>6. /\ tx[p].began \in Nat
      /\ \A x \in Rows : tx[p].base[x] \in Nat /\ row[x].at \in Nat /\ row[x].rev \in Nat
  <2>1. tx[p] \in Tx /\ row \in [Rows -> [at : Nat, rev : Nat]]
    BY <1>1 DEF TypeOK
  <2>2. tx[p].began \in Nat /\ tx[p].base \in [Rows -> Nat]
    BY <2>1 DEF Tx
  <2> QED BY <2>1, <2>2
<1>7. CASE /\ tx'[p].hand = tx[p].hand /\ ~tx'[p].looked
  <2>1. Seen(p)'
    BY <1>7 DEF Seen
  <2>2. HandSeen(p)'
    BY <1>1, <1>2, <1>3, <1>7 DEF SeenOf, HandSeen, NotNewer
  <2> QED BY <1>4, <2>1, <2>2 DEF SeenOf
<1>8. CASE /\ tx'[p].answers = tx[p].answers /\ tx'[p].hand = tx[p].hand /\ Looks(p)
  <2>1. HandSeen(p)'
    BY <1>1, <1>2, <1>3, <1>8 DEF SeenOf, HandSeen, NotNewer
  <2>2. UpdatedAt(p, Here(p)) <= Taken[Now(p)] /\ Here(p) \in Jobs
    BY <1>8 DEF Looks, ToLook
  <2>3. Holds(p, Here(p)) => tx[p].began <= Taken[Now(p)]
    BY <2>2 DEF UpdatedAt
  <2>4. NotNewer(p, Here(p), Taken[Now(p)])
    <3>1. CASE ~Holds(p, Here(p))
      BY <2>2, <3>1 DEF UpdatedAt, NotNewer
    <3>2. CASE Holds(p, Here(p))
      <4>1. PICK i \in tx[p].hand : TargetOf(p, i) = Here(p)
        BY <3>2 DEF Holds
      <4>2. NotNewer(p, Here(p), Taken[Action(p, i)])
        BY <1>1, <1>2, <2>2, <4>1 DEF SeenOf, HandSeen
      <4>3. Taken[Action(p, i)] <= tx[p].began /\ Taken[Action(p, i)] \in Nat
        BY <1>1, <1>2, HandIsOfBatch DEF SeenOf, Clocked
      <4>4. Taken[Action(p, i)] <= Taken[Now(p)]
        BY <1>5, <1>6, <2>3, <3>2, <4>3
      <4> QED BY <1>5, <1>6, <4>2, <4>3, <4>4 DEF NotNewer
    <3> QED BY <3>1, <3>2
  <2>5. Seen(p)'
    <3>1. At(p)' = At(p)
      BY <1>8 DEF At
    <3>2. Now(p)' = Now(p) /\ Here(p)' = Here(p)
      BY <3>1 DEF Now, Here, Action
    <3>3. NotNewer(p, Here(p), Taken[Now(p)])'
      BY <1>2, <1>3, <2>4, <3>2 DEF NotNewer
    <3> QED BY <3>2, <3>3 DEF Seen
  <2> QED BY <1>4, <2>1, <2>5 DEF SeenOf
<1>9. CASE /\ tx'[p].hand = tx[p].hand \cup {At(p)} /\ ~tx'[p].looked /\ Writes(p)
  <2>1. Seen(p)'
    BY <1>9 DEF Seen
  <2>2. HandSeen(p)'
    <3> SUFFICES ASSUME NEW i \in tx[p].hand \cup {At(p)}, TargetOf(p, i) \in Jobs
                 PROVE  NotNewer(p, TargetOf(p, i), Taken[Action(p, i)])
      BY <1>2, <1>3, <1>9 DEF HandSeen, NotNewer, TargetOf, Action
    <3>1. CASE i \in tx[p].hand
      BY <1>1, <1>2, <3>1 DEF SeenOf, HandSeen
    <3>2. CASE i = At(p)
      BY <1>5, <1>9, <3>2, MayWrite
    <3> QED BY <3>1, <3>2
  <2> QED BY <1>4, <2>1, <2>2 DEF SeenOf
<1> QED BY <1>1, <1>7, <1>8, <1>9, MovesChanges

LEMMA SeenStep == SeenInv /\ [Next]_vars => SeenInv'
<1> SUFFICES ASSUME SeenInv, [Next]_vars
             PROVE  SeenInv'
  OBVIOUS
<1>0. ToldInv /\ TypeOK /\ (\A p \in Pushes : SeenOf(p)) /\ ToldInv' /\ TypeOK'
  BY ToldStep DEF SeenInv, ToldInv
<1> SUFFICES \A q \in Pushes : SeenOf(q)'
  BY <1>0 DEF SeenInv
<1>1. ASSUME NEW p \in Pushes, Moves(p), NEW q \in Pushes
      PROVE  SeenOf(q)'
  <2>1. CASE q = p
    BY <1>0, <1>1, <2>1, MovesSeen
  <2>2. CASE q # p
    <3>1. tx'[q] = tx[q] /\ request' = request /\ RowsGrow
      BY <1>0, <1>1, <2>2, MovesChanges DEF Moves, RowsGrow
    <3> QED BY <1>0, <3>1, StillSeen
  <2> QED BY <2>1, <2>2
<1>2. ASSUME NEW p \in Pushes, Commit(p) \/ CommitDoomed(p) \/ CommitLost(p),
             NEW q \in Pushes
      PROVE  SeenOf(q)'
  <2>1. RowsGrow
    <3>1. CASE Commit(p)
      <4> SUFFICES ASSUME NEW x \in Rows
                   PROVE  row'[x] = row[x] \/ row'[x].rev = row[x].rev + 1
        BY DEF RowsGrow
      <4>1. row'[x] = IF Holds(p, x) THEN [at |-> tx[p].began, rev |-> row[x].rev + 1]
                      ELSE row[x]
        BY <3>1 DEF Commit
      <4> QED BY <4>1
    <3>2. CASE row' = row
      BY <3>2 DEF RowsGrow
    <3> QED BY <1>2, <3>1, <3>2 DEF CommitDoomed, CommitLost
  <2>2. request' = [request EXCEPT ![p] = "answered"]
    BY <1>2 DEF Commit, CommitDoomed, CommitLost
  <2>3. CASE q # p
    <3>1. tx'[q] = tx[q] /\ request'[q] = request[q]
      BY <1>0, <1>2, <2>3 DEF Commit, CommitDoomed, CommitLost, TypeOK, Requests
    <3> QED BY <1>0, <2>1, <3>1, StillSeen
  <2>4. CASE q = p
    <3>1. request'[p] = "answered"
      BY <1>0, <2>2 DEF TypeOK, Requests
    <3>2. PICK o : tx' = [tx EXCEPT ![p] = [tx[p] EXCEPT !.outcome = o]]
      BY <1>2 DEF Commit, CommitDoomed, CommitLost
    <3>3. tx[p] \in Tx /\ tx'[p] = [tx[p] EXCEPT !.outcome = o]
      BY <1>0, <3>2 DEF TypeOK
    <3>4. tx'[p].hand = tx[p].hand /\ tx'[p].began = tx[p].began
      BY <3>3 DEF Tx
    <3> QED BY <2>4, <3>1 DEF SeenOf, Clocked, Behind, Seen, HandSeen, Open
  <2> QED BY <2>3, <2>4
<1>3. ASSUME NEW r \in Requests, Begin(r), NEW q \in Pushes
      PROVE  SeenOf(q)'
  <2>1. CASE q # r
    <3>1. tx'[q] = tx[q] /\ request'[q] = request[q] /\ RowsGrow
      BY <1>0, <1>3, <2>1 DEF Begin, TypeOK, Requests, RowsGrow
    <3> QED BY <1>0, <3>1, StillSeen
  <2>2. CASE q = r
    <3>1. tx[q] = Unbegun /\ Due(q) /\ row' = row
      BY <1>0, <1>3, <2>2 DEF Begin, ToldInv, Awaiting
    <3>2. tx'[q] = [tx[q] EXCEPT !.began = clock,
                                 !.base = [x \in Rows |-> row[x].rev]]
      BY <1>0, <1>3, <2>2 DEF Begin
    <3>3. /\ tx'[q].hand = {} /\ tx'[q].looked = FALSE
          /\ tx'[q].began = clock /\ tx'[q].base = [x \in Rows |-> row[x].rev]
      BY <3>1, <3>2 DEF Unbegun
    <3>4. Clocked(q)'
      BY <3>1, <3>3, <2>2 DEF Clocked, Due
    <3>5. Behind(q)'
      <4>1. \A x \in Rows : row[x].rev \in Nat
        BY <1>0 DEF TypeOK
      <4> QED BY <3>1, <3>3, <4>1 DEF Behind
    <3> QED BY <3>3, <3>4, <3>5 DEF SeenOf, Seen, HandSeen
  <2> QED BY <2>1, <2>2
<1>4. ASSUME NEW r \in Requests, BeginFails(r) \/ (r \in Pulls /\ Pull(r)),
             NEW q \in Pushes
      PROVE  SeenOf(q)'
  <2>1. tx' = tx /\ row' = row
    BY <1>4 DEF BeginFails, Pull
  <2>2. request'[q] = request[q] \/ request'[q] = "gone"
    BY <1>0, <1>4, SyncAssumption DEF BeginFails, Pull, TypeOK, Requests
  <2> QED BY <1>0, <2>1, <2>2, StillSeen DEF RowsGrow
<1>5. ASSUME Die, NEW q \in Pushes
      PROVE  SeenOf(q)'
  <2>1. tx' = tx /\ row' = row /\ (request'[q] = request[q] \/ request'[q] = "gone")
    BY <1>5 DEF Die, Requests
  <2> QED BY <1>0, <2>1, StillSeen DEF RowsGrow
<1>6. ASSUME NEW x \in Jobs, UpdateStatus(x), NEW q \in Pushes
      PROVE  SeenOf(q)'
  <2>1. RowsGrow
    BY <1>0, <1>6, SyncAssumption DEF UpdateStatus, RowsGrow, TypeOK
  <2> QED BY <1>0, <1>6, <2>1, StillSeen DEF UpdateStatus
<1>7. ASSUME Tick \/ UNCHANGED vars, NEW q \in Pushes
      PROVE  SeenOf(q)'
  BY <1>0, <1>7, StillSeen DEF Tick, vars, RowsGrow
<1> QED
  BY <1>1, <1>2, <1>3, <1>4, <1>5, <1>6, <1>7, <1>0, StatementsMove
     DEF Next, PushStep, Requests

LEMMA SeenInit == Init => SeenInv
<1> SUFFICES ASSUME Init, NEW p \in Pushes PROVE SeenOf(p)
  BY ToldInit DEF SeenInv
<1>1. request[p] = "waiting" /\ tx[p].hand = {}
  BY UnbegunIs DEF Init, Requests
<1> QED BY <1>1 DEF SeenOf, Clocked, Behind, Seen, HandSeen, Open

LEMMA AlwaysSeen == Spec => []SeenInv
BY SeenInit, SeenStep, PTL DEF Spec

\* NewerStands: a push overwrites only what it has seen to be no newer, or what
\* was committed since it began.
THEOREM NewerRowsStand == Spec => NewerStands
<1> DEFINE Overwrites ==
      \A p \in Pushes : \A i \in tx[p].hand :
         LET x == TargetOf(p, i)
         IN  x \in Jobs /\ Holds(p, x) /\ row'[x] # row[x] =>
               \/ row[x].at <= Taken[Action(p, i)]
               \/ row[x].rev > tx[p].base[x]
<1>1. SeenInv => Overwrites
  BY DEF SeenInv, SeenOf, HandSeen, NotNewer, Holds
<1>2. Spec => [][Overwrites]_vars
  BY <1>1, AlwaysSeen, PTL
<1> QED BY <1>2 DEF NewerStands
-----------------------------------------------------------------------------
(***************************************************************************)
(* What of RequestsEnd needs no fairness, for the pushes: some running     *)
(* push can always take a step, and no push takes more steps than its      *)
(* batch has actions for.  (A pull may wait for a connection for ever.)    *)
(***************************************************************************)
Running == {p \in Pushes : request[p] = "running"}

\* The guard of some step of p holds: Queue, Look, Write, Victim, or a commit.
CanMove(p) ==
    \/ /\ Open(p) /\ ~tx[p].looked
       /\ tx[p].doomed \/ Fate[Now(p)] \in {"refused", "unqueued"}
    \/ ToLook(p)
    \/ /\ ToWrite(p)
       /\ \/ Fate[Now(p)] \in {"void", "broken"}
          \/ Fate[Now(p)] = "sound" /\ ~Locked(p, Here(p))
    \/ InCircle(p)
    \/ Over(p)

\* A push that has looked is about to write what it looked for.
LookedOK(p) == request[p] = "running" /\ tx[p].looked =>
                 /\ Open(p) /\ ~tx[p].doomed
                 /\ Fate[Now(p)] \notin {"refused", "unqueued"}
LookedInv == ToldInv /\ \A p \in Pushes : LookedOK(p)

LEMMA LookedStep == LookedInv /\ [Next]_vars => LookedInv'
<1> SUFFICES ASSUME LookedInv, [Next]_vars
             PROVE  LookedInv'
  OBVIOUS
<1>0. ToldInv /\ TypeOK /\ (\A p \in Pushes : LookedOK(p)) /\ ToldInv'
  BY ToldStep DEF LookedInv, ToldInv
<1> SUFFICES ASSUME NEW q \in Pushes PROVE LookedOK(q)'
  BY <1>0 DEF LookedInv
<1>1. CASE tx'[q] = tx[q] /\ (request'[q] = request[q] \/ request'[q] # "running")
  BY <1>0, <1>1 DEF LookedOK, Open, At, Now, Action
<1>2. ASSUME NEW p \in Pushes, Moves(p)
      PROVE  LookedOK(q)'
  <2>1. request' = request
    BY <1>2 DEF Moves
  <2>2. CASE q # p
    BY <1>0, <1>1, <1>2, <2>1, <2>2, MovesChanges
  <2>3. CASE q = p /\ ~tx'[p].looked
    BY <2>3 DEF LookedOK
  <2>4. CASE q = p /\ tx'[p].looked
    <3>1. /\ Looks(p) /\ tx'[p].answers = tx[p].answers
          /\ tx'[p].doomed = tx[p].doomed
      BY <1>0, <1>2, <2>4, MovesChanges
    <3>2. At(p)' = At(p)
      BY <3>1 DEF At
    <3>3. Now(p)' = Now(p) /\ Open(p)'
      BY <1>2, <2>1, <3>2 DEF Now, Action, Open, Moves
    <3> QED BY <2>4, <3>1, <3>3 DEF LookedOK, Looks, ToLook
  <2> QED BY <2>2, <2>3, <2>4
<1>3. ASSUME NEW r \in Requests, Begin(r)
      PROVE  LookedOK(q)'
  <2>1. CASE q # r
    BY <1>0, <1>1, <1>3, <2>1 DEF Begin, TypeOK, Requests
  <2>2. CASE q = r
    <3>1. tx[q] = Unbegun
      BY <1>0, <1>3, <2>2 DEF Begin, ToldInv, Awaiting
    <3>2. tx'[q] = [tx[q] EXCEPT !.began = clock,
                                 !.base = [x \in Rows |-> row[x].rev]]
      BY <1>3, <2>2 DEF Begin
    <3>3. ~tx'[q].looked
      BY <3>1, <3>2 DEF Unbegun
    <3> QED BY <3>3 DEF LookedOK
  <2> QED BY <2>1, <2>2
<1>4. ASSUME NEW p \in Pushes, Commit(p) \/ CommitDoomed(p) \/ CommitLost(p)
      PROVE  LookedOK(q)'
  <2>1. request' = [request EXCEPT ![p] = "answered"]
    BY <1>4 DEF Commit, CommitDoomed, CommitLost
  <2>2. CASE q # p
    BY <1>0, <1>1, <1>4, <2>2 DEF Commit, CommitDoomed, CommitLost, TypeOK, Requests
  <2>3. CASE q = p
    BY <1>0, <2>1, <2>3 DEF LookedOK, TypeOK, Requests
  <2> QED BY <2>2, <2>3
<1>5. ASSUME NEW r \in Requests, BeginFails(r) \/ (r \in Pulls /\ Pull(r))
      PROVE  LookedOK(q)'
  <2>1. tx' = tx
    BY <1>5 DEF BeginFails, Pull
  <2>2. request'[q] = request[q] \/ request'[q] = "gone"
    BY <1>0, <1>5, SyncAssumption DEF BeginFails, Pull, TypeOK, Requests
  <2> QED BY <1>1, <2>1, <2>2
<1>6. CASE Tick \/ Die \/ (\E x \in Jobs : UpdateStatus(x)) \/ UNCHANGED vars
  BY <1>1, <1>6 DEF Tick, Die, UpdateStatus, vars, Requests
<1> QED
  BY <1>2, <1>3, <1>4, <1>5, <1>6, <1>0, StatementsMove
     DEF Next, PushStep, Requests

LEMMA AlwaysLooked == Spec => []LookedInv
<1>1. Init => LookedInv
  <2> SUFFICES ASSUME Init, NEW p \in Pushes PROVE LookedOK(p)
    BY ToldInit DEF LookedInv
  <2> QED BY DEF Init, Requests, LookedOK
<1> QED BY <1>1, LookedStep, PTL DEF Spec

\* A running push that cannot move waits for a row a running push holds.
LEMMA StuckWaits ==
  ASSUME LookedInv, NEW p \in Running, ~CanMove(p)
  PROVE  \E q \in Running : WaitsFor(p, q)
<1>1. TypeOK /\ LookedOK(p) /\ p \in Pushes /\ request[p] = "running"
  BY DEF LookedInv, ToldInv, Running
<1>2. Open(p)
  <2>1. tx[p].answers \in Seq(Statuses) /\ Batch[p] \in Seq(Actions)
    BY <1>1, SyncAssumption DEF TypeOK, Tx
  <2>2. Len(tx[p].answers) \in Nat /\ Len(Batch[p]) \in Nat
    BY <2>1
  <2> QED BY <1>1, <2>2 DEF CanMove, Over, Open, At
<1>3. Now(p) \in Actions /\ Fate[Now(p)] \in Fates
  BY <1>1, <1>2, HandIsAction, SyncAssumption
<1>4. ~tx[p].doomed /\ Fate[Now(p)] \notin {"refused", "unqueued"}
  BY <1>1, <1>2 DEF CanMove, LookedOK
<1>5. ToWrite(p)
  BY <1>1, <1>2, <1>4, SyncAssumption DEF CanMove, ToLook, ToWrite, TypeOK, Tx
<1>6. Fate[Now(p)] = "sound" /\ Locked(p, Here(p))
  BY <1>3, <1>4, <1>5 DEF CanMove, Fates
<1>7. PICK q \in Pushes \ {p} : Holds(q, Here(p))
  BY <1>6 DEF Locked
<1> QED BY <1>5, <1>6, <1>7 DEF WaitsFor, Holds, Running

\* Where everybody of some pushes waits for one of them, some wait in a circle:
\* the smallest such set has nobody in it whom none of the others waits for.
LEMMA CircleExists ==
  ASSUME NEW S \in SUBSET Pushes, S # {},
         \A p \in S : \E q \in S : WaitsFor(p, q)
  PROVE  \E p \in S : InCircle(p)
<1> DEFINE Closed(T) == T # {} /\ \A p \in T : \E q \in T : WaitsFor(p, q)
           Family    == {T \in SUBSET S : Closed(T)}
           less      == StrictSubsetOrdering(Pushes)
<1>1. IsWellFoundedOn(less, SUBSET Pushes)
  <2>1. IsFiniteSet(Pushes)
    BY SyncAssumption
  <2>2. FiniteSubsetsOf(Pushes) = SUBSET Pushes
    BY <2>1, FS_FiniteSubsetsOfFinite
  <2>3. IsWellFoundedOn(less, FiniteSubsetsOf(Pushes))
    BY FS_StrictSubsetOrderingWellFounded
  <2> QED BY <2>2, <2>3
<1>2. Family \subseteq SUBSET Pushes /\ S \in Family /\ Family # {}
  OBVIOUS
<1>3. \A T, U \in SUBSET Pushes : T \subseteq U /\ T # U => <<T, U>> \in less
  BY DEF StrictSubsetOrdering
<1>4. PICK M \in Family : \A T \in Family : ~(<<T, M>> \in less)
  <2> HIDE DEF Family, less
  <2> QED BY <1>1, <1>2, WFMin
<1>5. M \in SUBSET S /\ Closed(M)
  BY <1>4
<1>6. \A p \in M : \E q \in M : WaitsFor(q, p)
  <2> SUFFICES ASSUME NEW p \in M, \A q \in M : ~WaitsFor(q, p)
               PROVE  FALSE
    OBVIOUS
  <2>1. PICK r \in M : WaitsFor(p, r)
    BY <1>5
  <2>2. r # p
    BY <2>1 DEF WaitsFor
  <2>3. \A q \in M \ {p} : \E t \in M \ {p} : WaitsFor(q, t)
    BY <1>5
  <2>4. M \ {p} \in Family
    BY <1>5, <2>1, <2>2, <2>3
  <2>5. <<M \ {p}, M>> \in less
    BY <1>2, <1>3, <1>5
  <2> QED BY <1>4, <2>4, <2>5
<1>7. PICK p \in M : TRUE
  BY <1>5
<1>8. InCircle(p)
  BY <1>5, <1>6, <1>7 DEF InCircle
<1> QED BY <1>5, <1>7, <1>8

\* The pushes never stand still together: whatever rows their batches lock and
\* in whatever order, while one runs there is one that can take a step, if it is
\* only the step in which the database ends a circle.  Row locks are all a push
\* waits for.
THEOREM SomebodyMoves == Spec => [](Running # {} => \E p \in Running : CanMove(p))
<1> DEFINE Moving == Running # {} => \E p \in Running : CanMove(p)
<1>1. LookedInv => Moving
  <2> SUFFICES ASSUME LookedInv, Running # {}, \A p \in Running : ~CanMove(p)
               PROVE  FALSE
    OBVIOUS
  <2>1. \A p \in Running : \E q \in Running : WaitsFor(p, q)
    BY StuckWaits
  <2>2. PICK p \in Running : InCircle(p)
    BY <2>1, CircleExists DEF Running
  <2> QED BY <2>2 DEF CanMove
<1> QED BY <1>1, AlwaysLooked, PTL

\* A bound on the steps of a push: two for each action it has not answered, one
\* fewer when it has looked, and its end.
Count(b, a, k) == 2 * (b - a) + k
LastSteps(p) == IF tx[p].looked THEN 1 ELSE 2
StepsLeft(p) ==
    IF request[p] = "running"
    THEN Count(Len(Batch[p]), Len(tx[p].answers), LastSteps(p))
    ELSE 0

LEMMA CountIs ==
  ASSUME NEW b \in Nat, NEW a \in Nat, NEW k \in {1, 2}, NEW l \in {1, 2}
  PROVE  /\ a <= b => Count(b, a, k) \in 1 .. 2 * b + 2
         /\ Count(b, a + 1, l) < Count(b, a, k)
         /\ Count(b, a, 1) < Count(b, a, 2)
BY DEF Count

LEMMA LastStepsAre ==
  ASSUME NEW p \in Pushes
  PROVE  /\ LastSteps(p) \in {1, 2} /\ LastSteps(p)' \in {1, 2}
         /\ tx[p].looked => LastSteps(p) = 1
         /\ tx'[p].looked => LastSteps(p)' = 1
         /\ ~tx[p].looked => LastSteps(p) = 2
         /\ tx[p] = tx'[p] => LastSteps(p)' = LastSteps(p)
BY Zenon DEF LastSteps

LEMMA StepsAreNat ==
  ASSUME ToldInv, NEW p \in Pushes
  PROVE  /\ StepsLeft(p) \in Nat
         /\ request[p] = "running" => StepsLeft(p) > 0
         /\ Len(tx[p].answers) \in Nat /\ Len(Batch[p]) \in Nat
         /\ Len(tx[p].answers) <= Len(Batch[p])
<1>1. tx[p].answers \in Seq(Statuses) /\ Batch[p] \in Seq(Actions)
  BY SyncAssumption DEF ToldInv, TypeOK, Tx
<1>2. /\ Len(tx[p].answers) \in Nat /\ Len(Batch[p]) \in Nat
      /\ Len(tx[p].answers) <= Len(Batch[p])
  BY <1>1 DEF ToldInv, Told, TrueSoFar
<1>3. LastSteps(p) \in {1, 2}
  BY LastStepsAre
<1>4. StepsLeft(p) = 0 \/ StepsLeft(p) \in 1 .. 2 * Len(Batch[p]) + 2
  BY <1>2, <1>3, CountIs DEF StepsLeft
<1>5. request[p] = "running" => StepsLeft(p) \in 1 .. 2 * Len(Batch[p]) + 2
  BY <1>2, <1>3, CountIs DEF StepsLeft
<1> QED BY <1>2, <1>4, <1>5

\* A statement answers the action in hand, or looks for it once.
LEMMA MovesShrink ==
  ASSUME LookedInv, ToldInv', NEW p \in Pushes, Moves(p)
  PROVE  /\ StepsLeft(p)' < StepsLeft(p)
         /\ \A q \in Pushes \ {p} : StepsLeft(q)' = StepsLeft(q)
<1>1. TypeOK /\ ToldInv /\ request' = request /\ request[p] = "running"
  BY DEF LookedInv, ToldInv, Moves, Open
<1>2. \A q \in Pushes \ {p} : tx'[q] = tx[q]
  BY <1>1, MovesChanges
<1>3. /\ StepsLeft(p) = Count(Len(Batch[p]), Len(tx[p].answers), LastSteps(p))
      /\ StepsLeft(p)' = Count(Len(Batch[p]), Len(tx'[p].answers), LastSteps(p)')
  BY <1>1 DEF StepsLeft
<1>4. /\ Len(tx[p].answers) \in Nat /\ Len(Batch[p]) \in Nat
      /\ LastSteps(p) \in {1, 2} /\ LastSteps(p)' \in {1, 2}
  BY <1>1, StepsAreNat, LastStepsAre
<1> SUFFICES StepsLeft(p)' < StepsLeft(p)
  BY <1>1, <1>2, LastStepsAre DEF StepsLeft
<1>5. CASE tx'[p].answers = tx[p].answers /\ tx'[p].looked /\ Looks(p)
  <2>1. ~tx[p].looked
    BY <1>5 DEF Looks, ToLook
  <2>2. LastSteps(p) = 2 /\ LastSteps(p)' = 1
    BY <1>5, <2>1, LastStepsAre
  <2> QED BY <1>3, <1>4, <1>5, <2>2, CountIs
<1>6. CASE \E s \in Statuses : tx'[p].answers = Append(tx[p].answers, s)
                               /\ ~tx'[p].looked
  <2>1. tx[p].answers \in Seq(Statuses)
    BY <1>1 DEF TypeOK, Tx
  <2>2. Len(tx'[p].answers) = Len(tx[p].answers) + 1
    BY <1>6, <2>1
  <2> QED BY <1>3, <1>4, <2>2, CountIs
<1> QED BY <1>1, <1>5, <1>6, MovesChanges

\* A push that has not just begun, and takes no step, is left no more to do.
LEMMA OthersLeave ==
  ASSUME ToldInv, NEW q \in Pushes,
         tx'[q] = tx[q] \/ request'[q] # "running",
         request'[q] = request[q] \/ request'[q] # "running"
  PROVE  ~(StepsLeft(q)' > StepsLeft(q))
<1>1. StepsLeft(q) \in Nat
  BY StepsAreNat
<1>2. CASE request'[q] # "running"
  <2>1. StepsLeft(q)' = 0
    BY <1>2 DEF StepsLeft
  <2> QED BY <1>1, <2>1
<1>3. CASE request'[q] = "running"
  <2>1. StepsLeft(q)' = StepsLeft(q)
    BY <1>3 DEF StepsLeft, LastSteps
  <2> QED BY <1>1, <2>1
<1> QED BY <1>2, <1>3

LEMMA PushShrinks ==
  ASSUME LookedInv, [Next]_vars, NEW q \in Pushes
  PROVE  /\ PushStep(q) => StepsLeft(q)' < StepsLeft(q)
         /\ StepsLeft(q)' > StepsLeft(q) => Begin(q)
<1>0. ToldInv /\ TypeOK /\ ToldInv'
  BY ToldStep DEF LookedInv, ToldInv
<1>1. StepsLeft(q) \in Nat /\ StepsLeft(q)' \in Nat
  <2>1. StepsLeft(q) \in Nat
    BY <1>0, StepsAreNat
  <2>2. /\ Len(Batch[q]) \in Nat /\ Len(tx'[q].answers) \in Nat
        /\ Len(tx'[q].answers) <= Len(Batch[q])
    <3>1. tx'[q].answers \in Seq(Statuses) /\ Batch[q] \in Seq(Actions)
      BY <1>0, SyncAssumption DEF ToldInv, TypeOK, Tx
    <3> QED BY <1>0, <3>1 DEF ToldInv, Told, TrueSoFar
  <2>3. LastSteps(q)' \in {1, 2}
    BY LastStepsAre
  <2>4. StepsLeft(q)' = 0 \/ StepsLeft(q)' \in 1 .. 2 * Len(Batch[q]) + 2
    BY <2>2, <2>3, CountIs DEF StepsLeft
  <2> QED BY <2>1, <2>2, <2>4
<1>2. CASE PushStep(q)
  <2>1. CASE Moves(q)
    BY <1>0, <1>1, <2>1, MovesShrink
  <2>2. CASE Commit(q) \/ CommitDoomed(q)
    <3>1. request[q] = "running" /\ request' = [request EXCEPT ![q] = "answered"]
      BY <2>2 DEF Commit, CommitDoomed, Over
    <3>2. request'[q] = "answered"
      BY <1>0, <3>1 DEF TypeOK, Requests
    <3>3. StepsLeft(q)' = 0 /\ StepsLeft(q) > 0
      BY <1>0, <3>1, <3>2, StepsAreNat DEF StepsLeft
    <3> QED BY <1>1, <3>3
  <2> QED BY <1>0, <1>2, <2>1, <2>2, StatementsMove DEF PushStep
<1>3. CASE ~PushStep(q)
  <2> SUFFICES ASSUME ~Begin(q)
               PROVE  ~(StepsLeft(q)' > StepsLeft(q))
    BY <1>3
  <2>1. ASSUME NEW p \in Pushes, p # q, Moves(p)
        PROVE  ~(StepsLeft(q)' > StepsLeft(q))
    BY <1>0, <1>1, <2>1, MovesShrink
  <2>2. ASSUME NEW p \in Pushes, Commit(p) \/ CommitDoomed(p) \/ CommitLost(p)
        PROVE  ~(StepsLeft(q)' > StepsLeft(q))
    <3>1. request' = [request EXCEPT ![p] = "answered"]
      BY <2>2 DEF Commit, CommitDoomed, CommitLost
    <3>2. q # p => tx'[q] = tx[q] /\ request'[q] = request[q]
      BY <1>0, <2>2 DEF Commit, CommitDoomed, CommitLost, TypeOK, Requests
    <3>3. q = p => request'[q] = "answered"
      BY <1>0, <3>1 DEF TypeOK, Requests
    <3> QED BY <1>0, <3>2, <3>3, OthersLeave
  <2>3. ASSUME NEW r \in Requests, r # q, Begin(r)
        PROVE  ~(StepsLeft(q)' > StepsLeft(q))
    <3>1. tx'[q] = tx[q] /\ request'[q] = request[q]
      BY <1>0, <2>3 DEF Begin, TypeOK, Requests
    <3> QED BY <1>0, <3>1, OthersLeave
  <2>4. ASSUME NEW r \in Requests, BeginFails(r) \/ (r \in Pulls /\ Pull(r))
        PROVE  ~(StepsLeft(q)' > StepsLeft(q))
    <3>1. tx' = tx
      BY <2>4 DEF BeginFails, Pull
    <3>2. request'[q] = request[q] \/ request'[q] = "gone"
      BY <1>0, <2>4, SyncAssumption DEF BeginFails, Pull, TypeOK, Requests
    <3> QED BY <1>0, <3>1, <3>2, OthersLeave
  <2>5. CASE Tick \/ Die \/ (\E x \in Jobs : UpdateStatus(x)) \/ UNCHANGED vars
    <3>1. tx' = tx /\ (request'[q] = request[q] \/ request'[q] = "gone" \/ request'[q] # "running")
      BY <2>5 DEF Tick, Die, UpdateStatus, vars, Requests
    <3> QED BY <1>0, <3>1, OthersLeave
  <2> QED
    BY <1>0, <1>3, <2>1, <2>2, <2>3, <2>4, <2>5, StatementsMove
       DEF Next, PushStep, Requests
<1> QED BY <1>1, <1>2, <1>3

\* A push ends after at most two steps for each action of its batch and one for
\* the commit: each of its steps leaves it fewer, nobody else's gives it more,
\* and a push the database ends a statement of goes on to its answer.
THEOREM PushStepsRunOut ==
  Spec => /\ [](\A p \in Pushes : StepsLeft(p) \in 0 .. 2 * Len(Batch[p]) + 2)
          /\ [][\A p \in Pushes : /\ PushStep(p) => StepsLeft(p)' < StepsLeft(p)
                                  /\ StepsLeft(p)' > StepsLeft(p) => Begin(p)]_vars
<1> DEFINE Bounded == \A p \in Pushes : StepsLeft(p) \in 0 .. 2 * Len(Batch[p]) + 2
           Shrink  == \A p \in Pushes :
                        /\ PushStep(p) => StepsLeft(p)' < StepsLeft(p)
                        /\ StepsLeft(p)' > StepsLeft(p) => Begin(p)
<1>1. LookedInv => Bounded
  <2> SUFFICES ASSUME LookedInv, NEW p \in Pushes
               PROVE  StepsLeft(p) \in 0 .. 2 * Len(Batch[p]) + 2
    OBVIOUS
  <2>1. /\ StepsLeft(p) \in Nat /\ Len(tx[p].answers) \in Nat
        /\ Len(Batch[p]) \in Nat /\ LastSteps(p) \in {1, 2}
        /\ Len(tx[p].answers) <= Len(Batch[p])
    BY StepsAreNat, LastStepsAre DEF LookedInv
  <2>2. StepsLeft(p) = 0 \/ StepsLeft(p) \in 1 .. 2 * Len(Batch[p]) + 2
    BY <2>1, CountIs DEF StepsLeft
  <2> QED BY <2>1, <2>2
<1>2. LookedInv /\ [Next]_vars => [Shrink]_vars
  BY PushShrinks
<1>3. Spec => []Bounded
  BY <1>1, AlwaysLooked, PTL
<1>4. Spec => [][Shrink]_vars
  BY <1>2, AlwaysLooked, PTL DEF Spec
<1> QED BY <1>3, <1>4
-----------------------------------------------------------------------------
(***************************************************************************)
(* The pushes implement the store of whole batches.  Only three steps tell *)
(* an answer, and each leaves the rows as that answer says; one other      *)
(* writes a row; all the rest is hidden from who reads answers.            *)
(***************************************************************************)
\* A push has an outcome only when it was answered.
OpenUntilAnswered ==
    \A p \in Pushes : request[p] # "answered" => tx[p].outcome = "open"

\* What a push has in hand are writes.
HandWrites == \A p \in Pushes : \A i \in tx[p].hand : Fate[Action(p, i)] # "void"

StoreInv == ToldInv /\ OpenUntilAnswered /\ HandWrites

\* Push p ends with outcome o.
EndsAs(p, o) == /\ Over(p)
                /\ tx' = [tx EXCEPT ![p].outcome = o]
                /\ request' = [request EXCEPT ![p] = "answered"]

\* What its end makes of a push: its answers go out, and nobody else's.
LEMMA EndTells ==
  ASSUME StoreInv, NEW p \in Pushes, NEW o \in {"committed", "rolled back", "lost"},
         EndsAs(p, o)
  PROVE  /\ tx[p].answers \in Store!Answers(p)
         /\ Store!Tell(p, tx[p].answers)
         /\ LostPushes' = IF o = "lost" THEN LostPushes \cup {p} ELSE LostPushes
         /\ OpenUntilAnswered' /\ HandWrites'
<1>1. TypeOK /\ tx[p] \in Tx /\ Batch[p] \in Seq(Actions)
  BY SyncAssumption DEF StoreInv, ToldInv, TypeOK
<1>2. request[p] = "running" /\ tx[p].outcome = "open"
  BY DEF EndsAs, Over, StoreInv, OpenUntilAnswered
<1>3. /\ tx'[p].answers = tx[p].answers /\ tx'[p].outcome = o
      /\ tx'[p].hand = tx[p].hand
      /\ request'[p] = "answered"
      /\ \A q \in Pushes \ {p} : tx'[q] = tx[q] /\ request'[q] = request[q]
  BY <1>1 DEF EndsAs, TypeOK, Tx, Requests
<1>4. tx[p].answers \in Store!Answers(p)
  <2>1. tx[p].answers \in Seq(Statuses)
    BY <1>1 DEF Tx
  <2>2. Len(tx[p].answers) = Len(Batch[p])
    BY AllAnswered DEF StoreInv, EndsAs
  <2>3. tx[p].answers \in [1 .. Len(tx[p].answers) -> Statuses]
    BY <2>1, LenProperties
  <2>4. DOMAIN Batch[p] = 1 .. Len(Batch[p])
    BY <1>1, LenProperties
  <2> QED BY <2>2, <2>3, <2>4 DEF Store!Answers, Statuses
<1>5. Store!Tell(p, tx[p].answers)
  <2>1. Answered[p] = <<>>
    BY <1>2 DEF Answered
  <2>2. Answered' = [Answered EXCEPT ![p] = tx[p].answers]
    <3>1. \A q \in Pushes : Answered'[q] = IF q = p THEN tx[p].answers ELSE Answered[q]
      BY <1>3 DEF Answered
    <3>2. Answered' = [q \in Pushes |-> Answered'[q]]
      BY DEF Answered
    <3>3. [Answered EXCEPT ![p] = tx[p].answers]
            = [q \in Pushes |-> IF q = p THEN tx[p].answers ELSE Answered[q]]
      BY DEF Answered
    <3> QED BY <3>1, <3>2, <3>3
  <2> QED BY <2>1, <2>2 DEF Store!Tell, Answered
<1>6. LostPushes' = IF o = "lost" THEN LostPushes \cup {p} ELSE LostPushes
  BY <1>2, <1>3 DEF LostPushes
<1>7. OpenUntilAnswered' /\ HandWrites'
  BY <1>3 DEF OpenUntilAnswered, HandWrites, StoreInv
<1> QED BY <1>4, <1>5, <1>6, <1>7

\* The rows a push holds when it is over are those its answers name.
LEMMA HeldIsWritten ==
  ASSUME StoreInv, NEW p \in Pushes, Over(p), NEW x
  PROVE  Holds(p, x) <=> x \in Store!Written(p, tx[p].answers)
<1>1. /\ tx[p].answers \in Seq(Statuses) /\ Batch[p] \in Seq(Actions)
      /\ Len(tx[p].answers) = Len(Batch[p])
  BY SyncAssumption, AllAnswered DEF StoreInv, ToldInv, TypeOK, Tx
<1>2. \A i \in DOMAIN tx[p].answers : Batch[p][i] \in Actions
  BY <1>1
<1>3. TrueSoFar(p, tx[p].answers, tx[p].hand, tx[p].doomed)
  BY DEF StoreInv, ToldInv, Told
<1>4. tx[p].hand = {k \in DOMAIN tx[p].answers :
                       /\ tx[p].answers[k] = "APPLIED"
                       /\ Fate[Batch[p][k]] # "void"}
  <2>1. \A i \in tx[p].hand : Fate[Batch[p][i]] # "void"
    BY DEF StoreInv, HandWrites, Action
  <2> QED BY <1>3, <2>1 DEF TrueSoFar, Action
<1> QED BY <1>2, <1>4 DEF Holds, Over, Store!Written, TargetOf, Action

\* The rows after the end of a push are written as its answer says.
LEMMA CommitApplies ==
  ASSUME StoreInv, TypeOK', NEW p \in Pushes, Commit(p)
  PROVE  Store!Apply(p, tx[p].answers)
<1> DEFINE W == Store!Written(p, tx[p].answers)
<1>1. \A x : Holds(p, x) <=> x \in W
  BY HeldIsWritten DEF Commit
<1>2. Store!Tell(p, tx[p].answers) /\ LostPushes' = LostPushes
  BY EndTells DEF Commit, EndsAs
<1>3. W \subseteq Rows
  <2>1. tx[p].answers \in Store!Answers(p)
    BY EndTells DEF Commit, EndsAs
  <2>2. \A i \in DOMAIN tx[p].answers : Batch[p][i] \in Actions
    BY <2>1, SyncAssumption DEF Store!Answers
  <2> QED BY <2>2, SyncAssumption DEF Store!Written
<1>4. \A x \in Rows : row'[x] = IF x \in W
                                THEN [at |-> tx[p].began, rev |-> row[x].rev + 1]
                                ELSE row[x]
  BY <1>1 DEF Commit
<1>5. Store!Write(W)
  <2> HIDE DEF W
  <2> QED BY <1>3, <1>4 DEF TypeOK, Store!Write
<1> QED BY <1>2, <1>5 DEF Store!Apply, LostPushes

\* The steps that tell nothing.
Hidden == Answered' = Answered /\ LostPushes' = LostPushes

LEMMA HiddenIf ==
  ASSUME \A q \in Pushes :
           /\ tx'[q].outcome = tx[q].outcome
           /\ request'[q] = "answered" <=> request[q] = "answered"
           /\ request[q] = "answered" => tx'[q].answers = tx[q].answers
  PROVE  Hidden
<1>1. \A q \in Pushes : (request'[q] = "answered" /\ Answered'[q] = Answered[q])
                        \/ (request'[q] # "answered" /\ Answered'[q] = Answered[q])
  BY DEF Answered
<1>2. Answered' = Answered
  BY <1>1 DEF Answered
<1>3. LostPushes' = LostPushes
  BY DEF LostPushes
<1> QED BY <1>2, <1>3 DEF Hidden

LEMMA StoreStep ==
  ASSUME StoreInv, TypeOK', [Next]_vars
  PROVE  /\ OpenUntilAnswered' /\ HandWrites'
         /\ [Store!Next]_<<row, Answered, LostPushes>>
<1> DEFINE Fine == /\ OpenUntilAnswered' /\ HandWrites'
                   /\ [Store!Next]_<<row, Answered, LostPushes>>
<1> SUFFICES Fine
  OBVIOUS
<1>0. TypeOK /\ OpenUntilAnswered /\ HandWrites
  BY DEF StoreInv, ToldInv
<1>1. ASSUME NEW p \in Pushes, Moves(p)
      PROVE  Fine
  <2>1. request[p] = "running" /\ request' = request /\ row' = row
    BY <1>1 DEF Moves, Open
  <2>2. /\ \A q \in Pushes \ {p} : tx'[q] = tx[q]
        /\ tx'[p].outcome = tx[p].outcome
        /\ \/ tx'[p].hand = tx[p].hand
           \/ Writes(p) /\ tx'[p].hand = tx[p].hand \cup {At(p)}
    BY <1>0, <1>1, MovesChanges
  <2>3. Hidden
    BY <2>1, <2>2, HiddenIf
  <2>4. OpenUntilAnswered'
    BY <1>0, <2>1, <2>2 DEF OpenUntilAnswered
  <2>5. Writes(p) => Fate[Action(p, At(p))] # "void"
    BY DEF Writes, Now
  <2>6. HandWrites'
    BY <1>0, <2>2, <2>5 DEF HandWrites, Action
  <2> QED BY <2>1, <2>3, <2>4, <2>6 DEF Hidden
<1>2. ASSUME NEW p \in Pushes, Commit(p)
      PROVE  Fine
  <2>1. Store!Apply(p, tx[p].answers)
    BY <1>2, CommitApplies
  <2>2. tx[p].answers \in Store!Answers(p) /\ OpenUntilAnswered' /\ HandWrites'
    BY <1>2, EndTells DEF Commit, EndsAs
  <2> QED BY <2>1, <2>2 DEF Store!Next
<1>3. ASSUME NEW p \in Pushes, CommitDoomed(p)
      PROVE  Fine
  <2>1. /\ tx[p].answers \in Store!Answers(p) /\ OpenUntilAnswered' /\ HandWrites'
        /\ Store!Tell(p, tx[p].answers) /\ LostPushes' = LostPushes
    BY <1>3, EndTells DEF CommitDoomed, EndsAs
  <2>2. \E k \in DOMAIN tx[p].answers : tx[p].answers[k] = "REJECTED"
    BY <1>3 DEF CommitDoomed, StoreInv, ToldInv, Told, TrueSoFar
  <2>3. Store!RollBack(p, tx[p].answers)
    BY <1>3, <2>1, <2>2 DEF Store!RollBack, CommitDoomed, LostPushes
  <2> QED BY <2>1, <2>3 DEF Store!Next
<1>4. ASSUME NEW p \in Pushes, CommitLost(p)
      PROVE  Fine
  <2>1. /\ tx[p].answers \in Store!Answers(p) /\ OpenUntilAnswered' /\ HandWrites'
        /\ Store!Tell(p, tx[p].answers) /\ LostPushes' = LostPushes \cup {p}
    BY <1>4, EndTells DEF CommitLost, EndsAs
  <2>2. row' = row
    BY <1>4 DEF CommitLost
  <2>3. Store!Lose(p, tx[p].answers)
    BY <2>1, <2>2 DEF Store!Lose, LostPushes
  <2>4. tx[p].answers \in Store!Answers(p)
    BY <2>1
  <2>5. \E q \in Pushes : \E a \in Store!Answers(q) : Store!Lose(q, a)
    <3>1. \E a \in Store!Answers(p) : Store!Lose(p, a)
      BY <2>3, <2>4
    <3> QED BY <3>1
  <2>6. Store!Next
    BY <2>5 DEF Store!Next
  <2> QED BY <2>1, <2>6
<1>5. ASSUME NEW x \in Jobs, UpdateStatus(x)
      PROVE  Fine
  <2>1. Hidden /\ tx' = tx /\ request' = request
    BY <1>5, HiddenIf DEF UpdateStatus
  <2>2. Store!Write({x})
    BY <1>0, <1>5, SyncAssumption DEF UpdateStatus, TypeOK, Store!Write
  <2>3. Store!Touch(x)
    BY <2>1, <2>2 DEF Store!Touch, Hidden, Answered, LostPushes
  <2> QED BY <1>0, <1>5, <2>1, <2>3 DEF Store!Next, OpenUntilAnswered, HandWrites
<1>6. ASSUME NEW r \in Requests, Begin(r)
      PROVE  Fine
  <2>1. \A q \in Pushes :
           /\ tx'[q].outcome = tx[q].outcome /\ tx'[q].answers = tx[q].answers
           /\ tx'[q].hand = tx[q].hand
    <3> SUFFICES ASSUME NEW q \in Pushes
                 PROVE  /\ tx'[q].outcome = tx[q].outcome
                        /\ tx'[q].answers = tx[q].answers
                        /\ tx'[q].hand = tx[q].hand
      OBVIOUS
    <3>1. tx[q] \in Tx
      BY <1>0 DEF TypeOK
    <3>2. tx'[q] = tx[q] \/ tx'[q] = [tx[q] EXCEPT !.began = clock,
                                       !.base = [x \in Rows |-> row[x].rev]]
      BY <1>6 DEF Begin
    <3> QED BY <3>1, <3>2 DEF Tx
  <2>2. \A q \in Pushes : request'[q] = "answered" <=> request[q] = "answered"
    BY <1>0, <1>6 DEF Begin, TypeOK, Requests
  <2>3. Hidden
    BY <2>1, <2>2, HiddenIf
  <2> QED BY <1>0, <1>6, <2>1, <2>2, <2>3
          DEF Begin, Hidden, OpenUntilAnswered, HandWrites
<1>7. ASSUME UNCHANGED <<row, tx>>,
             \A q \in Pushes : request'[q] = "answered" <=> request[q] = "answered"
      PROVE  Fine
  <2>1. Hidden
    BY <1>7, HiddenIf
  <2> QED BY <1>0, <1>7, <2>1 DEF Hidden, OpenUntilAnswered, HandWrites
<1>8. ASSUME NEW r \in Requests, BeginFails(r) \/ (r \in Pulls /\ Pull(r))
      PROVE  Fine
  <2>1. \A q \in Pushes : request'[q] = "answered" <=> request[q] = "answered"
    BY <1>0, <1>8, SyncAssumption DEF BeginFails, Pull, TypeOK, Requests
  <2> QED BY <1>7, <1>8, <2>1 DEF BeginFails, Pull
<1>9. CASE Die
  <2>1. \A q \in Pushes : request'[q] = "answered" <=> request[q] = "answered"
    BY <1>9 DEF Die, Requests
  <2> QED BY <1>7, <1>9, <2>1 DEF Die
<1>10. CASE Tick \/ UNCHANGED vars
  BY <1>7, <1>10 DEF Tick, vars
<1> HIDE DEF Fine
<1>11. ASSUME NEW p \in Pushes, PushStep(p)
       PROVE  Fine
  <2>1. Queue(p) \/ Look(p) \/ Write(p) \/ Victim(p) => Moves(p)
    BY <1>0, StatementsMove
  <2> QED BY <1>1, <1>2, <1>3, <1>11, <2>1 DEF PushStep
<1>12. CASE Next
  <2>1. CASE \E r \in Requests : Begin(r) \/ BeginFails(r)
    BY <1>6, <1>8, <2>1
  <2>2. CASE \E r \in Pulls : Pull(r)
    BY <1>8, <2>2 DEF Requests
  <2>3. CASE \E p \in Pushes : PushStep(p) \/ CommitLost(p)
    BY <1>4, <1>11, <2>3
  <2>4. CASE \E x \in Jobs : UpdateStatus(x)
    BY <1>5, <2>4
  <2> QED BY <1>9, <1>10, <1>12, <2>1, <2>2, <2>3, <2>4 DEF Next
<1> QED BY <1>10, <1>12

\* ImplementsStore: for any batches, pool, faults and waiting, the rows are a store
\* of whole batches.  A push is seen by others in one step, the one in which it is
\* answered, and what is then written are the rows of the actions answered APPLIED;
\* else nothing is, and the answer has a rejection or the commit was lost.
THEOREM PushesAreAtomic == Spec => ImplementsStore
<1>1. Init => StoreInv
  <2> SUFFICES ASSUME Init PROVE StoreInv
    OBVIOUS
  <2>1. \A p \in Pushes : tx[p].outcome = "open" /\ tx[p].hand = {}
    BY UnbegunIs DEF Init
  <2> QED BY <2>1, ToldInit DEF StoreInv, OpenUntilAnswered, HandWrites
<1>2. Init => Store!Init
  <2> SUFFICES ASSUME Init PROVE Store!Init
    OBVIOUS
  <2>1. \A p \in Pushes : request[p] = "waiting" /\ tx[p].outcome = "open"
    BY UnbegunIs DEF Init, Requests
  <2>2. Answered = [p \in Pushes |-> <<>>] /\ LostPushes = {}
    BY <2>1 DEF Answered, LostPushes
  <2> QED BY <2>2 DEF Store!Init, Init
<1>3. StoreInv /\ [Next]_vars => StoreInv'
  BY ToldStep, StoreStep DEF StoreInv, ToldInv
<1>4. StoreInv /\ StoreInv' /\ [Next]_vars
        => [Store!Next]_<<row, Answered, LostPushes>>
  BY StoreStep DEF StoreInv, ToldInv
<1> QED BY <1>1, <1>2, <1>3, <1>4, PTL
        DEF Spec, ImplementsStore, Store!Spec, Answered, LostPushes
=============================================================================
