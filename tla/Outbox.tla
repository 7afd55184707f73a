------------------------------- MODULE Outbox -------------------------------
(***************************************************************************)
(* What the queue is to an officer: an at-least-once outbox.  An entry is  *)
(* put in the box at most once, and not after the officer was told of it;  *)
(* it leaves the box only when the server has taken it, and nobody is told *)
(* of an entry that is neither in the box nor taken.  The box survives     *)
(* everything; what was told is never untold.  That the server keeps what  *)
(* it takes is not the outbox's to promise.                                *)
(***************************************************************************)
CONSTANT
    Entries   \* what officers enter
VARIABLES
    box,      \* NONE, PENDING (in the box) or DONE (sent and taken out)
    taken,    \* entries whose request the server has run
    told      \* entries the officer was told of

Safe(e) == box[e] = "PENDING" \/ e \in taken

Init == /\ box = [e \in Entries |-> "NONE"]
        /\ taken = {}
        /\ told = {}

\* The officer may be told in the same step.
Keep(e) == /\ box[e] = "NONE" /\ e \notin told
           /\ box' = [box EXCEPT ![e] = "PENDING"]
           /\ told' \in {told, told \cup {e}}
           /\ UNCHANGED taken

Take(e) == /\ taken' = taken \cup {e}
           /\ UNCHANGED <<box, told>>

Tell(e) == /\ Safe(e)
           /\ told' = told \cup {e}
           /\ UNCHANGED <<box, taken>>

Drop(e) == /\ box[e] = "PENDING" /\ e \in taken
           /\ box' = [box EXCEPT ![e] = "DONE"]
           /\ UNCHANGED <<taken, told>>

Next == \E e \in Entries : Keep(e) \/ Take(e) \/ Tell(e) \/ Drop(e)

Spec == Init /\ [][Next]_<<box, taken, told>>
=============================================================================
