----------------------------- MODULE BatchStore -----------------------------
(***************************************************************************)
(* What a push promises, whatever it waits for on its way: its batch is in *)
(* the rows all at once, in the very step in which it is answered, with    *)
(* one time on every row and exactly as the answer says; or it is not      *)
(* there at all, and then the answer rejects something or the commit was   *)
(* lost.                                                                   *)
(***************************************************************************)
EXTENDS Naturals, Sequences
CONSTANTS
    Pushes, Rows, Actions,
    Jobs,     \* the rows that others write too
    Batch,    \* the actions of a push, in order
    Target,   \* the row an action writes
    Idle      \* actions that are applied without writing
VARIABLES
    row,      \* updated_at, and how often the row was written
    told,     \* what each push was answered, <<>> before that
    lost      \* pushes whose commit was lost

Answers(p) == [DOMAIN Batch[p] -> {"APPLIED", "CONFLICT", "REJECTED"}]

\* The rows that a batch writes which is answered a.
Written(p, a) ==
    {Target[Batch[p][i]] : i \in {k \in DOMAIN a : /\ a[k] = "APPLIED"
                                                   /\ Batch[p][k] \notin Idle}}

Init == /\ row = [x \in Rows |-> [at |-> 0, rev |-> 0]]
        /\ told = [p \in Pushes |-> <<>>]
        /\ lost = {}

\* The rows of W, and no others, are written once, all with one time.
Write(W) ==
    /\ row' \in [Rows -> [at : Nat, rev : Nat]]
    /\ \A x \in Rows \ W : row'[x] = row[x]
    /\ \A x \in W : /\ row'[x].rev = row[x].rev + 1
                    /\ \A y \in W : row'[y].at = row'[x].at

Tell(p, a) == told[p] = <<>> /\ told' = [told EXCEPT ![p] = a]

Apply(p, a) ==
    /\ Tell(p, a)
    /\ Write(Written(p, a))
    /\ UNCHANGED lost

RollBack(p, a) ==
    /\ Tell(p, a)
    /\ \E i \in DOMAIN a : a[i] = "REJECTED"
    /\ UNCHANGED <<row, lost>>

Lose(p, a) ==
    /\ Tell(p, a)
    /\ lost' = lost \cup {p}
    /\ UNCHANGED row

Touch(x) == Write({x}) /\ UNCHANGED <<told, lost>>

Next == \/ \E p \in Pushes : \E a \in Answers(p) :
              Apply(p, a) \/ RollBack(p, a) \/ Lose(p, a)
        \/ \E x \in Jobs : Touch(x)

Spec == Init /\ [][Next]_<<row, told, lost>>
=============================================================================
