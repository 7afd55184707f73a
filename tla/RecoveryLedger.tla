--------------------------- MODULE RecoveryLedger ---------------------------
(***************************************************************************)
(* What the recovery pipeline promises the Ministry: every anomaly flag has*)
(* one line in a ledger.  A line is opened once, moves only along the      *)
(* transitions the revenue handlers document, and is never reopened.       *)
(***************************************************************************)
CONSTANT Flags
VARIABLE stage

Edges == {<<"PENDING", "FIELD_VERIFIED">>,
          <<"PENDING", "CONFIRMED">>, <<"FIELD_VERIFIED", "CONFIRMED">>,
          <<"PENDING", "GRA_SIGNED">>, <<"FIELD_VERIFIED", "GRA_SIGNED">>,
          <<"CONFIRMED", "GRA_SIGNED">>,
          <<"CONFIRMED", "COLLECTED">>, <<"GRA_SIGNED", "COLLECTED">>}

Init == stage = [f \in Flags |-> "NONE"]

Open(f) == /\ stage[f] = "NONE"
           /\ stage' = [stage EXCEPT ![f] = "PENDING"]

Advance(f) == \E s \in {"FIELD_VERIFIED", "CONFIRMED", "GRA_SIGNED", "COLLECTED"} :
                 /\ <<stage[f], s>> \in Edges
                 /\ stage' = [stage EXCEPT ![f] = s]

Next == \E f \in Flags : Open(f) \/ Advance(f)

Spec == Init /\ [][Next]_stage
=============================================================================
