-------------------------------- MODULE MCGwl --------------------------------
(* Instances of GwlCases for TLC. *)
EXTENDS GwlCases, TLC

\* An account overbilled by an amount, one by none, and one in the wrong category
Overbilled == [kind |-> "OVERBILLING", billed |-> TRUE]
FactsHere == {Overbilled, [kind |-> "OVERBILLING", billed |-> FALSE],
              [kind |-> "CATEGORY_MISMATCH", billed |-> TRUE]}

Symmetry == Permutations(Staff) \cup Permutations(Officers)

\* Bound: more than one call is for an account overbilled by an amount.  The other two
\* cases differ from it by a refusal and by one modal, which one call shows.
MoreCallsIfOverbilled ==
    (\A c \in Cases : fact[c] # Overbilled) => \A k \in Calls : k > 1 => call[k] = Unused
=============================================================================
