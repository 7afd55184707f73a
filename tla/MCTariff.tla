------------------------------ MODULE MCTariff ------------------------------
(* An instance of TariffSchedule for TLC. *)
EXTENDS TariffSchedule

CONSTANTS r1, r2, r3

\* The residential tiers of seeds/002_tariff_rates.sql, in smaller volumes.
TwoTiers ==
    [r \in {r1, r2, r3} |->
        CASE r = r1 -> [name |-> "T1", min |-> 0, max |-> 2, from |-> 1,
                        to |-> NoDate, active |-> TRUE]
          [] r = r2 -> [name |-> "T2", min |-> 2, max |-> NoMax, from |-> 1,
                        to |-> NoDate, active |-> TRUE]
          [] r = r3 -> NoRow]

\* A tier above a gap, and one that overlaps.
NewTiers == {[name |-> "T2", min |-> 4, max |-> 6],
             [name |-> "T3", min |-> 1, max |-> 3]}

Consumptions == {3, 5}
-----------------------------------------------------------------------------
\* The rates change, or the VAT does, until every calculation has ended.
OneTableAtATime ==
    /\ rate = SeedRates \/ \A c \in Changes : change[c] = Unasked
    /\ \E b \in Bills : bill[b].stage \in {"idle", "rates", "tiers"}
=============================================================================
