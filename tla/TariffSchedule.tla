--------------------------- MODULE TariffSchedule ---------------------------
(* The tariff rates of one category and the VAT, kept by administrators      *)
(* through the gateway (tariff_admin_handler.go) and read by the tariff      *)
(* engine for a bill's calculation (tariff_service.go). Each statement of    *)
(* the handlers commits by itself; an engine's calculation reads the rates,  *)
(* then the VAT, then walks the tiers. Prices, charges and rounding are      *)
(* left out: a line of a bill is the volume its tier is charged for.         *)
EXTENDS Integers, Sequences, FiniteSets

CONSTANTS
    Rates,      \* ids of rows of tariff_rates
    SeedRates,  \* the rates of the category at the start
    Offers,     \* the name, minimum and maximum of tiers that are created
    Tops,       \* the maxima a tier may be changed to
    Dates,      \* the dates administrators and bills name
    Changes,    \* calls of CreateVATConfig, and the ids of the rows they insert
    Seed,       \* the VAT at the start
    SeedFrom,   \* the date from which it holds
    Bills,      \* calculations
    Volumes,    \* their consumptions, in cubic metres
    NoRow, NoMax, NoDate, NoChange

RateRow == [name : STRING, min : Int, max : Int \cup {NoMax},
            from : Nat, to : Nat \cup {NoDate}, active : BOOLEAN]
VatRow  == [from : Nat, to : Nat \cup {NoDate}, active : BOOLEAN]

ASSUME NoValues == /\ NoRow \notin RateRow /\ NoRow \notin VatRow
                   /\ NoMax \notin Int /\ NoDate \notin Nat
                   /\ NoChange \notin Changes /\ Seed \notin Changes
ASSUME Inputs == /\ IsFiniteSet(Rates)
                 /\ Offers \subseteq [name : STRING, min : Int, max : Int \cup {NoMax}]
                 /\ Tops \subseteq Int /\ Volumes \subseteq Int
                 /\ Dates \subseteq Nat /\ SeedFrom \in Nat

VARIABLES
    rate,    \* the rows of tariff_rates
    vat,     \* the rows of vat_config
    change,  \* the calls of CreateVATConfig; "met": the rows its UPDATE found
    cut,     \* history: the change whose UPDATE took effect last
    bill     \* the calculations

vars == <<rate, vat, change, cut, bill>>

\* The constraint tariff_rates_category_tier_date_unique.
OneRowPerTierAndDate(T) ==
    \A r, s \in Rates : /\ r # s
                        /\ T[r] # NoRow /\ T[s] # NoRow
                        => T[r].name # T[s].name \/ T[r].from # T[s].from

Open(row) == row.active /\ row.to = NoDate

ASSUME Schedule == /\ SeedRates \in [Rates -> RateRow \cup {NoRow}]
                   /\ OneRowPerTierAndDate(SeedRates)
                   /\ \A r \in Rates : SeedRates[r] # NoRow => Open(SeedRates[r])

Unasked == [stage |-> "unused", from |-> NoDate, components |-> FALSE, met |-> {}]
NoBill  == [stage |-> "idle", date |-> NoDate, volume |-> 0, rates |-> <<>>,
            lines |-> <<>>, left |-> 0, consumed |-> 0]

Init ==
    /\ rate = SeedRates
    /\ vat = [v \in Changes \cup {Seed} |->
                IF v = Seed THEN [from |-> SeedFrom, to |-> NoDate, active |-> TRUE]
                            ELSE NoRow]
    /\ change = [c \in Changes |-> Unasked]
    /\ cut = NoChange
    /\ bill = [b \in Bills |-> NoBill]
-----------------------------------------------------------------------------
(* The administrators' calls on rates. *)

\* Mutant of CreateTariffRate: the table has no unique constraint.
CreateAgain(r, o, d) ==
    /\ rate[r] = NoRow
    /\ rate' = [rate EXCEPT ![r] = [name |-> o.name, min |-> o.min, max |-> o.max,
                                    from |-> d, to |-> NoDate, active |-> TRUE]]
    /\ UNCHANGED <<vat, change, cut, bill>>

CreateTariffRate(r, o, d) ==
    /\ rate[r] = NoRow
    /\ \A s \in Rates : rate[s] # NoRow => rate[s].name # o.name \/ rate[s].from # d
    /\ rate' = [rate EXCEPT ![r] = [name |-> o.name, min |-> o.min, max |-> o.max,
                                    from |-> d, to |-> NoDate, active |-> TRUE]]
    /\ UNCHANGED <<vat, change, cut, bill>>

\* The row an end date leaves, whose tier bills no more from now on.
Ended(row, d) == [row EXCEPT !.to = d, !.active = FALSE]

\* Written in place. A maximum or an end that is not given stays as it is.
UpdateTariffRate(r, top, d) ==
    /\ rate[r] # NoRow
    /\ LET topped == IF top = NoMax THEN rate[r] ELSE [rate[r] EXCEPT !.max = top]
       IN  rate' = [rate EXCEPT ![r] = IF d = NoDate THEN topped ELSE Ended(topped, d)]
    /\ UNCHANGED <<vat, change, cut, bill>>

DeactivateTariffRate(r, d) ==
    /\ rate[r] # NoRow
    /\ rate' = [rate EXCEPT ![r] = Ended(@, d)]
    /\ UNCHANGED <<vat, change, cut, bill>>
-----------------------------------------------------------------------------
(* CreateVATConfig: an UPDATE that ends every active VAT, then an INSERT. *)

Present == {v \in DOMAIN vat : vat[v] # NoRow}

\* "components" is null when the page of the portal calls.
Asked(d, components, met) ==
    [stage |-> "half", from |-> d, components |-> components, met |-> met]

\* Mutant of ReplaceVAT: the UPDATE ends only the rows that began earlier.
ReplaceEarlierVAT(c, d, components) ==
    /\ change[c].stage = "unused"
    /\ vat' = [v \in DOMAIN vat |-> IF v \in Present /\ vat[v].active /\ vat[v].from < d
                                    THEN Ended(vat[v], d) ELSE vat[v]]
    /\ change' = [change EXCEPT ![c] = Asked(d, components, Present)]
    /\ cut' = c
    /\ UNCHANGED <<rate, bill>>

ReplaceVAT(c, d, components) ==
    /\ change[c].stage = "unused"
    /\ vat' = [v \in DOMAIN vat |-> IF v \in Present /\ vat[v].active
                                    THEN Ended(vat[v], d) ELSE vat[v]]
    /\ change' = [change EXCEPT ![c] = Asked(d, components, Present)]
    /\ cut' = c
    /\ UNCHANGED <<rate, bill>>

\* The UPDATE fails; its error is not looked at.
ReplaceFails(c, d, components) ==
    /\ change[c].stage = "unused"
    /\ change' = [change EXCEPT ![c] = Asked(d, components, {})]
    /\ UNCHANGED <<rate, vat, cut, bill>>

\* A null is refused by components JSONB NOT NULL.
InsertVAT(c) ==
    /\ change[c].stage = "half"
    /\ change[c].components
    /\ vat' = [vat EXCEPT ![c] = [from |-> change[c].from, to |-> NoDate, active |-> TRUE]]
    /\ change' = [change EXCEPT ![c].stage = "done"]
    /\ UNCHANGED <<rate, cut, bill>>

\* The INSERT is refused, or the gateway stops before it.
RefuseVAT(c) ==
    /\ change[c].stage = "half"
    /\ change' = [change EXCEPT ![c].stage = "broken"]
    /\ UNCHANGED <<rate, vat, cut, bill>>
-----------------------------------------------------------------------------
(* A calculation of the engine. *)

\* Mutant of InForce: a row does not hold on the day it begins.
InForceAfter(row, d) == row.active /\ row.from < d /\ (row.to = NoDate \/ row.to > d)

InForce(row, d) == row.active /\ row.from <= d /\ (row.to = NoDate \/ row.to > d)

RatesOn(d) == {rate[r] : r \in {s \in Rates : rate[s] # NoRow /\ InForce(rate[s], d)}}
VATsOn(d)  == {v \in Present : InForce(vat[v], d)}

\* Mutant of InOrder: ORDER BY is lost.
InAnyOrder(S) ==
    {q \in [1..Cardinality(S) -> S] : \A i, j \in DOMAIN q : i < j => q[i] # q[j]}

\* The orders of a set of rates by their minimum; of equal ones either comes first.
InOrder(S) ==
    {q \in [1..Cardinality(S) -> S] :
        \A i, j \in DOMAIN q : i < j => q[i] # q[j] /\ q[i].min <= q[j].min}

ReadRates(b, d, v) ==
    /\ bill[b].stage = "idle"
    /\ \E q \in InOrder(RatesOn(d)) :
         bill' = [bill EXCEPT ![b] =
                    [stage |-> IF q = <<>> THEN "norates" ELSE "rates", date |-> d,
                     volume |-> v, rates |-> q, lines |-> <<>>, left |-> v, consumed |-> 0]]
    /\ UNCHANGED <<rate, vat, change, cut>>

ReadVAT(b) ==
    /\ bill[b].stage = "rates"
    /\ bill' = [bill EXCEPT ![b].stage = IF VATsOn(bill[b].date) = {} THEN "novat" ELSE "tiers"]
    /\ UNCHANGED <<rate, vat, change, cut>>

\* A query fails or the engine stops.
FailBill(b) ==
    /\ bill[b].stage \in {"idle", "rates", "tiers"}
    /\ bill' = [bill EXCEPT ![b].stage = "failed"]
    /\ UNCHANGED <<rate, vat, change, cut>>

Least(x, y) == IF x < y THEN x ELSE y

\* Mutant of GapBefore: a gap is charged in full whatever is left.
WholeGap(t, consumed, left) == IF t.min > consumed THEN t.min - consumed ELSE 0

\* The volume between what was billed so far and a tier's minimum.
GapBefore(t, consumed, left) ==
    IF t.min > consumed THEN Least(t.min - consumed, left) ELSE 0

\* The volume a tier takes of what is left.
TierVolume(t, left) ==
    IF t.max = NoMax THEN left ELSE Least(left, t.max - t.min)

\* What one turn of the loop charges at the price of tier t.
Charged(t, consumed, left) ==
    LET gap == GapBefore(t, consumed, left)
    IN  IF left - gap <= 0 THEN gap ELSE gap + TierVolume(t, left - gap)

MoreTiers(B) == B.left > 0 /\ Len(B.lines) < Len(B.rates)

Tier(b) ==
    /\ bill[b].stage = "tiers"
    /\ MoreTiers(bill[b])
    /\ LET B      == bill[b]
           volume == Charged(B.rates[Len(B.lines) + 1], B.consumed, B.left)
       IN  bill' = [bill EXCEPT ![b] =
                      [B EXCEPT !.lines = Append(B.lines, volume),
                                !.left = B.left - volume,
                                !.consumed = B.consumed + volume]]
    /\ UNCHANGED <<rate, vat, change, cut>>

Finish(b) ==
    /\ bill[b].stage = "tiers"
    /\ ~MoreTiers(bill[b])
    /\ bill' = [bill EXCEPT ![b].stage = "done"]
    /\ UNCHANGED <<rate, vat, change, cut>>
-----------------------------------------------------------------------------
RateStep ==
    \E r \in Rates :
        \/ \E o \in Offers, d \in Dates : CreateTariffRate(r, o, d)
        \/ \E top \in Tops \cup {NoMax}, d \in Dates \cup {NoDate} : UpdateTariffRate(r, top, d)
        \/ \E d \in Dates : DeactivateTariffRate(r, d)

VATStep ==
    \E c \in Changes :
        \/ \E d \in Dates, components \in BOOLEAN :
             ReplaceVAT(c, d, components) \/ ReplaceFails(c, d, components)
        \/ InsertVAT(c) \/ RefuseVAT(c)

BillStep ==
    \E b \in Bills :
        \/ \E d \in Dates, v \in Volumes : ReadRates(b, d, v)
        \/ ReadVAT(b) \/ FailBill(b) \/ Tier(b) \/ Finish(b)

Next == RateStep \/ VATStep \/ BillStep

Spec == Init /\ [][Next]_vars
-----------------------------------------------------------------------------
BillRow == [stage : {"idle", "norates", "rates", "novat", "tiers", "done", "failed"},
            date : Nat \cup {NoDate}, volume : Int, rates : Seq(RateRow),
            lines : Seq(Int), left : Int, consumed : Int]

ChangeRow == [stage : {"unused", "half", "done", "broken"}, from : Nat \cup {NoDate},
              components : BOOLEAN, met : SUBSET (Changes \cup {Seed})]

\* The tables keep their types and the uniqueness of a tier's name and date,
\* and a bill has no more lines than it has rates.
TypeOK ==
    /\ rate \in [Rates -> RateRow \cup {NoRow}]
    /\ OneRowPerTierAndDate(rate)
    /\ vat \in [Changes \cup {Seed} -> VatRow \cup {NoRow}]
    /\ change \in [Changes -> ChangeRow]
    /\ cut \in Changes \cup {NoChange}
    /\ bill \in [Bills -> BillRow]
    /\ \A b \in Bills : Len(bill[b].lines) <= Len(bill[b].rates)

\* However the administrators left the tiers (with gaps, overlapping, upside
\* down), a calculation that read an unlimited tier bills every cubic metre and
\* none beyond the consumption; only the lack of one leaves a rest unbilled
\* (the loop of CalculateShadowBill).
WholeVolumeBilled ==
    \A b \in Bills :
        /\ bill[b].stage = "done" /\ bill[b].volume >= 0
        => /\ bill[b].left >= 0
           /\ bill[b].consumed = bill[b].volume - bill[b].left
           /\ bill[b].left > 0 => \A k \in DOMAIN bill[b].rates : bill[b].rates[k].max # NoMax

\* Tiers that do not overlap, in whatever order the table holds them.
Below(s, t) == s.max # NoMax /\ s.max <= t.min
Apart(q) ==
    /\ \A i \in DOMAIN q : 0 <= q[i].min /\ (q[i].max = NoMax \/ q[i].min < q[i].max)
    /\ \A i, j \in DOMAIN q : i # j => Below(q[i], q[j]) \/ Below(q[j], q[i])

\* The part of volume v up to the top of the k-th tier.
Upto(q, k, v) ==
    IF k = 0 THEN 0 ELSE IF q[k].max = NoMax THEN v ELSE Least(v, q[k].max)

Line(B, k) == IF k <= Len(B.lines) THEN B.lines[k] ELSE 0

\* Where the tiers do not overlap, each of them is charged for the volume
\* between the top of the tier below and its own: its own cubic metres and
\* those of a gap below it, neither more nor less (the gap guard, the widths
\* and the order of the tiers in CalculateShadowBill and its repository).
EachVolumeInItsTier ==
    \A b \in Bills :
        LET B == bill[b]
        IN  B.stage = "done" /\ B.volume >= 0 /\ Apart(B.rates)
            => \A k \in DOMAIN B.rates :
                   Line(B, k) = Upto(B.rates, k, B.volume) - Upto(B.rates, k - 1, B.volume)

\* Two VATs are active together only when their two calls overlapped, each
\* UPDATE running before the other's INSERT, or when an UPDATE failed
\* (CreateVATConfig, whose statements are not one transaction).
TwoVATsOverlapped ==
    \A c \in Changes, v \in Present :
        /\ c \in Present /\ c # v
        /\ vat[c].active /\ vat[v].active
        => v \notin change[c].met

\* A calculation is refused for want of a VAT only while the change that last
\* ended the active one has not inserted its own, or when the VAT in force
\* begins after the bill's date: the ones before it no longer count.
Standing == IF cut = NoChange THEN Seed ELSE cut
VATOutageExplained ==
    [][\A b \in Bills :
         bill[b].stage # "novat" /\ bill'[b].stage = "novat"
         => \/ cut # NoChange /\ change[cut].stage \in {"half", "broken"}
            \/ vat[Standing].active /\ vat[Standing].from > bill[b].date]_vars
=============================================================================
