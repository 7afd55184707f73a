---------------------------- MODULE TariffProofs ----------------------------
(* Proofs about TariffSchedule, for any tiers, dates, changes and bills.     *)
EXTENDS TariffSchedule, FiniteSetTheorems, WellFoundedInduction, TLAPS

(* The inductive invariant. *)

\* A row an UPDATE found is never active again.
MetStaysEnded ==
    \A c \in Changes : \A v \in change[c].met : vat[v] # NoRow /\ ~vat[v].active

\* A change's row is there once its INSERT has run.
RowOnceDone == \A c \in Changes : vat[c] # NoRow <=> change[c].stage = "done"

\* A change that was asked for has a date.
AskedDated == \A c \in Changes : change[c].stage # "unused" => change[c].from \in Nat

\* The seed, or the row of the change that cut last, is active.
StandingActive ==
    /\ cut = NoChange => vat[Seed] # NoRow /\ vat[Seed].active
    /\ cut # NoChange => /\ change[cut].stage # "unused"
                         /\ change[cut].stage = "done" => vat[cut].active

Sorted(q) == \A i, j \in DOMAIN q : i < j => q[i].min <= q[j].min

\* What the loop has charged after its last turn.
LinesRight(B) ==
    /\ B.consumed = Upto(B.rates, Len(B.lines), B.volume)
    /\ \A k \in 1..Len(B.lines) :
         B.lines[k] = Upto(B.rates, k, B.volume) - Upto(B.rates, k - 1, B.volume)

Walked(B) ==
    /\ B.consumed = B.volume - B.left
    /\ B.volume >= 0 => B.left >= 0
    /\ \A k \in 1..Len(B.lines) : B.rates[k].max = NoMax => B.left = 0
    /\ B.volume >= 0 /\ Apart(B.rates) => LinesRight(B)

LoopOK(B) ==
    /\ B.stage \in {"rates", "tiers"} => B.date \in Nat
    /\ Sorted(B.rates)
    /\ B.stage = "rates" => B.lines = <<>> /\ B.left = B.volume /\ B.consumed = 0
    /\ B.stage \in {"tiers", "done"} => Walked(B)
    /\ B.stage = "done" => ~MoreTiers(B)

LoopsOK == \A b \in Bills : LoopOK(bill[b])

\* An end date and is_active = FALSE are written together and never taken back,
\* and a calculation reads open rows only.
EndsDeactivate ==
    /\ \A r \in Rates : rate[r] # NoRow => (rate[r].active <=> rate[r].to = NoDate)
    /\ \A v \in Present : vat[v].active <=> vat[v].to = NoDate
    /\ \A b \in Bills : \A k \in DOMAIN bill[b].rates : Open(bill[b].rates[k])

IInv == /\ TypeOK /\ EndsDeactivate
        /\ MetStaysEnded /\ RowOnceDone /\ AskedDated /\ StandingActive
        /\ LoopsOK
-----------------------------------------------------------------------------
(* The tiers. *)

LEMMA RowParts ==
    ASSUME NEW t \in RateRow
    PROVE  t.min \in Int /\ (t.max # NoMax => t.max \in Int)
BY DEF RateRow

LEMMA BillParts ==
    ASSUME NEW B \in BillRow
    PROVE  /\ B.rates \in Seq(RateRow) /\ B.lines \in Seq(Int)
           /\ B.left \in Int /\ B.consumed \in Int /\ B.volume \in Int
           /\ Len(B.lines) \in Nat /\ Len(B.rates) \in Nat
           /\ \A i \in 1..Len(B.rates) : B.rates[i] \in RateRow
<1>1. /\ B.rates \in Seq(RateRow) /\ B.lines \in Seq(Int)
      /\ B.left \in Int /\ B.consumed \in Int /\ B.volume \in Int
  BY DEF BillRow
<1> QED
  BY <1>1

\* The bill after a turn that charges "volume".
Turned(B, volume) == [B EXCEPT !.lines = Append(B.lines, volume),
                               !.left = B.left - volume,
                               !.consumed = B.consumed + volume]

LEMMA TurnedParts ==
    ASSUME NEW B \in BillRow, NEW volume \in Int
    PROVE  LET C == Turned(B, volume)
           IN  /\ C.stage = B.stage /\ C.date = B.date
               /\ C.volume = B.volume /\ C.rates = B.rates
               /\ C.lines = Append(B.lines, volume)
               /\ C.left = B.left - volume /\ C.consumed = B.consumed + volume
               /\ C \in BillRow
<1> DEFINE C == Turned(B, volume)
<1>1. /\ C.stage = B.stage /\ C.date = B.date /\ C.volume = B.volume /\ C.rates = B.rates
      /\ C.lines = Append(B.lines, volume)
      /\ C.left = B.left - volume /\ C.consumed = B.consumed + volume
  BY DEF Turned, BillRow
<1>2. /\ Append(B.lines, volume) \in Seq(Int)
      /\ B.left - volume \in Int /\ B.consumed + volume \in Int
  BY BillParts
<1>3. C \in BillRow
  BY <1>2 DEF Turned, BillRow
<1> QED
  BY <1>1, <1>3

\* The repository answers with a sorted sequence of the rates in force.
LEMMA InOrderSorted ==
    ASSUME NEW S \in SUBSET RateRow, IsFiniteSet(S), NEW q \in InOrder(S)
    PROVE  /\ q \in Seq(RateRow)
           /\ Len(q) = Cardinality(S)
           /\ Sorted(q)
           /\ \A k \in DOMAIN q : q[k] \in S
<1>1. Cardinality(S) \in Nat
  BY FS_CardinalityType
<1>2. q \in [1..Cardinality(S) -> S]
  BY DEF InOrder
<1>3. q \in Seq(S) /\ Len(q) = Cardinality(S) /\ DOMAIN q = 1..Cardinality(S)
  BY <1>1, <1>2
<1>4. Sorted(q)
  BY DEF InOrder, Sorted
<1>5. q \in Seq(RateRow)
  BY <1>2, <1>3
<1> QED
  BY <1>2, <1>3, <1>4, <1>5

\* One turn of the loop charges no more than what is left, and all of it in an
\* unlimited tier.
LEMMA TurnBounded ==
    ASSUME NEW t \in RateRow, NEW consumed \in Int, NEW left \in Int, left > 0
    PROVE  /\ Charged(t, consumed, left) \in Int
           /\ Charged(t, consumed, left) <= left
           /\ t.max = NoMax => Charged(t, consumed, left) = left
<1> DEFINE gap == GapBefore(t, consumed, left)
<1>1. t.min \in Int /\ (t.max # NoMax => t.max \in Int)
  BY DEF RateRow
<1>2. gap \in Int /\ gap <= left
  BY <1>1 DEF GapBefore, Least
<1> HIDE DEF gap
<1>3. ASSUME NEW rest \in Int
      PROVE  /\ TierVolume(t, rest) \in Int
             /\ TierVolume(t, rest) <= rest
             /\ t.max = NoMax => TierVolume(t, rest) = rest
  BY <1>1 DEF TierVolume, Least
<1>4. Charged(t, consumed, left)
      = IF left - gap <= 0 THEN gap ELSE gap + TierVolume(t, left - gap)
  BY DEF Charged, gap
<1>5. left - gap \in Int
  BY <1>2
<1>6. /\ TierVolume(t, left - gap) \in Int
      /\ TierVolume(t, left - gap) <= left - gap
      /\ t.max = NoMax => TierVolume(t, left - gap) = left - gap
  BY <1>3, <1>5
<1> QED
  BY <1>2, <1>4, <1>6

\* One turn, at or below the tier's minimum, charges up to the tier's top.
LEMMA TurnToTheTop ==
    ASSUME NEW t \in RateRow, NEW consumed \in Int, NEW volume \in Int,
           consumed < volume, consumed <= t.min,
           t.max = NoMax \/ t.min < t.max
    PROVE  consumed + Charged(t, consumed, volume - consumed)
           = IF t.max = NoMax THEN volume ELSE Least(volume, t.max)
<1>1. t.min \in Int /\ (t.max # NoMax => t.max \in Int)
  BY DEF RateRow
<1>2. CASE volume <= t.min
  <2>1. Charged(t, consumed, volume - consumed) = volume - consumed
    BY <1>1, <1>2 DEF Charged, GapBefore, Least
  <2> QED
    BY <1>1, <1>2, <2>1 DEF Least
<1>3. CASE volume > t.min
  <2>1. GapBefore(t, consumed, volume - consumed) = t.min - consumed
    BY <1>1, <1>3 DEF GapBefore, Least
  <2>2. Charged(t, consumed, volume - consumed)
        = (t.min - consumed) + TierVolume(t, volume - t.min)
    <3>1. (volume - consumed) - (t.min - consumed) = volume - t.min
      BY <1>1
    <3> QED
      BY <1>1, <1>3, <2>1, <3>1 DEF Charged
  <2>3. CASE t.max = NoMax
    BY <1>1, <2>2, <2>3 DEF TierVolume
  <2>4. CASE t.max # NoMax
    BY <1>1, <1>3, <2>2, <2>4 DEF TierVolume, Least
  <2> QED
    BY <2>3, <2>4
<1> QED
  BY <1>1, <1>2, <1>3

\* In a sorted sequence of tiers that do not overlap, each ends below the next.
LEMMA ApartSorted ==
    ASSUME NEW q \in Seq(RateRow), Sorted(q), Apart(q),
           NEW i \in 1..Len(q), NEW j \in 1..Len(q), i < j
    PROVE  Below(q[i], q[j])
<1>1. DOMAIN q = 1..Len(q) /\ q[i] \in RateRow /\ q[j] \in RateRow
  OBVIOUS
<1>2. q[i].min \in Int /\ q[j].min \in Int /\ (q[j].max # NoMax => q[j].max \in Int)
  BY <1>1 DEF RateRow
<1>3. q[i].min <= q[j].min
  BY <1>1 DEF Sorted
<1>4. q[j].max = NoMax \/ q[j].min < q[j].max
  BY <1>1 DEF Apart
<1>5. Below(q[i], q[j]) \/ Below(q[j], q[i])
  BY <1>1 DEF Apart
<1>6. ~Below(q[j], q[i])
  BY <1>2, <1>3, <1>4 DEF Below
<1> QED
  BY <1>5, <1>6
-----------------------------------------------------------------------------
(* One turn of the loop. *)

LEMMA TurnKeepsWalked ==
    ASSUME NEW B \in BillRow, LoopOK(B), B.stage = "tiers", MoreTiers(B),
           NEW volume, volume = Charged(B.rates[Len(B.lines) + 1], B.consumed, B.left)
    PROVE  /\ Turned(B, volume) \in BillRow
           /\ LoopOK(Turned(B, volume))
           /\ Len(Turned(B, volume).lines) <= Len(B.rates)
<1> DEFINE C == Turned(B, volume)
           n == Len(B.lines)
           t == B.rates[n + 1]
<1>1. /\ B.rates \in Seq(RateRow) /\ B.lines \in Seq(Int)
      /\ B.left \in Int /\ B.consumed \in Int /\ B.volume \in Int
      /\ n \in Nat /\ Len(B.rates) \in Nat
      /\ \A i \in 1..Len(B.rates) : B.rates[i] \in RateRow
  BY BillParts
<1>2. B.left > 0 /\ n < Len(B.rates) /\ n + 1 \in 1..Len(B.rates)
  BY <1>1 DEF MoreTiers
<1>3. t \in RateRow
  BY <1>1, <1>2
<1>4. Walked(B)
  BY DEF LoopOK
<1>5. /\ volume \in Int /\ volume <= B.left
      /\ t.max = NoMax => volume = B.left
  BY <1>1, <1>2, <1>3, TurnBounded
<1>6. /\ C.stage = B.stage /\ C.date = B.date /\ C.volume = B.volume /\ C.rates = B.rates
      /\ C.lines = Append(B.lines, volume)
      /\ C.left = B.left - volume /\ C.consumed = B.consumed + volume
      /\ C \in BillRow
  BY <1>5, TurnedParts
<1> HIDE DEF C
<1>7. /\ Len(C.lines) = n + 1
      /\ \A k \in 1..n : C.lines[k] = B.lines[k]
      /\ C.lines[n + 1] = volume
  BY <1>1, <1>5, <1>6
<1>8. C.consumed = C.volume - C.left
  BY <1>1, <1>4, <1>5, <1>6 DEF Walked
<1>9. C.left >= 0
  BY <1>1, <1>5, <1>6
<1>10. \A k \in 1..Len(C.lines) : C.rates[k].max = NoMax => C.left = 0
  <2> SUFFICES ASSUME NEW k \in 1..(n + 1), B.rates[k].max = NoMax
               PROVE  B.left - volume = 0
    BY <1>6, <1>7
  <2>1. CASE k = n + 1
    BY <1>1, <1>5, <2>1
  <2>2. CASE k # n + 1
    <3>1. k \in 1..n
      BY <1>1, <2>2
    <3>2. B.left = 0
      BY <1>4, <3>1 DEF Walked
    <3> QED
      BY <1>1, <1>2, <3>2
  <2> QED
    BY <2>1, <2>2
<1>11. ASSUME C.volume >= 0, Apart(C.rates)
       PROVE  LinesRight(C)
  <2>1. LinesRight(B)
    BY <1>4, <1>6, <1>11 DEF Walked
  <2>2. B.consumed < B.volume
    BY <1>1, <1>2, <1>4 DEF Walked
  <2>3. t.min \in Int /\ 0 <= t.min /\ (t.max = NoMax \/ t.min < t.max)
    <3>1. n + 1 \in DOMAIN C.rates
      BY <1>1, <1>2, <1>6
    <3>2. 0 <= t.min /\ (t.max = NoMax \/ t.min < t.max)
      BY <1>6, <1>11, <3>1 DEF Apart
    <3> QED
      BY <1>3, <3>2, RowParts
  <2>4. B.consumed <= t.min
    <3>1. CASE n = 0
      BY <2>1, <2>3, <3>1 DEF LinesRight, Upto
    <3>2. CASE n # 0
      <4>1. n \in 1..Len(B.rates) /\ n < n + 1
        BY <1>1, <1>2, <3>2
      <4>2. Below(B.rates[n], t)
        BY <1>1, <1>2, <1>6, <1>11, <4>1, ApartSorted DEF LoopOK
      <4>3. B.rates[n].max # NoMax /\ B.rates[n].max \in Int /\ B.rates[n].max <= t.min
        BY <1>1, <4>1, <4>2, RowParts DEF Below
      <4>4. B.consumed = Least(B.volume, B.rates[n].max)
        BY <2>1, <3>2, <4>3 DEF LinesRight, Upto
      <4> QED
        BY <1>1, <2>2, <2>3, <4>3, <4>4 DEF Least
    <3> QED
      BY <3>1, <3>2
  <2>5. B.left = B.volume - B.consumed
    BY <1>1, <1>4 DEF Walked
  <2>6. B.consumed + volume = IF t.max = NoMax THEN B.volume ELSE Least(B.volume, t.max)
    <3>1. volume = Charged(t, B.consumed, B.volume - B.consumed)
      BY <2>5
    <3>2. B.consumed + Charged(t, B.consumed, B.volume - B.consumed)
          = IF t.max = NoMax THEN B.volume ELSE Least(B.volume, t.max)
      BY <1>1, <1>3, <2>2, <2>3, <2>4, TurnToTheTop
    <3> QED
      BY <3>1, <3>2
  <2>7. C.consumed = Upto(C.rates, n + 1, C.volume)
    BY <1>1, <1>6, <2>6 DEF Upto
  <2>8. ASSUME NEW k \in 1..(n + 1)
        PROVE  C.lines[k] = Upto(C.rates, k, C.volume) - Upto(C.rates, k - 1, C.volume)
    <3>1. CASE k = n + 1
      <4>1. k - 1 = n
        BY <1>1, <3>1
      <4>2. C.lines[k] = volume
        BY <1>7, <3>1
      <4>3. Upto(C.rates, k - 1, C.volume) = B.consumed
        BY <1>6, <2>1, <4>1 DEF LinesRight
      <4>4. Upto(C.rates, k, C.volume) = B.consumed + volume
        BY <1>6, <2>7, <3>1
      <4> QED
        BY <1>1, <1>5, <4>2, <4>3, <4>4
    <3>2. CASE k # n + 1
      <4>1. k \in 1..n
        BY <1>1, <3>2
      <4> QED
        BY <1>6, <1>7, <2>1, <4>1 DEF LinesRight
    <3> QED
      BY <3>1, <3>2
  <2> QED
    BY <1>7, <2>7, <2>8 DEF LinesRight
<1>12. Walked(C)
  BY <1>8, <1>9, <1>10, <1>11 DEF Walked
<1>13. LoopOK(C)
  BY <1>6, <1>12 DEF LoopOK
<1> QED
  BY <1>1, <1>2, <1>6, <1>7, <1>13 DEF C

\* What the walk leaves when it ends, tier by tier.
LEMMA WalkEndsRight ==
    ASSUME NEW B \in BillRow, LoopOK(B), B.stage = "done", B.volume >= 0, Apart(B.rates),
           Len(B.lines) <= Len(B.rates), NEW k \in DOMAIN B.rates
    PROVE  Line(B, k) = Upto(B.rates, k, B.volume) - Upto(B.rates, k - 1, B.volume)
<1> DEFINE n == Len(B.lines)
           q == B.rates
           v == B.volume
<1>1. /\ q \in Seq(RateRow) /\ B.lines \in Seq(Int)
      /\ B.left \in Int /\ B.consumed \in Int /\ v \in Int
      /\ n \in Nat /\ Len(q) \in Nat /\ k \in 1..Len(q)
      /\ \A i \in 1..Len(q) : q[i] \in RateRow
  BY BillParts
<1>2. Walked(B) /\ LinesRight(B) /\ Sorted(q)
  BY DEF LoopOK, Walked
<1>3. CASE k <= n
  <2>1. k \in 1..n
    BY <1>1, <1>3
  <2> QED
    BY <1>2, <1>3, <2>1 DEF LinesRight, Line
<1>4. CASE ~(k <= n)
  <2>1. B.left = 0
    BY <1>1, <1>2, <1>4 DEF LoopOK, MoreTiers, Walked
  <2>2. Upto(q, n, v) = v
    BY <1>1, <1>2, <2>1 DEF Walked, LinesRight
  <2>3. ASSUME NEW i \in 1..Len(q), n <= i
        PROVE  Upto(q, i, v) = v
    <3>1. q[i] \in RateRow /\ q[i].min \in Int /\ (q[i].max # NoMax => q[i].max \in Int)
      BY <1>1, RowParts
    <3>2. CASE i = n
      BY <2>2, <3>2
    <3>3. CASE i # n /\ n = 0
      <4>1. v = 0
        BY <2>2, <3>3 DEF Upto
      <4>2. q[i].max = NoMax \/ 0 < q[i].max
        <5>1. 0 <= q[i].min /\ (q[i].max = NoMax \/ q[i].min < q[i].max)
          BY <1>1 DEF Apart
        <5> QED
          BY <3>1, <5>1
      <4> QED
        BY <3>1, <4>1, <4>2 DEF Upto, Least
    <3>4. CASE i # n /\ n # 0
      <4>1. n \in 1..Len(q) /\ n < i
        BY <1>1, <2>3, <3>4
      <4>2. Below(q[n], q[i])
        BY <1>1, <1>2, <4>1, ApartSorted
      <4>3. q[n].max # NoMax /\ q[n].max \in Int /\ q[n].max <= q[i].min
        BY <1>1, <4>1, <4>2, RowParts DEF Below
      <4>4. v <= q[n].max
        BY <1>1, <2>2, <3>4, <4>3 DEF Upto, Least
      <4>5. q[i].max = NoMax \/ q[i].min < q[i].max
        BY <1>1 DEF Apart
      <4>6. CASE q[i].max = NoMax
        BY <2>3, <3>4, <4>1, <4>6 DEF Upto
      <4>7. CASE q[i].max # NoMax
        <5>1. q[i].max \in Int /\ v <= q[i].max
          <6>1. q[i].max \in Int /\ q[i].min \in Int /\ q[i].min < q[i].max
            BY <3>1, <4>5, <4>7
          <6>2. v \in Int
            BY <1>1
          <6> QED
            BY <4>3, <4>4, <6>1, <6>2
        <5>3. i # 0
          BY <1>1, <4>1
        <5>2. Upto(q, i, v) = Least(v, q[i].max)
          BY <4>7, <5>3 DEF Upto
        <5> QED
          BY <1>1, <5>1, <5>2, SMTT(30) DEF Least
      <4> QED
        BY <4>6, <4>7
    <3> QED
      BY <3>2, <3>3, <3>4
  <2>4. Upto(q, k, v) = v
    BY <1>1, <1>4, <2>3
  <2>5. Upto(q, k - 1, v) = v
    <3>1. CASE k - 1 = n
      BY <2>2, <3>1
    <3>2. CASE k - 1 # n
      <4>1. k - 1 \in 1..Len(q) /\ n <= k - 1
        BY <1>1, <1>4, <3>2
      <4> QED
        BY <2>3, <4>1
    <3> QED
      BY <3>1, <3>2
  <2>6. Line(B, k) = 0
    BY <1>4 DEF Line
  <2> QED
    BY <1>1, <2>4, <2>5, <2>6
<1> QED
  BY <1>3, <1>4
-----------------------------------------------------------------------------
(* The inductive invariant holds at the start and is kept by every step. *)

LEMMA InitInv == Init => IInv
<1> SUFFICES ASSUME Init PROVE IInv
  OBVIOUS
<1> USE NoValues, Inputs, Schedule
<1>1. rate \in [Rates -> RateRow \cup {NoRow}] /\ OneRowPerTierAndDate(rate)
  BY DEF Init
<1>2. vat \in [Changes \cup {Seed} -> VatRow \cup {NoRow}]
  BY DEF Init, VatRow
<1>3. change \in [Changes -> ChangeRow]
  BY DEF Init, Unasked, ChangeRow
<1>4. NoBill \in BillRow
  BY DEF NoBill, BillRow
<1>5. bill \in [Bills -> BillRow] /\ \A b \in Bills : bill[b] = NoBill
  BY <1>4 DEF Init
<1>6. \A b \in Bills : Len(bill[b].lines) <= Len(bill[b].rates)
  BY <1>5 DEF NoBill
<1>7. TypeOK
  BY <1>1, <1>2, <1>3, <1>5, <1>6 DEF TypeOK, Init
<1>8. EndsDeactivate
  <2>1. \A r \in Rates : rate[r] # NoRow => (rate[r].active <=> rate[r].to = NoDate)
    BY <1>1 DEF Init, Open, RateRow
  <2>2. \A v \in Present : vat[v].active <=> vat[v].to = NoDate
    BY DEF Init, Present
  <2>3. \A b \in Bills : \A k \in DOMAIN bill[b].rates : Open(bill[b].rates[k])
    BY <1>5 DEF NoBill
  <2> QED
    BY <2>1, <2>2, <2>3 DEF EndsDeactivate
<1>9. MetStaysEnded
  BY DEF Init, Unasked, MetStaysEnded
<1>10. RowOnceDone
  BY DEF Init, Unasked, RowOnceDone
<1>13. AskedDated
  BY DEF Init, Unasked, AskedDated
<1>11. StandingActive
  <2>1. vat[Seed] = [from |-> SeedFrom, to |-> NoDate, active |-> TRUE]
    BY DEF Init
  <2>2. vat[Seed] \in VatRow
    BY <2>1 DEF VatRow
  <2> QED
    BY <2>1, <2>2 DEF Init, StandingActive
<1>12. LoopsOK
  <2>1. LoopOK(NoBill)
    BY DEF NoBill, LoopOK, Sorted
  <2> QED
    BY <1>5, <2>1 DEF LoopsOK
<1> QED
  BY <1>7, <1>8, <1>9, <1>10, <1>11, <1>12, <1>13 DEF IInv

\* A row of tariff_rates is written.
LEMMA RateWritten ==
    ASSUME IInv, UNCHANGED <<vat, change, cut, bill>>,
           NEW r \in Rates, NEW row \in RateRow, row.active <=> row.to = NoDate,
           rate' = [rate EXCEPT ![r] = row], OneRowPerTierAndDate(rate')
    PROVE  IInv'
<1>1. TypeOK'
  BY DEF IInv, TypeOK
<1>2. \A s \in Rates : rate'[s] # NoRow => (rate'[s].active <=> rate'[s].to = NoDate)
  BY DEF IInv, TypeOK, EndsDeactivate
<1>3. EndsDeactivate'
  BY <1>2 DEF IInv, EndsDeactivate, Present
<1>4. MetStaysEnded' /\ RowOnceDone' /\ AskedDated' /\ StandingActive' /\ LoopsOK'
  BY DEF IInv, MetStaysEnded, RowOnceDone, AskedDated, StandingActive, LoopsOK
<1> QED
  BY <1>1, <1>3, <1>4 DEF IInv

\* A row that is written in place keeps its name and its first day.
LEMMA WrittenInPlace ==
    ASSUME TypeOK, NEW r \in Rates, rate[r] # NoRow, NEW row \in RateRow,
           row.name = rate[r].name, row.from = rate[r].from,
           rate' = [rate EXCEPT ![r] = row]
    PROVE  OneRowPerTierAndDate(rate')
<1>1. \A s \in Rates : rate'[s] = IF s = r THEN row ELSE rate[s]
  BY DEF TypeOK
<1> QED
  BY <1>1 DEF TypeOK, OneRowPerTierAndDate

LEMMA RateStepInv ==
    ASSUME IInv, RateStep
    PROVE  IInv'
<1> USE NoValues, Inputs
<1>1. ASSUME NEW r \in Rates, NEW o \in Offers, NEW d \in Dates, CreateTariffRate(r, o, d)
      PROVE  IInv'
  <2> DEFINE row == [name |-> o.name, min |-> o.min, max |-> o.max,
                     from |-> d, to |-> NoDate, active |-> TRUE]
  <2>1. row \in RateRow /\ row.active /\ row.to = NoDate /\ row.name = o.name /\ row.from = d
    BY DEF RateRow
  <2>2. rate' = [rate EXCEPT ![r] = row] /\ UNCHANGED <<vat, change, cut, bill>>
    BY <1>1 DEF CreateTariffRate
  <2> HIDE DEF row
  <2>3. \A s \in Rates : rate'[s] = IF s = r THEN row ELSE rate[s]
    BY <2>2 DEF IInv, TypeOK
  <2>4. \A s \in Rates : rate[s] # NoRow => rate[s].name # o.name \/ rate[s].from # d
    BY <1>1 DEF CreateTariffRate
  <2>5. OneRowPerTierAndDate(rate')
    BY <2>1, <2>3, <2>4 DEF OneRowPerTierAndDate, IInv, TypeOK
  <2> QED
    BY <2>1, <2>2, <2>5, RateWritten
<1>2. ASSUME NEW row \in RateRow, NEW d \in Nat
      PROVE  /\ Ended(row, d) \in RateRow
             /\ ~Ended(row, d).active /\ Ended(row, d).to # NoDate
             /\ Ended(row, d).name = row.name /\ Ended(row, d).from = row.from
  BY DEF Ended, RateRow
<1>3. ASSUME NEW r \in Rates, rate[r] # NoRow, NEW row \in RateRow,
             row.active <=> row.to = NoDate,
             row.name = rate[r].name, row.from = rate[r].from,
             rate' = [rate EXCEPT ![r] = row], UNCHANGED <<vat, change, cut, bill>>
      PROVE  IInv'
  <2>1. OneRowPerTierAndDate(rate')
    BY <1>3, WrittenInPlace DEF IInv
  <2> QED
    BY <1>3, <2>1, RateWritten
<1>4. ASSUME NEW r \in Rates, rate[r] # NoRow
      PROVE  /\ rate[r] \in RateRow
             /\ rate[r].active <=> rate[r].to = NoDate
  BY <1>4 DEF IInv, TypeOK, EndsDeactivate
<1>5. ASSUME NEW r \in Rates, NEW top \in Tops \cup {NoMax}, NEW d \in Dates \cup {NoDate},
             UpdateTariffRate(r, top, d)
      PROVE  IInv'
  <2> DEFINE topped == IF top = NoMax THEN rate[r] ELSE [rate[r] EXCEPT !.max = top]
             row    == IF d = NoDate THEN topped ELSE Ended(topped, d)
  <2>1. rate[r] # NoRow /\ rate' = [rate EXCEPT ![r] = row] /\ UNCHANGED <<vat, change, cut, bill>>
    BY <1>5 DEF UpdateTariffRate
  <2>2. rate[r] \in RateRow /\ (rate[r].active <=> rate[r].to = NoDate)
    BY <1>4, <2>1
  <2>3. /\ topped \in RateRow
        /\ topped.active = rate[r].active /\ topped.to = rate[r].to
        /\ topped.name = rate[r].name /\ topped.from = rate[r].from
    BY <2>2 DEF RateRow
  <2> HIDE DEF topped
  <2>4. row \in RateRow /\ (row.active <=> row.to = NoDate)
        /\ row.name = rate[r].name /\ row.from = rate[r].from
    <3>1. CASE d = NoDate
      BY <2>2, <2>3, <3>1
    <3>2. CASE d # NoDate
      <4>1. d \in Nat
        BY <3>2
      <4> QED
        BY <1>2, <2>3, <3>2, <4>1
    <3> QED
      BY <3>1, <3>2
  <2> HIDE DEF row
  <2> QED
    BY <1>3, <2>1, <2>4
<1>6. ASSUME NEW r \in Rates, NEW d \in Dates, DeactivateTariffRate(r, d)
      PROVE  IInv'
  <2>1. rate[r] # NoRow /\ rate' = [rate EXCEPT ![r] = Ended(rate[r], d)]
        /\ UNCHANGED <<vat, change, cut, bill>>
    BY <1>6 DEF DeactivateTariffRate
  <2>2. rate[r] \in RateRow /\ d \in Nat
    BY <1>4, <2>1
  <2> QED
    BY <1>2, <1>3, <2>1, <2>2
<1> QED
  BY <1>1, <1>5, <1>6 DEF RateStep

\* What a step of a change leaves alone.
LEMMA VATOnly ==
    ASSUME IInv, UNCHANGED <<rate, bill>>,
           vat' \in [Changes \cup {Seed} -> VatRow \cup {NoRow}],
           change' \in [Changes -> ChangeRow], cut' \in Changes \cup {NoChange},
           \A v \in Changes \cup {Seed} :
             vat'[v] # NoRow => (vat'[v].active <=> vat'[v].to = NoDate)
    PROVE  TypeOK' /\ EndsDeactivate' /\ LoopsOK'
<1>1. TypeOK'
  BY DEF IInv, TypeOK
<1>2. \A v \in Present' : vat'[v].active <=> vat'[v].to = NoDate
  BY DEF Present
<1>3. EndsDeactivate'
  BY <1>2 DEF IInv, EndsDeactivate
<1>4. LoopsOK'
  BY DEF IInv, LoopsOK
<1> QED
  BY <1>1, <1>3, <1>4

LEMMA VATStepInv ==
    ASSUME IInv, VATStep
    PROVE  IInv'
<1> USE NoValues, Inputs
<1>1. /\ vat \in [Changes \cup {Seed} -> VatRow \cup {NoRow}]
      /\ change \in [Changes -> ChangeRow] /\ cut \in Changes \cup {NoChange}
  BY DEF IInv, TypeOK
<1>2. \A v \in Changes \cup {Seed} :
        vat[v] # NoRow => vat[v] \in VatRow /\ (vat[v].active <=> vat[v].to = NoDate)
  BY <1>1 DEF IInv, EndsDeactivate, Present
<1>3. Present \subseteq Changes \cup {Seed} /\ \A v \in Present : vat[v] # NoRow
  BY <1>1 DEF Present
<1>4. PICK c \in Changes :
        \/ \E d \in Dates, components \in BOOLEAN :
             ReplaceVAT(c, d, components) \/ ReplaceFails(c, d, components)
        \/ InsertVAT(c) \/ RefuseVAT(c)
  BY DEF VATStep
<1>5. \A d \in Dates, components \in BOOLEAN, met \in SUBSET (Changes \cup {Seed}) :
        /\ Asked(d, components, met) \in ChangeRow
        /\ Asked(d, components, met).stage = "half" /\ Asked(d, components, met).met = met
        /\ Asked(d, components, met).from \in Nat
  BY DEF Asked, ChangeRow
<1>6. CASE \E d \in Dates, components \in BOOLEAN : ReplaceVAT(c, d, components)
  <2>1. PICK d \in Dates, components \in BOOLEAN : ReplaceVAT(c, d, components)
    BY <1>6
  <2>2. /\ change[c].stage = "unused"
        /\ change' = [change EXCEPT ![c] = Asked(d, components, Present)]
        /\ cut' = c /\ UNCHANGED <<rate, bill>>
        /\ vat' = [v \in DOMAIN vat |-> IF v \in Present /\ vat[v].active
                                        THEN Ended(vat[v], d) ELSE vat[v]]
    BY <2>1 DEF ReplaceVAT
  <2>3. /\ change'[c].stage = "half" /\ change'[c].met = Present
        /\ change' \in [Changes -> ChangeRow]
        /\ \A x \in Changes \ {c} : change'[x] = change[x]
    BY <1>1, <1>3, <1>5, <2>2
  <2>4. ASSUME NEW v \in Changes \cup {Seed}, vat[v] # NoRow, vat[v].active
        PROVE  vat'[v] \in VatRow /\ vat'[v].to # NoDate /\ ~vat'[v].active
    <3>1. vat'[v] = Ended(vat[v], d) /\ vat[v] \in VatRow /\ d \in Nat
      BY <1>1, <1>2, <2>2, <2>4 DEF Present
    <3> QED
      BY <3>1 DEF Ended, VatRow
  <2>5. ASSUME NEW v \in Changes \cup {Seed}, vat[v] = NoRow \/ ~vat[v].active
        PROVE  vat'[v] = vat[v]
    BY <1>1, <1>3, <2>2, <2>5
  <2>6. vat' \in [Changes \cup {Seed} -> VatRow \cup {NoRow}]
    <3>1. vat' = [v \in Changes \cup {Seed} |-> vat'[v]]
      BY <1>1, <2>2
    <3>2. \A v \in Changes \cup {Seed} : vat'[v] \in VatRow \cup {NoRow}
      BY <1>1, <2>4, <2>5
    <3> QED
      BY <3>1, <3>2
  <2>7. \A v \in Changes \cup {Seed} :
          /\ vat'[v] # NoRow <=> vat[v] # NoRow
          /\ vat'[v] # NoRow => /\ ~vat'[v].active
                                /\ vat'[v].active <=> vat'[v].to = NoDate
    <3> SUFFICES ASSUME NEW v \in Changes \cup {Seed}
                 PROVE  /\ vat'[v] # NoRow <=> vat[v] # NoRow
                        /\ vat'[v] # NoRow => /\ ~vat'[v].active
                                              /\ vat'[v].active <=> vat'[v].to = NoDate
      OBVIOUS
    <3>1. CASE vat[v] # NoRow /\ vat[v].active
      <4>1. vat'[v] # NoRow /\ vat'[v].to # NoDate /\ ~vat'[v].active
        BY <2>4, <3>1
      <4> QED
        BY <3>1, <4>1
    <3>2. CASE vat[v] = NoRow \/ ~vat[v].active
      BY <1>2, <2>5, <3>2
    <3> QED
      BY <3>1, <3>2
  <2>8. TypeOK' /\ EndsDeactivate' /\ LoopsOK'
    BY <1>4, <2>2, <2>3, <2>6, <2>7, VATOnly
  <2>9. MetStaysEnded'
    <3> SUFFICES ASSUME NEW x \in Changes, NEW v \in change'[x].met
                 PROVE  vat'[v] # NoRow /\ ~vat'[v].active
      BY DEF MetStaysEnded
    <3>1. v \in Changes \cup {Seed}
      BY <2>3 DEF ChangeRow
    <3>2. vat[v] # NoRow
      BY <1>3, <2>3 DEF IInv, MetStaysEnded
    <3> QED
      BY <2>7, <3>1, <3>2
  <2>10. RowOnceDone'
    BY <2>2, <2>3, <2>7 DEF IInv, RowOnceDone
  <2>11. StandingActive'
    BY <2>2, <2>3 DEF StandingActive
  <2>12. AskedDated'
    <3>1. change'[c].from \in Nat
      BY <1>1, <1>3, <1>5, <2>2
    <3> QED
      BY <2>3, <3>1 DEF IInv, AskedDated
  <2> QED
    BY <2>8, <2>9, <2>10, <2>11, <2>12 DEF IInv
<1>7. CASE \E d \in Dates, components \in BOOLEAN : ReplaceFails(c, d, components)
  <2>1. PICK d \in Dates, components \in BOOLEAN : ReplaceFails(c, d, components)
    BY <1>7
  <2>2. /\ change[c].stage = "unused"
        /\ change' = [change EXCEPT ![c] = Asked(d, components, {})]
        /\ UNCHANGED <<rate, vat, cut, bill>>
    BY <2>1 DEF ReplaceFails
  <2>3. /\ change'[c].stage = "half" /\ change'[c].met = {}
        /\ change' \in [Changes -> ChangeRow]
        /\ \A x \in Changes \ {c} : change'[x] = change[x]
    BY <1>1, <1>5, <2>2
  <2>4. TypeOK' /\ EndsDeactivate' /\ LoopsOK'
    BY <1>1, <1>2, <2>2, <2>3, VATOnly
  <2>5. MetStaysEnded' /\ RowOnceDone'
    BY <2>2, <2>3 DEF IInv, MetStaysEnded, RowOnceDone
  <2>7. AskedDated'
    <3>1. change'[c].from \in Nat
      BY <1>1, <1>5, <2>2
    <3> QED
      BY <2>3, <3>1 DEF IInv, AskedDated
  <2>6. StandingActive'
    BY <1>1, <2>2, <2>3 DEF IInv, StandingActive
  <2> QED
    BY <2>4, <2>5, <2>6, <2>7 DEF IInv
<1>8. CASE InsertVAT(c)
  <2> DEFINE row == [from |-> change[c].from, to |-> NoDate, active |-> TRUE]
  <2>1. /\ change[c].stage = "half"
        /\ vat' = [vat EXCEPT ![c] = row]
        /\ change' = [change EXCEPT ![c].stage = "done"]
        /\ UNCHANGED <<rate, cut, bill>>
    BY <1>8 DEF InsertVAT
  <2>2. vat[c] = NoRow
    BY <2>1 DEF IInv, RowOnceDone
  <2>3. change[c].from \in Nat
    BY <1>1, <2>1 DEF IInv, AskedDated
  <2>12. row \in VatRow /\ row.active /\ row.to = NoDate
    BY <2>3 DEF VatRow
  <2> HIDE DEF row
  <2>4. row \in VatRow /\ row.active /\ row.to = NoDate /\ row # NoRow
    BY <2>12
  <2>5. /\ change'[c].stage = "done"
        /\ \A x \in Changes : change'[x].met = change[x].met
        /\ change' \in [Changes -> ChangeRow]
        /\ \A x \in Changes \ {c} : change'[x] = change[x]
    BY <1>1, <2>1 DEF ChangeRow
  <2>6. /\ vat'[c] = row
        /\ \A v \in (Changes \cup {Seed}) \ {c} : vat'[v] = vat[v]
        /\ vat' \in [Changes \cup {Seed} -> VatRow \cup {NoRow}]
    BY <1>1, <2>1, <2>4
  <2>7. TypeOK' /\ EndsDeactivate' /\ LoopsOK'
    BY <1>1, <1>2, <2>1, <2>4, <2>5, <2>6, VATOnly
  <2>8. MetStaysEnded'
    <3> SUFFICES ASSUME NEW x \in Changes, NEW v \in change[x].met
                 PROVE  vat'[v] # NoRow /\ ~vat'[v].active
      BY <2>5 DEF MetStaysEnded
    <3>1. v \in Changes \cup {Seed}
      BY <1>1 DEF ChangeRow
    <3>2. vat[v] # NoRow /\ ~vat[v].active
      BY DEF IInv, MetStaysEnded
    <3> QED
      BY <2>2, <2>6, <3>1, <3>2
  <2>9. RowOnceDone'
    BY <2>4, <2>5, <2>6 DEF IInv, RowOnceDone
  <2>10. StandingActive'
    <3>1. cut = NoChange => vat'[Seed] # NoRow /\ vat'[Seed].active
      BY <2>6 DEF IInv, StandingActive
    <3>2. ASSUME cut # NoChange
          PROVE  change'[cut].stage # "unused" /\ (change'[cut].stage = "done" => vat'[cut].active)
      <4>1. CASE cut = c
        BY <2>4, <2>5, <2>6, <4>1
      <4>2. CASE cut # c
        BY <1>1, <2>5, <2>6, <3>2, <4>2 DEF IInv, StandingActive
      <4> QED
        BY <4>1, <4>2
    <3> QED
      BY <2>1, <3>1, <3>2 DEF StandingActive
  <2>11. AskedDated'
    BY <1>1, <2>1, <2>3 DEF IInv, AskedDated, ChangeRow
  <2> QED
    BY <2>7, <2>8, <2>9, <2>10, <2>11 DEF IInv
<1>9. CASE RefuseVAT(c)
  <2>1. /\ change[c].stage = "half"
        /\ change' = [change EXCEPT ![c].stage = "broken"]
        /\ UNCHANGED <<rate, vat, cut, bill>>
    BY <1>9 DEF RefuseVAT
  <2>2. /\ change'[c].stage = "broken"
        /\ \A x \in Changes : change'[x].met = change[x].met
        /\ change' \in [Changes -> ChangeRow]
        /\ \A x \in Changes \ {c} : change'[x] = change[x]
    BY <1>1, <2>1 DEF ChangeRow
  <2>3. TypeOK' /\ EndsDeactivate' /\ LoopsOK'
    BY <1>1, <1>2, <2>1, <2>2, VATOnly
  <2>4. MetStaysEnded' /\ RowOnceDone'
    BY <2>1, <2>2 DEF IInv, MetStaysEnded, RowOnceDone
  <2>5. StandingActive'
    BY <1>1, <2>1, <2>2 DEF IInv, StandingActive
  <2>6. AskedDated'
    BY <1>1, <2>1, <2>2 DEF IInv, AskedDated, ChangeRow
  <2> QED
    BY <2>3, <2>4, <2>5, <2>6 DEF IInv
<1> QED
  BY <1>4, <1>6, <1>7, <1>8, <1>9

\* A calculation takes a step.
LEMMA BillWritten ==
    ASSUME IInv, UNCHANGED <<rate, vat, change, cut>>,
           NEW b \in Bills, NEW B \in BillRow, LoopOK(B),
           Len(B.lines) <= Len(B.rates),
           \A k \in DOMAIN B.rates : Open(B.rates[k]),
           bill' = [bill EXCEPT ![b] = B]
    PROVE  IInv'
<1>1. \A x \in Bills : bill'[x] = IF x = b THEN B ELSE bill[x]
  BY DEF IInv, TypeOK
<1>2. TypeOK'
  BY <1>1 DEF IInv, TypeOK
<1>3. \A x \in Bills : \A k \in DOMAIN bill'[x].rates : Open(bill'[x].rates[k])
  BY <1>1 DEF IInv, EndsDeactivate
<1>4. EndsDeactivate'
  BY <1>3 DEF IInv, EndsDeactivate, Present
<1>5. LoopsOK'
  BY <1>1 DEF IInv, LoopsOK
<1>6. MetStaysEnded' /\ RowOnceDone' /\ AskedDated' /\ StandingActive'
  BY DEF IInv, MetStaysEnded, RowOnceDone, AskedDated, StandingActive
<1> QED
  BY <1>2, <1>4, <1>5, <1>6 DEF IInv

\* A calculation moves on without charging.
LEMMA StageWritten ==
    ASSUME IInv, UNCHANGED <<rate, vat, change, cut>>, NEW b \in Bills,
           NEW stage \in {"novat", "tiers", "done", "failed"},
           bill' = [bill EXCEPT ![b].stage = stage],
           stage = "tiers" => bill[b].date \in Nat,
           stage \in {"tiers", "done"} => Walked(bill[b]),
           stage = "done" => ~MoreTiers(bill[b])
    PROVE  IInv'
<1> DEFINE B == [bill[b] EXCEPT !.stage = stage]
<1>1. bill[b] \in BillRow /\ bill' = [bill EXCEPT ![b] = B] /\ LoopOK(bill[b])
  BY DEF IInv, TypeOK, LoopsOK
<1>2. /\ B.stage = stage /\ B.date = bill[b].date /\ B.volume = bill[b].volume
      /\ B.rates = bill[b].rates /\ B.lines = bill[b].lines
      /\ B.left = bill[b].left /\ B.consumed = bill[b].consumed
      /\ B \in BillRow
  BY <1>1 DEF BillRow
<1> HIDE DEF B
<1>3. Len(B.lines) <= Len(B.rates) /\ \A k \in DOMAIN B.rates : Open(B.rates[k])
  BY <1>2 DEF IInv, TypeOK, EndsDeactivate
<1>4. Walked(bill[b]) => Walked(B)
  BY <1>2 DEF Walked, LinesRight
<1>5. ~MoreTiers(bill[b]) => ~MoreTiers(B)
  BY <1>2 DEF MoreTiers
<1>6. LoopOK(B)
  BY <1>1, <1>2, <1>4, <1>5 DEF LoopOK
<1> QED
  BY <1>1, <1>2, <1>3, <1>6, BillWritten

LEMMA BillStepInv ==
    ASSUME IInv, BillStep
    PROVE  IInv'
<1> USE NoValues, Inputs
<1>1. PICK b \in Bills :
        \/ \E d \in Dates, v \in Volumes : ReadRates(b, d, v)
        \/ ReadVAT(b) \/ FailBill(b) \/ Tier(b) \/ Finish(b)
  BY DEF BillStep
<1>2. bill[b] \in BillRow /\ LoopOK(bill[b])
  BY DEF IInv, TypeOK, LoopsOK
<1>3. CASE \E d \in Dates, v \in Volumes : ReadRates(b, d, v)
  <2>1. PICK d \in Dates, v \in Volumes : ReadRates(b, d, v)
    BY <1>3
  <2> DEFINE S == {s \in Rates : rate[s] # NoRow /\ InForce(rate[s], d)}
  <2>2. IsFiniteSet(S)
    BY FS_Subset
  <2>3. RatesOn(d) = {rate[r] : r \in S}
    BY DEF RatesOn
  <2>4. IsFiniteSet(RatesOn(d))
    <3> DEFINE f == [r \in S |-> rate[r]]
    <3>1. f \in [S -> RatesOn(d)]
      BY <2>3
    <3>2. \A row \in RatesOn(d) : \E r \in S : f[r] = row
      BY <2>3
    <3>3. f \in Surjection(S, RatesOn(d))
      BY <3>1, <3>2 DEF Surjection
    <3> QED
      BY <2>2, <3>3, FS_Surjection
  <2>5. \A row \in RatesOn(d) : row \in RateRow /\ Open(row)
    <3> SUFFICES ASSUME NEW r \in Rates, rate[r] # NoRow, InForce(rate[r], d)
                 PROVE  rate[r] \in RateRow /\ Open(rate[r])
      BY <2>3
    <3> QED
      BY DEF IInv, TypeOK, EndsDeactivate, Open, InForce
  <2>6. PICK q \in InOrder(RatesOn(d)) :
          bill' = [bill EXCEPT ![b] =
                    [stage |-> IF q = <<>> THEN "norates" ELSE "rates", date |-> d,
                     volume |-> v, rates |-> q, lines |-> <<>>, left |-> v, consumed |-> 0]]
    BY <2>1 DEF ReadRates
  <2>7. /\ q \in Seq(RateRow) /\ Sorted(q)
        /\ \A k \in DOMAIN q : q[k] \in RatesOn(d)
    BY <2>4, <2>5, InOrderSorted
  <2> DEFINE B == [stage |-> IF q = <<>> THEN "norates" ELSE "rates", date |-> d,
                   volume |-> v, rates |-> q, lines |-> <<>>, left |-> v, consumed |-> 0]
  <2>8. B \in BillRow
    BY <2>7 DEF BillRow
  <2>9. LoopOK(B)
    BY <2>7 DEF LoopOK
  <2>10. Len(B.lines) <= Len(B.rates)
    BY <2>7
  <2>11. \A k \in DOMAIN B.rates : Open(B.rates[k])
    BY <2>5, <2>7
  <2>12. UNCHANGED <<rate, vat, change, cut>> /\ bill' = [bill EXCEPT ![b] = B]
    BY <2>1, <2>6 DEF ReadRates
  <2> HIDE DEF B
  <2> QED
    BY <2>8, <2>9, <2>10, <2>11, <2>12, BillWritten
<1>4. CASE ReadVAT(b)
  <2>1. PICK stage \in {"novat", "tiers"} :
          /\ bill[b].stage = "rates" /\ UNCHANGED <<rate, vat, change, cut>>
          /\ bill' = [bill EXCEPT ![b].stage = stage]
    BY <1>4 DEF ReadVAT
  <2>2. /\ bill[b].lines = <<>> /\ bill[b].left = bill[b].volume /\ bill[b].consumed = 0
        /\ bill[b].date \in Nat
    BY <1>2, <2>1 DEF LoopOK
  <2>3. Walked(bill[b])
    <3>1. Len(bill[b].lines) = 0
      BY <2>2
    <3>2. LinesRight(bill[b])
      BY <2>2, <3>1 DEF LinesRight, Upto
    <3>3. bill[b].volume \in Int
      BY <1>2, BillParts
    <3> QED
      BY <2>2, <3>1, <3>2, <3>3 DEF Walked
  <2> QED
    BY <2>1, <2>2, <2>3, StageWritten
<1>5. CASE FailBill(b)
  <2>1. bill' = [bill EXCEPT ![b].stage = "failed"] /\ UNCHANGED <<rate, vat, change, cut>>
    BY <1>5 DEF FailBill
  <2> QED
    BY <2>1, StageWritten
<1>6. CASE Tier(b)
  <2> DEFINE volume == Charged(bill[b].rates[Len(bill[b].lines) + 1],
                               bill[b].consumed, bill[b].left)
  <2>1. /\ bill[b].stage = "tiers" /\ MoreTiers(bill[b])
        /\ bill' = [bill EXCEPT ![b] = Turned(bill[b], volume)]
        /\ UNCHANGED <<rate, vat, change, cut>>
    BY <1>6 DEF Tier, Turned
  <2> HIDE DEF volume
  <2>2. /\ Turned(bill[b], volume) \in BillRow /\ LoopOK(Turned(bill[b], volume))
        /\ Len(Turned(bill[b], volume).lines) <= Len(bill[b].rates)
    BY <1>2, <2>1, TurnKeepsWalked DEF volume
  <2>3. Turned(bill[b], volume).rates = bill[b].rates
    BY <1>2 DEF Turned, BillRow
  <2>4. \A k \in DOMAIN bill[b].rates : Open(bill[b].rates[k])
    BY DEF IInv, EndsDeactivate
  <2> QED
    BY <2>1, <2>2, <2>3, <2>4, BillWritten
<1>7. CASE Finish(b)
  <2>1. /\ bill[b].stage = "tiers" /\ ~MoreTiers(bill[b])
        /\ bill' = [bill EXCEPT ![b].stage = "done"] /\ UNCHANGED <<rate, vat, change, cut>>
    BY <1>7 DEF Finish
  <2>2. Walked(bill[b])
    BY <1>2, <2>1 DEF LoopOK
  <2> QED
    BY <2>1, <2>2, StageWritten
<1> QED
  BY <1>1, <1>3, <1>4, <1>5, <1>6, <1>7

LEMMA StepInv == IInv /\ [Next]_vars => IInv'
<1> SUFFICES ASSUME IInv, [Next]_vars PROVE IInv'
  OBVIOUS
<1>1. CASE RateStep
  BY <1>1, RateStepInv
<1>2. CASE VATStep
  BY <1>2, VATStepInv
<1>3. CASE BillStep
  BY <1>3, BillStepInv
<1>4. CASE UNCHANGED vars
  <2>1. TypeOK' /\ EndsDeactivate'
    BY <1>4 DEF IInv, TypeOK, EndsDeactivate, Present, vars
  <2>2. MetStaysEnded' /\ RowOnceDone' /\ AskedDated' /\ StandingActive' /\ LoopsOK'
    BY <1>4 DEF IInv, MetStaysEnded, RowOnceDone, AskedDated, StandingActive, LoopsOK, vars
  <2> QED
    BY <2>1, <2>2 DEF IInv
<1> QED
  BY <1>1, <1>2, <1>3, <1>4 DEF Next

LEMMA Inductive == Spec => []IInv
  BY InitInv, StepInv, PTL DEF Spec
-----------------------------------------------------------------------------
(* The properties. *)

\* The tables and the calculations keep their types and their key.
THEOREM TypeCorrect == Spec => []TypeOK
<1>1. IInv => TypeOK
  BY DEF IInv
<1> QED
  BY <1>1, Inductive, PTL

\* Any schedule with an unlimited tier bills the whole consumption, and none
\* bills more (the loop of CalculateShadowBill).
THEOREM NothingLeftUnbilled == Spec => []WholeVolumeBilled
<1>1. ASSUME IInv PROVE WholeVolumeBilled
  <2> SUFFICES ASSUME NEW b \in Bills, bill[b].stage = "done", bill[b].volume >= 0
               PROVE  /\ bill[b].left >= 0
                      /\ bill[b].consumed = bill[b].volume - bill[b].left
                      /\ bill[b].left > 0 =>
                           \A k \in DOMAIN bill[b].rates : bill[b].rates[k].max # NoMax
    BY DEF WholeVolumeBilled
  <2>1. /\ bill[b] \in BillRow /\ LoopOK(bill[b])
        /\ Len(bill[b].lines) <= Len(bill[b].rates)
    BY <1>1 DEF IInv, TypeOK, LoopsOK
  <2>2. Walked(bill[b]) /\ ~MoreTiers(bill[b])
    BY <2>1 DEF LoopOK
  <2>3. /\ bill[b].rates \in Seq(RateRow) /\ bill[b].left \in Int
        /\ Len(bill[b].lines) \in Nat /\ Len(bill[b].rates) \in Nat
    BY <2>1, BillParts
  <2>4. ASSUME bill[b].left > 0, NEW k \in DOMAIN bill[b].rates
        PROVE  bill[b].rates[k].max # NoMax
    <3>1. k \in 1..Len(bill[b].lines)
      BY <2>1, <2>2, <2>3, <2>4 DEF MoreTiers
    <3> QED
      BY <2>2, <2>3, <2>4, <3>1 DEF Walked
  <2> QED
    BY <2>2, <2>4 DEF Walked
<1> QED
  BY <1>1, Inductive, PTL

\* Tiers that do not overlap are charged for their own volume and a gap below
\* them, in any order the table holds them (the loop and its ORDER BY).
THEOREM TiersChargedTheirOwn == Spec => []EachVolumeInItsTier
<1>1. ASSUME IInv PROVE EachVolumeInItsTier
  <2> SUFFICES ASSUME NEW b \in Bills, bill[b].stage = "done", bill[b].volume >= 0,
                      Apart(bill[b].rates), NEW k \in DOMAIN bill[b].rates
               PROVE  Line(bill[b], k) = Upto(bill[b].rates, k, bill[b].volume)
                                         - Upto(bill[b].rates, k - 1, bill[b].volume)
    BY DEF EachVolumeInItsTier
  <2>1. /\ bill[b] \in BillRow /\ LoopOK(bill[b])
        /\ Len(bill[b].lines) <= Len(bill[b].rates)
    BY <1>1 DEF IInv, TypeOK, LoopsOK
  <2> QED
    BY <2>1, WalkEndsRight
<1> QED
  BY <1>1, Inductive, PTL

\* Two active VATs come of two calls that overlapped or of a failed UPDATE.
THEOREM ActiveVATsOverlapped == Spec => []TwoVATsOverlapped
<1>1. IInv => TwoVATsOverlapped
  BY DEF IInv, MetStaysEnded, TwoVATsOverlapped
<1> QED
  BY <1>1, Inductive, PTL

\* A refusal for want of a VAT is explained by the change that cut last.
THEOREM OutageExplained == Spec => VATOutageExplained
<1>1. ASSUME IInv, [Next]_vars, NEW b \in Bills,
             bill[b].stage # "novat", bill'[b].stage = "novat"
      PROVE  \/ cut # NoChange /\ change[cut].stage \in {"half", "broken"}
             \/ vat[Standing].active /\ vat[Standing].from > bill[b].date
  <2> USE NoValues, Inputs
  <2>1. ReadVAT(b)
    <3>1. bill \in [Bills -> BillRow]
      BY <1>1 DEF IInv, TypeOK
    <3>2. bill' # bill
      BY <1>1
    <3>3. BillStep
      BY <1>1, <3>2 DEF Next, vars, RateStep, VATStep, CreateTariffRate, UpdateTariffRate,
            DeactivateTariffRate, ReplaceVAT, ReplaceFails, InsertVAT, RefuseVAT
    <3>4. PICK x \in Bills :
            \/ \E d \in Dates, v \in Volumes : ReadRates(x, d, v)
            \/ ReadVAT(x) \/ FailBill(x) \/ Tier(x) \/ Finish(x)
      BY <3>3 DEF BillStep
    <3>5. bill[x] \in BillRow
      BY <3>1
    <3>6. ASSUME NEW B, bill' = [bill EXCEPT ![x] = B]
          PROVE  B.stage = "novat" /\ x = b
      BY <1>1, <3>1, <3>6
    <3>7. ASSUME NEW s, bill' = [bill EXCEPT ![x].stage = s]
          PROVE  s = "novat" /\ x = b
      <4>1. bill' = [bill EXCEPT ![x] = [bill[x] EXCEPT !.stage = s]]
        BY <3>7
      <4>2. [bill[x] EXCEPT !.stage = s].stage = s
        BY <3>5 DEF BillRow
      <4> QED
        BY <3>6, <4>1, <4>2
    <3>8. ~ \E d \in Dates, v \in Volumes : ReadRates(x, d, v)
      BY <3>6 DEF ReadRates
    <3>9. ~FailBill(x) /\ ~Finish(x)
      BY <3>7 DEF FailBill, Finish
    <3>10. ~Tier(x)
      <4> SUFFICES ASSUME Tier(x) PROVE FALSE
        OBVIOUS
      <4>1. bill[x].stage = "tiers"
        BY DEF Tier
      <4>2. PICK volume : bill' = [bill EXCEPT ![x] = Turned(bill[x], volume)]
        BY DEF Tier, Turned
      <4>3. Turned(bill[x], volume).stage = "tiers"
        BY <3>5, <4>1 DEF Turned, BillRow
      <4> QED
        BY <3>6, <4>2, <4>3
    <3>11. ReadVAT(x)
      BY <3>4, <3>8, <3>9, <3>10
    <3> QED
      BY <3>7, <3>11 DEF ReadVAT
  <2>2. bill[b].stage = "rates" /\ VATsOn(bill[b].date) = {}
    <3>1. bill[b] \in BillRow /\ bill \in [Bills -> BillRow]
      BY <1>1 DEF IInv, TypeOK
    <3>2. bill'[b].stage = IF VATsOn(bill[b].date) = {} THEN "novat" ELSE "tiers"
      BY <2>1, <3>1 DEF ReadVAT, BillRow
    <3> QED
      BY <1>1, <2>1, <3>2 DEF ReadVAT
  <2>3. bill[b].date \in Nat
    BY <1>1, <2>2 DEF IInv, LoopsOK, LoopOK
  <2>4. ASSUME ~(cut # NoChange /\ change[cut].stage \in {"half", "broken"})
        PROVE  vat[Standing].active /\ vat[Standing].from > bill[b].date
    <3>1. Standing \in Present /\ vat[Standing].active
      <4>1. DOMAIN vat = Changes \cup {Seed}
        BY <1>1 DEF IInv, TypeOK
      <4>2. CASE cut = NoChange
        BY <1>1, <4>1, <4>2 DEF IInv, StandingActive, Standing, Present
      <4>3. CASE cut # NoChange
        <5>1. cut \in Changes /\ change[cut].stage = "done"
          BY <1>1, <2>4, <4>3 DEF IInv, TypeOK, StandingActive, ChangeRow
        <5> QED
          BY <1>1, <4>1, <4>3, <5>1 DEF IInv, StandingActive, RowOnceDone, Standing, Present
      <4> QED
        BY <4>2, <4>3
    <3>2. vat[Standing] \in VatRow /\ vat[Standing].to = NoDate
      BY <1>1, <3>1 DEF IInv, TypeOK, EndsDeactivate, Present
    <3>3. ~InForce(vat[Standing], bill[b].date)
      BY <2>2, <3>1 DEF VATsOn
    <3>4. vat[Standing].from \in Nat
      BY <3>2 DEF VatRow
    <3> QED
      BY <2>3, <3>1, <3>2, <3>3, <3>4 DEF InForce
  <2> QED
    BY <2>4
<1>2. IInv /\ [Next]_vars
      => [\A b \in Bills :
            bill[b].stage # "novat" /\ bill'[b].stage = "novat"
            => \/ cut # NoChange /\ change[cut].stage \in {"half", "broken"}
               \/ vat[Standing].active /\ vat[Standing].from > bill[b].date]_vars
  BY <1>1
<1> QED
  BY <1>2, Inductive, PTL DEF Spec, VATOutageExplained
-----------------------------------------------------------------------------
(***************************************************************************)
(* The table decides the bill.  The query orders the rates by their minimum*)
(* and leaves the order of equal ones open.  Tiers that do not overlap have*)
(* no equal minimum, so there is one order of them; and in it a tier takes *)
(* the more the more is consumed.                                          *)
(***************************************************************************)

InStrictOrder(q) == \A i, j \in DOMAIN q : i < j => q[i].min < q[j].min

LEMMA ApartStrict ==
    ASSUME NEW q \in Seq(RateRow), Sorted(q), Apart(q)
    PROVE  InStrictOrder(q)
<1> SUFFICES ASSUME NEW i \in 1..Len(q), NEW j \in 1..Len(q), i < j
             PROVE  q[i].min < q[j].min
  BY DEF InStrictOrder
<1>1. Below(q[i], q[j])
  BY ApartSorted
<1>2. q[i] \in RateRow /\ q[j] \in RateRow /\ (q[i].max = NoMax \/ q[i].min < q[i].max)
  BY DEF Apart
<1>3. q[i].min \in Int /\ q[j].min \in Int /\ (q[i].max # NoMax => q[i].max \in Int)
  BY <1>2, RowParts
<1> QED
  BY <1>1, <1>2, <1>3 DEF Below

RowsOf(q) == {q[k] : k \in DOMAIN q}

AgreeAt(p, q, k) ==
    /\ k \in DOMAIN p <=> k \in DOMAIN q
    /\ k \in DOMAIN p => p[k] = q[k]

\* Where two orders of the same rows agree up to a place, the second has a row in
\* that place if the first has, and none above it.
LEMMA NotAbove ==
    ASSUME NEW p \in Seq(RateRow), NEW q \in Seq(RateRow),
           InStrictOrder(p), InStrictOrder(q), RowsOf(p) = RowsOf(q),
           NEW k \in Nat, \A j \in Nat : j < k => AgreeAt(p, q, j),
           k \in DOMAIN p
    PROVE  /\ k \in DOMAIN q
           /\ q[k] = p[k] \/ q[k].min < p[k].min
<1>1. /\ DOMAIN p = 1..Len(p) /\ DOMAIN q = 1..Len(q)
      /\ Len(p) \in Nat /\ Len(q) \in Nat
  OBVIOUS
<1>2. PICK j \in DOMAIN q : q[j] = p[k]
  <2>1. p[k] \in RowsOf(q)
    BY DEF RowsOf
  <2> QED
    BY <2>1 DEF RowsOf
<1>3. p[k].min \in Int
  BY RowParts
<1>4. ~(j < k)
  <2> SUFFICES ASSUME j < k PROVE FALSE
    OBVIOUS
  <2>1. j \in Nat
    BY <1>1
  <2>2. j \in DOMAIN p /\ p[j] = p[k]
    BY <1>2, <2>1 DEF AgreeAt
  <2>3. p[j].min < p[k].min
    BY <2>2 DEF InStrictOrder
  <2> QED
    BY <1>3, <2>2, <2>3
<1>5. k \in DOMAIN q
  BY <1>1, <1>4
<1>6. CASE j = k
  BY <1>2, <1>5, <1>6
<1>7. CASE k < j
  BY <1>2, <1>5, <1>7 DEF InStrictOrder
<1> QED
  BY <1>1, <1>4, <1>5, <1>6, <1>7

\* Rows with distinct minimums have one order.
LEMMA OneOrder ==
    ASSUME NEW p \in Seq(RateRow), NEW q \in Seq(RateRow),
           InStrictOrder(p), InStrictOrder(q), RowsOf(p) = RowsOf(q)
    PROVE  p = q
<1> DEFINE Bad == {k \in Nat : ~AgreeAt(p, q, k)}
           less == OpToRel(<, Nat)
<1>1. Bad = {}
  <2> SUFFICES ASSUME Bad # {} PROVE FALSE
    OBVIOUS
  <2>1. IsWellFoundedOn(less, Nat)
    BY NatLessThanWellFounded
  <2>2. PICK k \in Bad : \A j \in Bad : ~(<<j, k>> \in less)
    <3>1. Bad \subseteq Nat
      OBVIOUS
    <3> HIDE DEF Bad, less
    <3> QED
      BY <2>1, <3>1, WFMin
  <2>3. \A j \in Nat : j < k => AgreeAt(p, q, j)
    BY <2>2 DEF OpToRel
  <2>4. \A j \in Nat : j < k => AgreeAt(q, p, j)
    BY <2>3 DEF AgreeAt
  <2>5. k \in Nat /\ ~AgreeAt(p, q, k)
    OBVIOUS
  <2> HIDE DEF Bad
  <2>6. k \in DOMAIN p => k \in DOMAIN q /\ (q[k] = p[k] \/ q[k].min < p[k].min)
    BY <2>3, <2>5, NotAbove
  <2>7. k \in DOMAIN q => k \in DOMAIN p /\ (p[k] = q[k] \/ p[k].min < q[k].min)
    BY <2>4, <2>5, NotAbove
  <2>8. k \in DOMAIN p /\ k \in DOMAIN q /\ p[k] # q[k]
    BY <2>5, <2>6, <2>7 DEF AgreeAt
  <2>9. p[k].min \in Int /\ q[k].min \in Int
    BY <2>8, RowParts
  <2> QED
    BY <2>6, <2>7, <2>8, <2>9
<1>2. \A k \in Nat : AgreeAt(p, q, k)
  BY <1>1
<1> HIDE DEF Bad
<1>3. DOMAIN p = DOMAIN q
  <2>1. DOMAIN p \subseteq Nat /\ DOMAIN q \subseteq Nat
    OBVIOUS
  <2> QED
    BY <1>2, <2>1 DEF AgreeAt
<1>4. \A k \in DOMAIN p : p[k] = q[k]
  <2>1. DOMAIN p \subseteq Nat
    OBVIOUS
  <2> QED
    BY <1>2, <2>1 DEF AgreeAt
<1>5. Len(p) = Len(q)
  BY <1>3
<1> QED
  BY <1>3, <1>4, <1>5

\* The result set has each rate once.
OnceEach ==
    \A b \in Bills : \A i, j \in DOMAIN bill[b].rates :
      i # j => bill[b].rates[i] # bill[b].rates[j]

\* Only the query gives a calculation its rates.
LEMMA RatesRead ==
    ASSUME IInv, [Next]_vars, NEW b \in Bills
    PROVE  \/ bill'[b].rates = bill[b].rates
           \/ \E S : bill'[b].rates \in InOrder(S)
<1>1. bill \in [Bills -> BillRow]
  BY DEF IInv, TypeOK
<1>2. ASSUME NEW c \in Bills, NEW d \in Dates, NEW v \in Volumes, ReadRates(c, d, v)
      PROVE  bill'[b].rates = bill[b].rates \/ \E S : bill'[b].rates \in InOrder(S)
  <2>1. PICK q \in InOrder(RatesOn(d)) :
          bill' = [bill EXCEPT ![c] =
                    [stage |-> IF q = <<>> THEN "norates" ELSE "rates", date |-> d,
                     volume |-> v, rates |-> q, lines |-> <<>>, left |-> v, consumed |-> 0]]
    BY <1>2 DEF ReadRates
  <2>2. bill'[b] = bill[b] \/ bill'[b].rates = q
    BY <1>1, <2>1
  <2> QED
    BY <2>1, <2>2
<1>3. ASSUME NEW c \in Bills, ReadVAT(c) \/ FailBill(c) \/ Finish(c)
      PROVE  bill'[b].rates = bill[b].rates
  <2>1. PICK s : bill' = [bill EXCEPT ![c].stage = s]
    BY <1>3 DEF ReadVAT, FailBill, Finish
  <2>2. bill[b] \in BillRow /\ (bill'[b] = bill[b] \/ bill'[b] = [bill[b] EXCEPT !.stage = s])
    BY <1>1, <2>1
  <2> QED
    BY <2>2 DEF BillRow
<1>4. ASSUME NEW c \in Bills, Tier(c)
      PROVE  bill'[b].rates = bill[b].rates
  <2>1. PICK volume : bill' = [bill EXCEPT ![c] = Turned(bill[c], volume)]
    BY <1>4 DEF Tier, Turned
  <2>2. bill[b] \in BillRow /\ (bill'[b] = bill[b] \/ bill'[b] = Turned(bill[b], volume))
    BY <1>1, <2>1
  <2> QED
    BY <2>2 DEF BillRow, Turned
<1>5. CASE bill' = bill
  BY <1>5
<1> QED
  BY <1>2, <1>3, <1>4, <1>5
  DEF Next, vars, RateStep, VATStep, BillStep, CreateTariffRate, UpdateTariffRate,
      DeactivateTariffRate, ReplaceVAT, ReplaceFails, InsertVAT, RefuseVAT

LEMMA EachRateOnce == Spec => []OnceEach
<1>1. Init => OnceEach
  BY DEF Init, NoBill, OnceEach
<1>2. ASSUME IInv, OnceEach, [Next]_vars
      PROVE  OnceEach'
  <2> SUFFICES ASSUME NEW b \in Bills, NEW i \in DOMAIN bill'[b].rates,
                      NEW j \in DOMAIN bill'[b].rates, i # j
               PROVE  bill'[b].rates[i] # bill'[b].rates[j]
    BY DEF OnceEach
  <2>1. CASE bill'[b].rates = bill[b].rates
    BY <1>2, <2>1 DEF OnceEach
  <2>2. ASSUME NEW S, bill'[b].rates \in InOrder(S)
        PROVE  bill'[b].rates[i] # bill'[b].rates[j]
    <3>1. i \in 1..Cardinality(S) /\ j \in 1..Cardinality(S)
      BY <2>2 DEF InOrder
    <3>2. i < j \/ j < i
      BY <3>1
    <3> QED
      BY <2>2, <3>2 DEF InOrder
  <2> QED
    BY <1>2, <2>1, <2>2, RatesRead
<1> QED
  BY <1>1, <1>2, Inductive, PTL DEF Spec

\* Whether tiers overlap is a matter of which rows there are, not of their order.
LEMMA SameRowsApart ==
    ASSUME NEW p \in Seq(RateRow), NEW q \in Seq(RateRow), Apart(p),
           RowsOf(p) = RowsOf(q),
           \A i, j \in DOMAIN q : i # j => q[i] # q[j]
    PROVE  Apart(q)
<1>1. \A j \in DOMAIN q : \E i \in DOMAIN p : p[i] = q[j]
  <2> TAKE j \in DOMAIN q
  <2>1. q[j] \in RowsOf(p)
    BY DEF RowsOf
  <2> QED
    BY <2>1 DEF RowsOf
<1>2. ASSUME NEW j \in DOMAIN q
      PROVE  0 <= q[j].min /\ (q[j].max = NoMax \/ q[j].min < q[j].max)
  BY <1>1 DEF Apart
<1>3. ASSUME NEW i \in DOMAIN q, NEW j \in DOMAIN q, i # j
      PROVE  Below(q[i], q[j]) \/ Below(q[j], q[i])
  <2>1. PICK k \in DOMAIN p, l \in DOMAIN p : p[k] = q[i] /\ p[l] = q[j]
    BY <1>1
  <2>2. k # l
    BY <1>3, <2>1
  <2> QED
    BY <2>1, <2>2 DEF Apart
<1> QED
  BY <1>2, <1>3 DEF Apart

\* The part of a consumption between two bounds grows with it.
LEMMA BandGrows ==
    ASSUME NEW low \in Int, NEW high \in Int, low <= high,
           NEW v \in Int, NEW w \in Int, v <= w
    PROVE  Least(v, high) - Least(v, low) <= Least(w, high) - Least(w, low)
BY DEF Least

\* And so does the part above one.
LEMMA RestGrows ==
    ASSUME NEW low \in Int, NEW v \in Int, NEW w \in Int, v <= w
    PROVE  v - Least(v, low) <= w - Least(w, low)
BY DEF Least

\* So does what a tier is charged for.
LEMMA TierGrows ==
    ASSUME NEW q \in Seq(RateRow), Sorted(q), Apart(q), NEW k \in DOMAIN q,
           NEW v \in Int, NEW w \in Int, v <= w
    PROVE  Upto(q, k, v) - Upto(q, k - 1, v) <= Upto(q, k, w) - Upto(q, k - 1, w)
<1>1. /\ k \in 1..Len(q) /\ Len(q) \in Nat /\ q[k] \in RateRow
      /\ q[k].max = NoMax \/ q[k].min < q[k].max
  BY DEF Apart
<1>2. q[k].min \in Int /\ (q[k].max # NoMax => q[k].max \in Int)
  BY <1>1, RowParts
<1> DEFINE high == q[k].max
<1>3. CASE k = 1
  <2>1. Upto(q, k - 1, v) = 0 /\ Upto(q, k - 1, w) = 0
    BY <1>3 DEF Upto
  <2>2. CASE high = NoMax
    <3>1. Upto(q, k, v) = v /\ Upto(q, k, w) = w
      BY <1>3, <2>2 DEF Upto
    <3> QED
      BY <2>1, <3>1
  <2>3. CASE high # NoMax
    <3>1. Upto(q, k, v) = Least(v, high) /\ Upto(q, k, w) = Least(w, high)
      BY <1>3, <2>3 DEF Upto
    <3>2. high \in Int
      BY <1>2, <2>3
    <3> HIDE DEF high
    <3> QED
      BY <2>1, <3>1, <3>2 DEF Least
  <2> QED
    BY <2>2, <2>3
<1>4. CASE k # 1
  <2> DEFINE low == q[k - 1].max
  <2>1. k - 1 \in 1..Len(q) /\ k - 1 < k /\ k - 1 # 0 /\ k # 0
    BY <1>1, <1>4
  <2>2. Below(q[k - 1], q[k])
    BY <1>1, <2>1, ApartSorted
  <2>3. q[k - 1] \in RateRow
    BY <2>1
  <2>4. low # NoMax /\ low \in Int /\ low <= q[k].min
    BY <2>2, <2>3, RowParts DEF Below
  <2>5. Upto(q, k - 1, v) = Least(v, low) /\ Upto(q, k - 1, w) = Least(w, low)
    BY <2>1, <2>4 DEF Upto
  <2> HIDE DEF low
  <2>6. CASE high = NoMax
    <3>1. Upto(q, k, v) = v /\ Upto(q, k, w) = w
      BY <2>1, <2>6 DEF Upto
    <3> QED
      BY <2>4, <2>5, <3>1, RestGrows
  <2>7. CASE high # NoMax
    <3>1. Upto(q, k, v) = Least(v, high) /\ Upto(q, k, w) = Least(w, high)
      BY <2>1, <2>7 DEF Upto
    <3>2. high \in Int /\ low <= high
      BY <1>1, <1>2, <2>4, <2>7
    <3> HIDE DEF high
    <3> QED
      BY <2>4, <2>5, <3>1, <3>2, BandGrows
  <2> QED
    BY <2>6, <2>7
<1> QED
  BY <1>3, <1>4

\* Two calculations that read the same rates, of tiers that do not overlap, read
\* them in the same order and agree tier by tier: who consumed as much is charged
\* the same for it in every tier, and who consumed more is charged no less in any.
\* Neither other calls, nor the order in which the database returns rows, nor
\* what the administrators write while a calculation runs tells in the lines.
THEOREM TheTableDecides ==
    Spec => [](\A a, b \in Bills :
                 /\ bill[a].stage = "done" /\ bill[b].stage = "done"
                 /\ RowsOf(bill[a].rates) = RowsOf(bill[b].rates) /\ Apart(bill[a].rates)
                 /\ 0 <= bill[a].volume /\ bill[a].volume <= bill[b].volume
                 => /\ bill[a].rates = bill[b].rates
                    /\ \A k \in DOMAIN bill[a].rates :
                         /\ Line(bill[a], k) <= Line(bill[b], k)
                         /\ bill[a].volume = bill[b].volume =>
                              Line(bill[a], k) = Line(bill[b], k))
<1>1. IInv /\ OnceEach =>
        \A a, b \in Bills :
          /\ bill[a].stage = "done" /\ bill[b].stage = "done"
          /\ RowsOf(bill[a].rates) = RowsOf(bill[b].rates) /\ Apart(bill[a].rates)
          /\ 0 <= bill[a].volume /\ bill[a].volume <= bill[b].volume
          => /\ bill[a].rates = bill[b].rates
             /\ \A k \in DOMAIN bill[a].rates :
                  /\ Line(bill[a], k) <= Line(bill[b], k)
                  /\ bill[a].volume = bill[b].volume =>
                       Line(bill[a], k) = Line(bill[b], k)
  <2>0. SUFFICES
          ASSUME IInv, OnceEach, NEW a \in Bills, NEW b \in Bills,
                 bill[a].stage = "done", bill[b].stage = "done",
                 RowsOf(bill[a].rates) = RowsOf(bill[b].rates), Apart(bill[a].rates),
                 0 <= bill[a].volume, bill[a].volume <= bill[b].volume
          PROVE  /\ bill[a].rates = bill[b].rates
                 /\ \A k \in DOMAIN bill[a].rates :
                      /\ Line(bill[a], k) <= Line(bill[b], k)
                      /\ bill[a].volume = bill[b].volume =>
                           Line(bill[a], k) = Line(bill[b], k)
    OBVIOUS
  <2> DEFINE A == bill[a]
             B == bill[b]
  <2>1. /\ A \in BillRow /\ LoopOK(A) /\ Len(A.lines) <= Len(A.rates)
        /\ B \in BillRow /\ LoopOK(B) /\ Len(B.lines) <= Len(B.rates)
    BY <2>0 DEF IInv, TypeOK, LoopsOK
  <2>2. /\ A.rates \in Seq(RateRow) /\ A.volume \in Int /\ Sorted(A.rates)
        /\ B.rates \in Seq(RateRow) /\ B.volume \in Int /\ Sorted(B.rates)
    BY <2>1, BillParts DEF LoopOK
  <2>3. Apart(B.rates)
    BY <2>0, <2>2, SameRowsApart DEF OnceEach
  <2>4. A.rates = B.rates
    <3>1. InStrictOrder(A.rates) /\ InStrictOrder(B.rates)
      BY <2>0, <2>2, <2>3, ApartStrict
    <3> QED
      BY <2>0, <2>2, <3>1, OneOrder
  <2>5. ASSUME NEW k \in DOMAIN A.rates
        PROVE  /\ Line(A, k) <= Line(B, k)
               /\ A.volume = B.volume => Line(A, k) = Line(B, k)
    <3>1. Line(A, k) = Upto(A.rates, k, A.volume) - Upto(A.rates, k - 1, A.volume)
      BY <2>0, <2>1, WalkEndsRight
    <3>2. B.volume >= 0
      BY <2>0, <2>2
    <3>3. Line(B, k) = Upto(A.rates, k, B.volume) - Upto(A.rates, k - 1, B.volume)
      BY <2>0, <2>1, <2>3, <2>4, <3>2, WalkEndsRight
    <3>4. Upto(A.rates, k, A.volume) - Upto(A.rates, k - 1, A.volume)
          <= Upto(A.rates, k, B.volume) - Upto(A.rates, k - 1, B.volume)
      BY <2>0, <2>2, TierGrows
    <3> QED
      BY <3>1, <3>3, <3>4
  <2> QED
    BY <2>4, <2>5
<1> QED
  BY <1>1, Inductive, EachRateOnce, PTL
=============================================================================
