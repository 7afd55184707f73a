--------------------------- MODULE SentinelProofs ---------------------------
(***************************************************************************)
(* Proofs about SentinelScan, for any number of overlapping scans, any     *)
(* findings and any number of faults.                                      *)
(***************************************************************************)
EXTENDS SentinelScan, FiniteSetTheorems, TLAPS

\* NRWClass gives a zone.
LEMMA ClassIsZone ==
  ASSUME NEW p, NEW b
  PROVE  NRWClass(p, b) \in Zones
BY DEF NRWClass, Zones

\* A count of flags that grows stays within its bound.
LEMMA MoreIsCapped ==
  ASSUME NEW n \in 0 .. MaxFlags
  PROVE  More(n) \in 0 .. MaxFlags
BY SentinelAssumption DEF More

\* What a scan holds is gone when it ends, and its other variables are those of
\* their types.
LEMMA EndsType ==
  ASSUME TypeOK, NEW s \in Scans, Ends(s)
  PROVE  /\ at' \in [Scans -> {"idle", "scanning", "billing", "updating"}]
         /\ left' \in [Scans -> SUBSET Findings]
         /\ found' \in [Scans -> SUBSET Findings]
         /\ volume' \in [Scans -> Productions \cup {0}]
         /\ verdict' \in [Scans -> Zones]
         /\ during' \in [Scans -> SUBSET Findings]
         /\ throughout' \in [Scans -> SUBSET Findings]
         /\ flagged' \in [Scans -> SUBSET Findings]
         /\ missed' \in [Scans -> SUBSET Findings]
BY DEF TypeOK, Ends, Zones

LEMMA FaultType ==
  ASSUME TypeOK, Fault
  PROVE  faults' \in 0 .. MaxFaults
BY SentinelAssumption DEF TypeOK, Fault
-----------------------------------------------------------------------------
LEMMA TypeStep == TypeOK /\ [Next]_vars => TypeOK'
<1> SUFFICES ASSUME TypeOK, [Next]_vars
             PROVE  TypeOK'
  OBVIOUS
<1> USE SentinelAssumption
<1>1. CASE FindingsChange
  BY <1>1 DEF FindingsChange, TypeOK, Running, flags, scan
<1>2. CASE VolumesChange
  BY <1>2 DEF VolumesChange, TypeOK, flags, scan, seen
<1>3. CASE Crash
  BY <1>3, FaultType DEF Crash, TypeOK, Zones, data, flags
<1>4. ASSUME NEW f \in Findings, CloseFlag(f)
      PROVE  TypeOK'
  <2>1. open' \in [Findings -> 0 .. MaxFlags]
    BY <1>4 DEF CloseFlag, TypeOK
  <2> QED BY <1>4, <2>1 DEF CloseFlag, TypeOK, data, scan, seen
<1>5. ASSUME NEW f \in Findings, ReopenFlag(f)
      PROVE  TypeOK'
  <2>1. open' \in [Findings -> 0 .. MaxFlags]
    BY <1>5, MoreIsCapped DEF ReopenFlag, TypeOK
  <2> QED BY <1>5, <2>1 DEF ReopenFlag, TypeOK, data, scan, seen
<1>6. ASSUME NEW s \in Scans, Start(s)
      PROVE  TypeOK'
  BY <1>6 DEF Start, TypeOK, data, flags
<1>7. ASSUME NEW s \in Scans, NEW f \in Findings, Examine(s, f)
      PROVE  TypeOK'
  BY <1>7 DEF Examine, TypeOK, data, flags, seen
<1>8. ASSUME NEW s \in Scans, NEW f \in Findings, Persist(s, f)
      PROVE  TypeOK'
  <2>1. open' \in [Findings -> 0 .. MaxFlags]
    BY <1>8, MoreIsCapped DEF Persist, TypeOK
  <2> QED BY <1>8, <2>1 DEF Persist, TypeOK, data
<1>9. ASSUME NEW s \in Scans, ReadProduction(s)
      PROVE  TypeOK'
  <2>1. faults' \in 0 .. MaxFaults
    BY <1>9, FaultType DEF ReadProduction, TypeOK
  <2> QED BY <1>9, <2>1 DEF ReadProduction, TypeOK, data, flags, seen
<1>10. ASSUME NEW s \in Scans, ReadBilled(s)
       PROVE  TypeOK'
  BY <1>10, ClassIsZone DEF ReadBilled, TypeOK, data, flags, seen
<1>11. ASSUME NEW s \in Scans, UpdateZone(s)
       PROVE  TypeOK'
  BY <1>11, EndsType DEF UpdateZone, TypeOK, data, flags
<1>12. ASSUME NEW s \in Scans, BreakOff(s)
       PROVE  TypeOK'
  BY <1>12, EndsType, FaultType DEF BreakOff, TypeOK, data, flags
<1>13. ASSUME NEW s \in Scans, NEW fs \in SUBSET Findings, ExamineFails(s, fs)
       PROVE  TypeOK'
  BY <1>13, FaultType DEF ExamineFails, TypeOK, data, flags
<1>14. ASSUME NEW s \in Scans, NEW f \in Findings, PersistFails(s, f)
       PROVE  TypeOK'
  BY <1>14, FaultType DEF PersistFails, TypeOK, data, flags
<1>15. CASE UNCHANGED vars
  BY <1>15 DEF vars, TypeOK, data, flags, scan, seen
<1> QED
  BY <1>1, <1>2, <1>3, <1>4, <1>5, <1>6, <1>7, <1>8, <1>9, <1>10, <1>11, <1>12,
     <1>13, <1>14, <1>15 DEF Next, Progress

\* TypeOK: every variable of a scan, and every row it writes, has the values its
\* place in the code allows.
THEOREM TypeCorrect == Spec => []TypeOK
<1>1. Init => TypeOK
  BY SentinelAssumption DEF Init, TypeOK, Zones
<1> QED BY <1>1, TypeStep, PTL DEF Spec
-----------------------------------------------------------------------------
(***************************************************************************)
(* What the flags of a scan rest on.  A finding that is there while the    *)
(* scan runs is at every moment in exactly the places the goroutines and   *)
(* the loop after wg.Wait move it through: not looked at, found, flagged,  *)
(* refused by the schema, or lost to a fault.  A goroutine that ended holds*)
(* nothing, and nothing is held when the zone is classified.               *)
(***************************************************************************)

\* Only a scan whose checks may still run holds findings.
Released == \A s \in Scans : at[s] # "scanning" => left[s] = {} /\ found[s] = {}

\* A goroutine that ended raised no flag of the scan to come.
Fresh == \A s \in Scans : at[s] = "idle" => flagged[s] = {}

\* The flags to come were there as well.
FoundWasThere == \A s \in Scans : found[s] \subseteq during[s]

\* What is there now, in a scan, is what its history says.
HistoryIsNow ==
    \A s \in Scans : /\ throughout[s] \subseteq present
                     /\ Running(s) => present \subseteq during[s]

\* Where a finding that was there all the while can be.
Accounted ==
    \A s \in Scans : Running(s) =>
      throughout[s] \cap Raised
        \subseteq left[s] \cup found[s] \cup flagged[s] \cup missed[s]

ScanInv == /\ TypeOK /\ Released /\ Fresh /\ FoundWasThere /\ HistoryIsNow
           /\ Accounted /\ FlagsWereFound

LEMMA ScanInit == Init => ScanInv
<1> SUFFICES ASSUME Init PROVE ScanInv
  OBVIOUS
<1>1. TypeOK
  BY SentinelAssumption DEF Init, TypeOK, Zones
<1> QED
  BY <1>1 DEF Init, ScanInv, Released, Fresh, FoundWasThere, HistoryIsNow,
              Accounted, FlagsWereFound, Running

\* A scan that ends keeps every conjunct, for the others and for itself.
LEMMA EndsKeeps ==
  ASSUME ScanInv, NEW s \in Scans, Ends(s), UNCHANGED present
  PROVE  (Released /\ Fresh /\ FoundWasThere /\ HistoryIsNow
          /\ Accounted /\ FlagsWereFound)'
<1> USE DEF ScanInv, TypeOK, Ends
<1>1. Released' /\ Fresh'
  BY DEF Released, Fresh
<1>2. FoundWasThere' /\ FlagsWereFound'
  BY DEF FoundWasThere, FlagsWereFound
<1>3. HistoryIsNow'
  BY DEF HistoryIsNow, Running
<1>4. Accounted'
  BY DEF Accounted, Accepted, Visible, Raised, Running
<1> QED BY <1>1, <1>2, <1>3, <1>4

LEMMA ScanStep == ScanInv /\ [Next]_vars => ScanInv'
<1> SUFFICES ASSUME ScanInv, [Next]_vars
             PROVE  ScanInv'
  OBVIOUS
<1> DEFINE Rest == /\ Released /\ Fresh /\ FoundWasThere /\ HistoryIsNow
                   /\ Accounted /\ FlagsWereFound
<1> SUFFICES Rest'
  BY TypeStep DEF ScanInv
<1>0. TypeOK /\ Rest
  BY DEF ScanInv
<1> USE DEF Released, Fresh, FoundWasThere, HistoryIsNow, Accounted,
            FlagsWereFound, Accepted, Visible, Raised, Running
<1>1. CASE FindingsChange
  BY <1>0, <1>1 DEF FindingsChange, TypeOK, scan, flags
<1>2. CASE VolumesChange
  BY <1>0, <1>2 DEF VolumesChange, scan, seen
<1>3. CASE Crash
  BY <1>0, <1>3 DEF Crash, data
<1>4. ASSUME NEW f \in Findings, CloseFlag(f) \/ ReopenFlag(f)
      PROVE  Rest'
  BY <1>0, <1>4 DEF CloseFlag, ReopenFlag, data, scan, seen
<1>5. ASSUME NEW s \in Scans, Start(s)
      PROVE  Rest'
  BY <1>0, <1>5 DEF Start, TypeOK, data
<1>6. ASSUME NEW s \in Scans, NEW f \in Findings, Examine(s, f)
      PROVE  Rest'
  BY <1>0, <1>6 DEF Examine, TypeOK, data, seen
<1>7. ASSUME NEW s \in Scans, NEW f \in Findings, Persist(s, f)
      PROVE  Rest'
  BY <1>0, <1>7 DEF Persist, TypeOK, data
<1>8. ASSUME NEW s \in Scans, ReadProduction(s)
      PROVE  Rest'
  BY <1>0, <1>8 DEF ReadProduction, TypeOK, data, seen
<1>9. ASSUME NEW s \in Scans, ReadBilled(s)
      PROVE  Rest'
  BY <1>0, <1>9 DEF ReadBilled, TypeOK, data, seen
<1>10. ASSUME NEW s \in Scans, UpdateZone(s) \/ BreakOff(s)
       PROVE  Rest'
  BY <1>10, EndsKeeps DEF UpdateZone, BreakOff, data
<1>11. ASSUME NEW s \in Scans, NEW fs \in SUBSET Findings, ExamineFails(s, fs)
       PROVE  Rest'
  BY <1>0, <1>11 DEF ExamineFails, TypeOK, data
<1>12. ASSUME NEW s \in Scans, NEW f \in Findings, PersistFails(s, f)
       PROVE  Rest'
  BY <1>0, <1>12 DEF PersistFails, TypeOK, data
<1>13. CASE UNCHANGED vars
  BY <1>0, <1>13 DEF vars, data, scan, seen
<1> QED
  BY <1>1, <1>2, <1>3, <1>4, <1>5, <1>6, <1>7, <1>8, <1>9, <1>10, <1>11, <1>12,
     <1>13 DEF Next, Progress

\* FlagsWereFound: however many scans of a district overlap, and whatever changes
\* under them, no scan flags what was not there while it ran.
THEOREM NoFlagFromNothing == Spec => []FlagsWereFound
<1>1. ScanInv => FlagsWereFound
  BY DEF ScanInv
<1> QED BY <1>1, ScanInit, ScanStep, PTL DEF Spec

\* ScansAreThorough: the parallel checks, the wait for them and the loop that
\* passes over failed inserts lose no finding but to a fault or the schema.
THEOREM NoFindingLost == Spec => []ScansAreThorough
<1>1. ScanInv => ScansAreThorough
  BY DEF ScanInv, ScansAreThorough, Released, Accounted, Accepted, Visible, Raised, Running
<1> QED BY <1>1, ScanInit, ScanStep, PTL DEF Spec
-----------------------------------------------------------------------------
(***************************************************************************)
(* The zone.  A scan that read the production before it changed, or billed *)
(* volumes that changed since, is stale: it is to write the zone of volumes*)
(* that are no longer those of the district.  Nothing keeps it from doing  *)
(* so.  What can be said is that stale scans are not made any more once the*)
(* volumes stand still, and that only they move the zone away from what    *)
(* the volumes call for.                                                   *)
(***************************************************************************)

\* The scans that hold volumes, or a verdict, other than those of p and b.
Stale(p, b) ==
    {s \in Scans : \/ at[s] = "billing" /\ volume[s] # p
                   \/ at[s] = "updating" /\ verdict[s] # NRWClass(p, b)}

\* A scan that has not classified its district holds the verdict it began with,
\* which is what it writes where there is no production.
Undecided == \A s \in Scans : at[s] # "updating" => verdict[s] = "GREY"

\* The volumes are p and b, and no statement fails in this step.
Still(p, b) ==
    /\ production = p /\ billed = b
    /\ production' = p /\ billed' = b
    /\ faults' = faults

\* No scan becomes stale, and a zone that changes becomes what the volumes call
\* for or is changed by a scan that was stale.
Drains(p, b) ==
    /\ Stale(p, b)' \subseteq Stale(p, b)
    /\ zone' # zone =>
         \/ zone' = NRWClass(p, b)
         \/ \E s \in Stale(p, b) : UpdateZone(s) /\ s \notin Stale(p, b)'

LEMMA UndecidedStep == TypeOK /\ Undecided /\ [Next]_vars => Undecided'
<1> SUFFICES ASSUME TypeOK, Undecided, [Next]_vars
             PROVE  Undecided'
  OBVIOUS
<1> USE DEF Undecided
<1>1. CASE UNCHANGED <<at, verdict>>
  BY <1>1
<1>2. CASE Crash
  BY <1>2 DEF Crash
<1>3. ASSUME NEW s \in Scans, Start(s)
      PROVE  Undecided'
  BY <1>3 DEF Start, TypeOK, Running
<1>4. ASSUME NEW s \in Scans, ReadProduction(s)
      PROVE  Undecided'
  BY <1>4 DEF ReadProduction, TypeOK
<1>5. ASSUME NEW s \in Scans, ReadBilled(s)
      PROVE  Undecided'
  BY <1>5 DEF ReadBilled, TypeOK
<1>6. ASSUME NEW s \in Scans, UpdateZone(s) \/ BreakOff(s)
      PROVE  Undecided'
  BY <1>6 DEF UpdateZone, BreakOff, Ends, TypeOK
<1> QED
  BY <1>1, <1>2, <1>3, <1>4, <1>5, <1>6
  DEF Next, Progress, FindingsChange, VolumesChange, CloseFlag, ReopenFlag,
      Examine, Persist, ExamineFails, PersistFails, scan, vars

\* A step in which no scan moves its volume, its verdict or its place, and no
\* zone is written, makes nobody stale.
LEMMA SameScansSameStale ==
  ASSUME NEW p, NEW b, UNCHANGED <<at, volume, verdict, zone>>
  PROVE  Drains(p, b)
BY DEF Drains, Stale, NRWClass

\* A scan that ends is stale no more, and makes no other so.
LEMMA EndIsNotStale ==
  ASSUME TypeOK, NEW s \in Scans, Ends(s), NEW p, NEW b
  PROVE  /\ s \notin Stale(p, b)'
         /\ Stale(p, b)' \subseteq Stale(p, b)
BY DEF TypeOK, Ends, Stale, NRWClass

LEMMA ZoneStep ==
  ASSUME TypeOK, Undecided, [Next]_vars, NEW p, NEW b, Still(p, b)
  PROVE  Drains(p, b)
<1>0. faults \in Nat /\ faults' = faults
  BY SentinelAssumption DEF TypeOK, Still
<1>1. CASE UNCHANGED <<at, volume, verdict, zone>>
  BY <1>1, SameScansSameStale
<1>2. ~Fault
  BY <1>0 DEF Fault
<1>3. ASSUME NEW s \in Scans, Start(s)
      PROVE  Drains(p, b)
  BY <1>3 DEF Start, TypeOK, Running, Drains, Stale, NRWClass
<1>4. ASSUME NEW s \in Scans, ReadProduction(s)
      PROVE  Drains(p, b)
  <2>1. UNCHANGED <<verdict, zone>>
    BY <1>4 DEF ReadProduction
  <2>2. CASE production = 0
    <3>1. NRWClass(p, b) = "GREY" /\ verdict[s] = "GREY"
      BY <1>4, <2>2 DEF ReadProduction, Undecided, Still, NRWClass
    <3>2. at' = [at EXCEPT ![s] = "updating"] /\ volume' = volume
      BY <1>2, <1>4, <2>2, SentinelAssumption DEF ReadProduction, TypeOK
    <3>3. Stale(p, b)' \subseteq Stale(p, b)
      BY <2>1, <3>1, <3>2 DEF TypeOK, Stale, NRWClass
    <3> QED BY <2>1, <3>3 DEF Drains
  <2>3. CASE production # 0
    <3>1. /\ at' = [at EXCEPT ![s] = "billing"]
          /\ volume' = [volume EXCEPT ![s] = p]
      BY <1>2, <1>4, <2>3 DEF ReadProduction, Still
    <3>2. Stale(p, b)' \subseteq Stale(p, b)
      BY <2>1, <3>1 DEF TypeOK, Stale, NRWClass
    <3> QED BY <2>1, <3>2 DEF Drains
  <2> QED BY <2>2, <2>3
<1>5. ASSUME NEW s \in Scans, ReadBilled(s)
      PROVE  Drains(p, b)
  <2>1. /\ at[s] = "billing" /\ UNCHANGED <<zone, volume>>
        /\ at' = [at EXCEPT ![s] = "updating"]
        /\ verdict' = [verdict EXCEPT ![s] = NRWClass(volume[s], b)]
    BY <1>5 DEF ReadBilled, Still
  <2>2. ASSUME NEW r \in Stale(p, b)'
        PROVE  r \in Stale(p, b)
    <3>1. CASE r = s
      <4>1. verdict'[s] # NRWClass(p, b)
        BY <2>1, <2>2, <3>1 DEF Stale, TypeOK, NRWClass
      <4>2. volume[s] # p
        BY <2>1, <4>1 DEF TypeOK
      <4> QED BY <2>1, <3>1, <4>2 DEF Stale
    <3>2. CASE r # s
      BY <2>1, <2>2, <3>2 DEF Stale, TypeOK, NRWClass
    <3> QED BY <3>1, <3>2
  <2> QED BY <2>1, <2>2 DEF Drains
<1>6. ASSUME NEW s \in Scans, UpdateZone(s)
      PROVE  Drains(p, b)
  <2>1. s \notin Stale(p, b)' /\ Stale(p, b)' \subseteq Stale(p, b)
    BY <1>6, EndIsNotStale DEF UpdateZone
  <2>2. zone' = NRWClass(p, b) \/ s \in Stale(p, b)
    BY <1>6 DEF UpdateZone, Stale
  <2> QED BY <1>6, <2>1, <2>2 DEF Drains
<1> QED
  BY <1>1, <1>2, <1>3, <1>4, <1>5, <1>6
  DEF Next, Progress, FindingsChange, VolumesChange, CloseFlag, ReopenFlag,
      Examine, Persist, ExamineFails, PersistFails, BreakOff, Crash, scan, vars

LEMMA UndecidedAlways == Spec => [](TypeOK /\ Undecided)
<1>1. Init => TypeOK /\ Undecided
  BY SentinelAssumption DEF Init, TypeOK, Zones, Undecided
<1> QED BY <1>1, TypeStep, UndecidedStep, PTL DEF Spec

\* However scans overlap: in a step that leaves the volumes of the district as
\* they are and fails no statement, no scan becomes stale, and the zone moves
\* away from what the volumes call for only by the last step of a scan that was
\* stale before.  This is why ZoneSettles holds, with no lock on the district.
THEOREM StaleScansDrain ==
  ASSUME NEW p, NEW b
  PROVE  Spec => [][Still(p, b) => Drains(p, b)]_vars
<1>1. TypeOK /\ Undecided /\ [Next]_vars => [Still(p, b) => Drains(p, b)]_vars
  BY ZoneStep
<1> QED BY <1>1, UndecidedAlways, PTL DEF Spec

\* The zone is what the volumes call for and no scan is to write another.
Settled(p, b) == zone = NRWClass(p, b) /\ Stale(p, b) = {}

\* Once a district's zone is settled it stays so for as long as its volumes stand
\* still and nothing fails, whoever starts scans of it.
THEOREM ZoneStaysSettled ==
  ASSUME NEW p, NEW b, NEW n
  PROVE  Spec /\ [](production = p /\ billed = b /\ faults = n)
           => [](Settled(p, b) => []Settled(p, b))
<1> DEFINE V == production = p /\ billed = b /\ faults = n
           S == Settled(p, b)
<1>1. TypeOK /\ Undecided /\ [Next]_vars /\ V /\ V' /\ S => S'
  <2> SUFFICES ASSUME TypeOK, Undecided, [Next]_vars, V, V', S
               PROVE  S'
    OBVIOUS
  <2>1. Drains(p, b)
    BY ZoneStep DEF Still
  <2>2. zone' = NRWClass(p, b) /\ Stale(p, b)' = {}
    BY <2>1 DEF Drains, Settled
  <2> QED BY <2>2 DEF Settled, NRWClass
<1> HIDE DEF V, S
<1>2. Spec /\ []V => [](S => []S)
  BY <1>1, UndecidedAlways, PTL DEF Spec
<1> QED BY <1>2 DEF V, S
-----------------------------------------------------------------------------
(***************************************************************************)
(* A scan ends.  wg.Wait waits for as many look-ups as there are findings, *)
(* the loop over allFlags has as many turns as were found, and nothing a   *)
(* scan does while others run or the tables change gives it more to do.    *)
(***************************************************************************)

\* How many statements a scan can still run: a finding that is not looked at may
\* have to be persisted, and then the zone takes three.
StepsLeft(s) ==
    IF at[s] = "scanning"
      THEN 2 * Cardinality(left[s]) + Cardinality(found[s]) + 3
      ELSE IF at[s] = "billing" THEN 2
      ELSE IF at[s] = "updating" THEN 1
      ELSE 0

\* What a scan does between its start and its end, failures among it.
Works(s) ==
    \/ Progress(s) \/ BreakOff(s)
    \/ \E fs \in SUBSET Findings : ExamineFails(s, fs)
    \/ \E f \in Findings : PersistFails(s, f)

LEMMA HeldIsFinite ==
  ASSUME TypeOK, NEW s \in Scans
  PROVE  /\ IsFiniteSet(left[s]) /\ Cardinality(left[s]) \in Nat
         /\ IsFiniteSet(found[s]) /\ Cardinality(found[s]) \in Nat
<1>1. left[s] \subseteq Findings /\ found[s] \subseteq Findings
  BY DEF TypeOK
<1>2. IsFiniteSet(left[s]) /\ IsFiniteSet(found[s])
  BY <1>1, SentinelAssumption, FS_Subset
<1> QED BY <1>2, FS_CardinalityType

LEMMA StepsAreNat == TypeOK => \A s \in Scans : StepsLeft(s) \in Nat
BY HeldIsFinite DEF StepsLeft

LEMMA StepsStayNat == TypeOK' => (\A s \in Scans : StepsLeft(s) \in Nat)'
BY StepsAreNat, PTL

\* What is left of a finite set without some of it is fewer.
LEMMA FewerLeft ==
  ASSUME NEW S, IsFiniteSet(S), NEW T, T \subseteq S, T # {}
  PROVE  /\ Cardinality(S \ T) \in Nat
         /\ Cardinality(S \ T) < Cardinality(S)
<1>1. S \ T \subseteq S /\ S \ T # S
  OBVIOUS
<1>2. /\ IsFiniteSet(S \ T)
      /\ Cardinality(S \ T) <= Cardinality(S)
      /\ Cardinality(S \ T) # Cardinality(S)
  BY <1>1, FS_Subset
<1>3. Cardinality(S \ T) \in Nat /\ Cardinality(S) \in Nat
  BY <1>2, FS_CardinalityType
<1> QED BY <1>2, <1>3

LEMMA OneMoreAtMost ==
  ASSUME NEW S, IsFiniteSet(S), NEW f
  PROVE  /\ Cardinality(S \cup {f}) \in Nat
         /\ Cardinality(S \cup {f}) <= Cardinality(S) + 1
<1>1. /\ IsFiniteSet(S \cup {f})
      /\ \/ Cardinality(S \cup {f}) = Cardinality(S)
         \/ Cardinality(S \cup {f}) = Cardinality(S) + 1
  BY FS_AddElement
<1> QED BY <1>1, FS_CardinalityType

\* A step that leaves a scan what it has to do.
LEMMA SameScanSameSteps ==
  ASSUME TypeOK, NEW s \in Scans,
         at'[s] = at[s], left'[s] = left[s], found'[s] = found[s]
  PROVE  StepsLeft(s)' = StepsLeft(s)
BY DEF StepsLeft

\* A scan that is gone has nothing to do.
LEMMA EndLeavesNone ==
  ASSUME TypeOK, NEW s \in Scans, Ends(s)
  PROVE  StepsLeft(s)' = 0
BY DEF StepsLeft, Ends, TypeOK

LEMMA WorkShrinks ==
  ASSUME TypeOK, Released, NEW s \in Scans, Works(s)
  PROVE  StepsLeft(s)' < StepsLeft(s)
<1> DEFINE l == Cardinality(left[s])
           n == Cardinality(found[s])
<1>0. /\ IsFiniteSet(left[s]) /\ l \in Nat
      /\ IsFiniteSet(found[s]) /\ n \in Nat
  BY HeldIsFinite
<1>1. left[s] # {} \/ found[s] # {} =>
        at[s] = "scanning" /\ StepsLeft(s) = 2 * l + n + 3
  BY DEF Released, StepsLeft
<1>2. ASSUME NEW f \in Findings, Examine(s, f)
      PROVE  StepsLeft(s)' < StepsLeft(s)
  <2>1. /\ f \in left[s] /\ at' = at
        /\ left'[s] = left[s] \ {f}
        /\ found'[s] = found[s] \cup {f} \/ found'[s] = found[s]
    BY <1>2 DEF Examine, TypeOK
  <2>2. Cardinality(left'[s]) \in Nat /\ Cardinality(left'[s]) < l
    BY <1>0, <2>1, FewerLeft
  <2>3. Cardinality(found'[s]) \in Nat /\ Cardinality(found'[s]) <= n + 1
    <3>1. CASE found'[s] = found[s] \cup {f}
      <4>1. /\ Cardinality(found[s] \cup {f}) \in Nat
            /\ Cardinality(found[s] \cup {f}) <= n + 1
        BY <1>0, OneMoreAtMost
      <4> QED BY <3>1, <4>1
    <3>2. CASE found'[s] = found[s]
      <4>1. Cardinality(found'[s]) = n
        BY <3>2
      <4> HIDE DEF n
      <4> QED BY <1>0, <4>1
    <3> QED BY <2>1, <3>1, <3>2
  <2>4. /\ StepsLeft(s) = 2 * l + n + 3
        /\ StepsLeft(s)' = 2 * Cardinality(left'[s]) + Cardinality(found'[s]) + 3
    BY <1>1, <2>1 DEF StepsLeft
  <2> HIDE DEF l, n
  <2> QED BY <1>0, <2>2, <2>3, <2>4
<1>3. ASSUME NEW fs \in SUBSET Findings, ExamineFails(s, fs)
      PROVE  StepsLeft(s)' < StepsLeft(s)
  <2>1. /\ fs # {} /\ fs \subseteq left[s] /\ at' = at /\ found' = found
        /\ left'[s] = left[s] \ fs
    BY <1>3 DEF ExamineFails, TypeOK
  <2>2. Cardinality(left'[s]) \in Nat /\ Cardinality(left'[s]) < l
    BY <1>0, <2>1, FewerLeft
  <2>3. /\ StepsLeft(s) = 2 * l + n + 3
        /\ StepsLeft(s)' = 2 * Cardinality(left'[s]) + n + 3
    BY <1>1, <2>1 DEF StepsLeft
  <2> HIDE DEF l, n
  <2> QED BY <1>0, <2>2, <2>3
<1>4. ASSUME NEW f \in Findings, Persist(s, f) \/ PersistFails(s, f)
      PROVE  StepsLeft(s)' < StepsLeft(s)
  <2>1. /\ f \in found[s] /\ at' = at /\ left' = left
        /\ found'[s] = found[s] \ {f}
    BY <1>4 DEF Persist, PersistFails, TypeOK
  <2>2. Cardinality(found'[s]) \in Nat /\ Cardinality(found'[s]) < n
    BY <1>0, <2>1, FewerLeft
  <2>3. /\ StepsLeft(s) = 2 * l + n + 3
        /\ StepsLeft(s)' = 2 * l + Cardinality(found'[s]) + 3
    BY <1>1, <2>1 DEF StepsLeft
  <2> HIDE DEF l, n
  <2> QED BY <1>0, <2>2, <2>3
<1>5. CASE ReadProduction(s)
  <2>1. /\ left[s] = {} /\ found[s] = {} /\ at[s] = "scanning"
        /\ at'[s] = "billing" \/ at'[s] = "updating"
    BY <1>5 DEF ReadProduction, TypeOK
  <2>2. StepsLeft(s) = 3
    BY <2>1, FS_EmptySet DEF StepsLeft
  <2> QED BY <2>1, <2>2 DEF StepsLeft
<1>6. CASE ReadBilled(s)
  BY <1>6 DEF ReadBilled, StepsLeft, TypeOK
<1>7. CASE UpdateZone(s)
  <2>1. at[s] = "updating" /\ StepsLeft(s)' = 0
    BY <1>7, EndLeavesNone DEF UpdateZone
  <2> QED BY <2>1 DEF StepsLeft
<1>8. CASE BreakOff(s)
  <2>1. Running(s) /\ StepsLeft(s)' = 0
    BY <1>8, EndLeavesNone DEF BreakOff
  <2>2. StepsLeft(s) > 0
    <3>1. at[s] \in {"scanning", "billing", "updating"}
      BY <2>1 DEF Running, TypeOK
    <3>2. CASE at[s] = "scanning"
      <4>1. StepsLeft(s) = 2 * l + n + 3
        BY <3>2 DEF StepsLeft
      <4> HIDE DEF l, n
      <4> QED BY <1>0, <4>1
    <3>3. CASE at[s] # "scanning"
      BY <3>1, <3>3 DEF StepsLeft
    <3> QED BY <3>2, <3>3
  <2> QED BY <2>1, <2>2
<1> QED BY <1>2, <1>3, <1>4, <1>5, <1>6, <1>7, <1>8 DEF Works, Progress

\* A scan that neither starts nor works in a step has as much to do after it, or
\* is gone with its process.
LEMMA OthersKeepSteps ==
  ASSUME ScanInv, [Next]_vars, NEW s \in Scans, ~Works(s), ~Start(s)
  PROVE  StepsLeft(s)' = StepsLeft(s) \/ StepsLeft(s)' = 0
<1>0. TypeOK
  BY DEF ScanInv
<1>1. CASE Crash
  <2>1. at'[s] = "idle"
    BY <1>1 DEF Crash
  <2> QED BY <1>1, <2>1 DEF StepsLeft
<1>2. ASSUME NEW r \in Scans, Start(r) \/ Works(r)
      PROVE  StepsLeft(s)' = StepsLeft(s)
  <2>1. r # s
    BY <1>2
  <2>2. at'[s] = at[s] /\ left'[s] = left[s] /\ found'[s] = found[s]
    BY <1>0, <1>2, <2>1
    DEF TypeOK, Start, Works, Progress, Examine, Persist, ReadProduction,
        ReadBilled, UpdateZone, BreakOff, ExamineFails, PersistFails, Ends
  <2> QED BY <1>0, <2>2, SameScanSameSteps
<1>3. CASE UNCHANGED <<at, left, found>>
  BY <1>0, <1>3, SameScanSameSteps
<1> QED
  BY <1>1, <1>2, <1>3
  DEF Next, Works, FindingsChange, VolumesChange, CloseFlag, ReopenFlag, scan, vars

\* What a running scan is about to do is there to be done.
CanGoOn(s) ==
    \/ at[s] = "scanning" /\ \E f \in Findings : f \in left[s]
    \/ at[s] = "scanning" /\ left[s] = {} /\ \E f \in Findings : f \in found[s]
    \/ at[s] = "scanning" /\ left[s] = {} /\ found[s] = {}
    \/ at[s] \in {"billing", "updating"}

\* Scans run out of steps: a running scan always has its next one to take, each
\* one, whether it succeeds or fails, brings it closer to its end by a measure
\* that is a natural number, and none but its start raises the measure, whatever
\* the other scans and the tables do.
THEOREM ScanStepsRunOut ==
  Spec => /\ [](\A s \in Scans : StepsLeft(s) \in Nat /\ (Running(s) => CanGoOn(s)))
          /\ [][\A s \in Scans :
                  /\ Works(s) => StepsLeft(s)' < StepsLeft(s)
                  /\ StepsLeft(s)' > StepsLeft(s) => Start(s)]_vars
<1>1. ScanInv =>
        \A s \in Scans : StepsLeft(s) \in Nat /\ (Running(s) => CanGoOn(s))
  <2> SUFFICES ASSUME ScanInv, NEW s \in Scans
               PROVE  StepsLeft(s) \in Nat /\ (Running(s) => CanGoOn(s))
    OBVIOUS
  <2>1. TypeOK
    BY DEF ScanInv
  <2>2. Running(s) => CanGoOn(s)
    BY <2>1 DEF Running, CanGoOn, TypeOK
  <2> QED BY <2>1, <2>2, StepsAreNat
<1>2. ScanInv /\ [Next]_vars =>
        [\A s \in Scans :
           /\ Works(s) => StepsLeft(s)' < StepsLeft(s)
           /\ StepsLeft(s)' > StepsLeft(s) => Start(s)]_vars
  <2> SUFFICES ASSUME ScanInv, [Next]_vars, NEW s \in Scans
               PROVE  /\ Works(s) => StepsLeft(s)' < StepsLeft(s)
                      /\ StepsLeft(s)' > StepsLeft(s) => Start(s)
    OBVIOUS
  <2>1. TypeOK /\ Released /\ StepsLeft(s) \in Nat
    BY StepsAreNat DEF ScanInv
  <2>2. CASE Works(s)
    <3>1. StepsLeft(s)' < StepsLeft(s)
      BY <2>1, <2>2, WorkShrinks
    <3>2. StepsLeft(s)' \in Nat
      BY <2>1, TypeStep, StepsStayNat
    <3> QED BY <2>1, <3>1, <3>2
  <2>3. CASE ~Works(s) /\ ~Start(s)
    <3>1. StepsLeft(s)' = StepsLeft(s) \/ StepsLeft(s)' = 0
      BY <2>3, OthersKeepSteps
    <3> QED BY <2>1, <2>3, <3>1
  <2>4. CASE ~Works(s) /\ Start(s)
    BY <2>4
  <2> QED BY <2>2, <2>3, <2>4
<1> QED BY <1>1, <1>2, ScanInit, ScanStep, PTL DEF Spec
=============================================================================
