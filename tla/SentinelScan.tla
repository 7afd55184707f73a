--------------------------- MODULE SentinelScan ---------------------------
(***************************************************************************)
(* The sentinel scans a district: RunDistrictScan lets its checks look for *)
(* findings in parallel, waits for all of them, persists the findings as   *)
(* anomaly flags one by one and sets the district's zone from its          *)
(* production and billing.  A scan is started by the 02:05 scheduler, by   *)
(* NATS messages and by POST /scan/:district_id, each in a goroutine of its*)
(* own, so scans of one district overlap; nothing locks the district.  The *)
(* tables they read change all the while, every statement may fail, a scan *)
(* started by the scheduler or NATS is cut off after five minutes, and the *)
(* process may end.                                                        *)
(*                                                                         *)
(* One district.  A finding is a rule that one of its accounts, or the     *)
(* district, breaks.  The look-up by DetectionHash before an insert is left*)
(* out: only ReconcileBill sets a hash, and runBillReconciliation hands it *)
(* the bill as its own shadow bill, a variance of 0 for which it returns   *)
(* no flag.  The database role of the service is taken to be one that row  *)
(* level security lets through: the sentinel sets no app.user_role.        *)
(***************************************************************************)
EXTENDS Naturals, FiniteSets

CONSTANTS
    Scans,       \* goroutines that may scan the district at once
    Findings,
    CheckOf,     \* the check that looks for a finding
    Productions, \* volumes produced in the last 30 days
    Billings,    \* volumes billed in the last 30 days
    MaxFlags,    \* "this many open flags or more" (bound)
    MaxFaults    \* failed statements, expired scans and crashes (bound)

Checks == {"phantom", "address", "balance", "category", "supply"}

\* A district has finitely many accounts, and the checks finitely many rules.
ASSUME SentinelAssumption ==
    /\ IsFiniteSet(Findings)
    /\ CheckOf \in [Findings -> Checks]
    /\ Productions \subseteq Nat /\ Productions # {}
    /\ Billings \subseteq Nat /\ Billings # {}
    /\ MaxFlags \in Nat \ {0} /\ MaxFaults \in Nat

VARIABLES
    present,    \* the findings the tables show now
    production, billed,
    open,       \* the flags of each finding with an open status
    closed,     \* the findings that have a flag an officer closed
    zone,       \* districts.zone_type
    at,         \* where each scan stands
    left,       \* what the goroutines of a scan have not looked at yet
    found,      \* allFlags: flags not persisted yet
    volume,     \* the production a scan read for the zone
    verdict,    \* the zone a scan is about to write
    during,     \* history: findings present at some time since the scan began
    throughout, \* history: findings present ever since the scan began
    flagged,    \* history: findings the scan inserted a flag for
    missed,     \* history: findings a failed statement cost the scan
    faults

data   == <<present, production, billed>>
flags  == <<open, closed>>
scan   == <<at, left, found, volume, verdict>>
seen   == <<during, throughout, flagged, missed>>
vars   == <<data, flags, zone, scan, seen, faults>>
-----------------------------------------------------------------------------
Zones == {"RED", "YELLOW", "GREEN", "GREY"}

\* updateDistrictNRWClassification: the share of the production that is not
\* billed, a surplus of bills counting as no loss.
NRWClass(produced, sold) ==
    LET lost == IF sold > produced THEN 0 ELSE produced - sold
    IN  IF produced = 0 THEN "GREY"
        ELSE IF lost * 100 >= 40 * produced THEN "RED"
        ELSE IF lost * 100 >= 20 * produced THEN "YELLOW"
        ELSE "GREEN"

\* The flags anomaly_flags takes.  A DISTRICT_IMBALANCE flag has no account_id,
\* which is NOT NULL, and is no fraud_type; OFF_SCHEDULE_CONSUMPTION is no
\* anomaly_type.
Accepted == {f \in Findings : CheckOf[f] \notin {"balance", "supply"}}

\* The findings a check comes to see.  runPhantomDetection asks for the billing
\* history of each account first, and GetBillingHistory hands the number 12 to a
\* parameter that "$2 || ' months'" makes a text, which pgx cannot encode: every
\* account gives an error, which is logged, and no phantom meter is ever found.
Visible == {f \in Findings : CheckOf[f] # "phantom"}

\* What a scan that nothing disturbs turns into a flag.
Raised == Visible \cap Accepted

Running(s) == at[s] # "idle"

\* The goroutine is gone, and with it everything it held.
Ends(s) ==
    /\ at' = [at EXCEPT ![s] = "idle"]
    /\ left' = [left EXCEPT ![s] = {}]
    /\ found' = [found EXCEPT ![s] = {}]
    /\ volume' = [volume EXCEPT ![s] = 0]
    /\ verdict' = [verdict EXCEPT ![s] = "GREY"]
    /\ during' = [during EXCEPT ![s] = {}]
    /\ throughout' = [throughout EXCEPT ![s] = {}]
    /\ flagged' = [flagged EXCEPT ![s] = {}]
    /\ missed' = [missed EXCEPT ![s] = {}]

Fault == faults < MaxFaults /\ faults' = faults + 1

Init ==
    /\ present \in SUBSET Findings
    /\ production \in Productions /\ billed \in Billings
    /\ open = [f \in Findings |-> 0]
    /\ closed = {}
    /\ zone = "GREY"
    /\ at = [s \in Scans |-> "idle"]
    /\ left = [s \in Scans |-> {}] /\ found = [s \in Scans |-> {}]
    /\ volume = [s \in Scans |-> 0] /\ verdict = [s \in Scans |-> "GREY"]
    /\ during = [s \in Scans |-> {}] /\ throughout = [s \in Scans |-> {}]
    /\ flagged = [s \in Scans |-> {}] /\ missed = [s \in Scans |-> {}]
    /\ faults = 0
-----------------------------------------------------------------------------
\* The tables of accounts, bills and production change under the scans.
FindingsChange ==
    \E now \in SUBSET Findings :
      /\ now # present
      /\ present' = now
      /\ during' = [s \in Scans |->
                      IF Running(s) THEN during[s] \cup now ELSE {}]
      /\ throughout' = [s \in Scans |-> throughout[s] \cap now]
      /\ UNCHANGED <<production, billed, flags, zone, scan, flagged, missed, faults>>

VolumesChange ==
    /\ production' \in Productions /\ billed' \in Billings
    /\ <<production, billed>>' # <<production, billed>>
    /\ UNCHANGED <<present, flags, zone, scan, seen, faults>>

\* Mutant of CloseFlag: a flag that is closed already is counted out once more.
CloseFlagAgain(f) ==
    /\ open' = [open EXCEPT ![f] = @ - 1]
    /\ closed' = closed \cup {f}
    /\ UNCHANGED <<data, zone, scan, seen, faults>>

\* ResolveAnomaly and MarkFalsePositive close a flag; ResolveAnomaly takes any
\* status, so it also opens one again.  A full count may stay full.
CloseFlag(f) ==
    /\ open[f] > 0
    /\ \E n \in {open[f] - 1, open[f]} :
         /\ n = open[f] => open[f] = MaxFlags
         /\ open' = [open EXCEPT ![f] = n]
    /\ closed' = closed \cup {f}
    /\ UNCHANGED <<data, zone, scan, seen, faults>>

More(n) == IF n < MaxFlags THEN n + 1 ELSE n

ReopenFlag(f) ==
    /\ f \in closed
    /\ closed' \in {closed, closed \ {f}}
    /\ open' = [open EXCEPT ![f] = More(@)]
    /\ UNCHANGED <<data, zone, scan, seen, faults>>
-----------------------------------------------------------------------------
\* RunDistrictScan: the checks start in parallel.
Start(s) ==
    /\ ~Running(s)
    /\ at' = [at EXCEPT ![s] = "scanning"]
    /\ left' = [left EXCEPT ![s] = Findings]
    /\ during' = [during EXCEPT ![s] = present]
    /\ throughout' = [throughout EXCEPT ![s] = present]
    /\ UNCHANGED <<data, flags, zone, found, volume, verdict, flagged, missed, faults>>

\* Mutant of Examine: CheckAddressUnverified does not ask IsWithinNetwork.
ExamineWithoutLooking(s, f) ==
    /\ f \in left[s]
    /\ left' = [left EXCEPT ![s] = @ \ {f}]
    /\ found' = [found EXCEPT ![s] = @ \cup {f}]
    /\ UNCHANGED <<data, flags, zone, at, volume, verdict, seen, faults>>

\* A check looks at one account, or at the district, and appends what it finds
\* under the mutex; the phantom check finds nothing.
Examine(s, f) ==
    /\ f \in left[s]
    /\ left' = [left EXCEPT ![s] = @ \ {f}]
    /\ found' = [found EXCEPT ![s] = IF f \in present \cap Visible THEN @ \cup {f}
                                       ELSE @]
    /\ UNCHANGED <<data, flags, zone, at, volume, verdict, seen, faults>>

\* The query of a check fails, or the one for an account it looks at.
ExamineFails(s, fs) ==
    /\ fs # {} /\ fs \subseteq left[s]
    /\ \A f, g \in fs : CheckOf[f] = CheckOf[g]
    /\ Fault
    /\ left' = [left EXCEPT ![s] = @ \ fs]
    /\ missed' = [missed EXCEPT ![s] = @ \cup fs]
    /\ UNCHANGED <<data, flags, zone, at, found, volume, verdict,
                   during, throughout, flagged>>

\* Mutant of Persist: a finding that has a flag, open or closed, gets no other.
PersistOnce(s, f) ==
    /\ left[s] = {} /\ f \in found[s]
    /\ found' = [found EXCEPT ![s] = @ \ {f}]
    /\ IF f \in Accepted /\ open[f] = 0 /\ f \notin closed
         THEN /\ open' = [open EXCEPT ![f] = More(@)]
              /\ flagged' = [flagged EXCEPT ![s] = @ \cup {f}]
         ELSE UNCHANGED <<open, flagged>>
    /\ UNCHANGED <<data, closed, zone, at, left, volume, verdict,
                   during, throughout, missed, faults>>

\* After wg.Wait: the next of allFlags is inserted.  What the schema refuses is
\* logged and passed over, as is what a fault keeps out.
Persist(s, f) ==
    /\ left[s] = {} /\ f \in found[s]
    /\ found' = [found EXCEPT ![s] = @ \ {f}]
    /\ IF f \in Accepted
         THEN /\ open' = [open EXCEPT ![f] = More(@)]
              /\ flagged' = [flagged EXCEPT ![s] = @ \cup {f}]
         ELSE UNCHANGED <<open, flagged>>
    /\ UNCHANGED <<data, closed, zone, at, left, volume, verdict,
                   during, throughout, missed, faults>>

\* Mutant of PersistFails: the first error ends the loop.
PersistFailsAndStops(s, f) ==
    /\ left[s] = {} /\ f \in found[s]
    /\ Fault
    /\ found' = [found EXCEPT ![s] = {}]
    /\ missed' = [missed EXCEPT ![s] = @ \cup {f}]
    /\ UNCHANGED <<data, flags, zone, at, left, volume, verdict,
                   during, throughout, flagged>>

PersistFails(s, f) ==
    /\ left[s] = {} /\ f \in found[s]
    /\ Fault
    /\ found' = [found EXCEPT ![s] = @ \ {f}]
    /\ missed' = [missed EXCEPT ![s] = @ \cup {f}]
    /\ UNCHANGED <<data, flags, zone, at, left, volume, verdict,
                   during, throughout, flagged>>

\* Mutant of ReadProduction: without production the district is left alone.
ReadProductionOrReturn(s) ==
    /\ at[s] = "scanning" /\ left[s] = {} /\ found[s] = {}
    /\ \/ /\ production > 0
          /\ at' = [at EXCEPT ![s] = "billing"]
          /\ volume' = [volume EXCEPT ![s] = production]
          /\ UNCHANGED <<left, found, verdict, seen>>
       \/ /\ production = 0
          /\ Ends(s)
    /\ UNCHANGED <<data, flags, zone, faults>>

\* updateDistrictNRWClassification: no production, or no answer, is GREY.
ReadProduction(s) ==
    /\ at[s] = "scanning" /\ left[s] = {} /\ found[s] = {}
    /\ \/ /\ production > 0
          /\ at' = [at EXCEPT ![s] = "billing"]
          /\ volume' = [volume EXCEPT ![s] = production]
          /\ UNCHANGED faults
       \/ /\ production = 0
          /\ at' = [at EXCEPT ![s] = "updating"]
          /\ UNCHANGED <<volume, faults>>
       \/ /\ Fault
          /\ at' = [at EXCEPT ![s] = "updating"]
          /\ UNCHANGED volume
    /\ UNCHANGED <<data, flags, zone, left, found, verdict, seen>>

ReadBilled(s) ==
    /\ at[s] = "billing"
    /\ at' = [at EXCEPT ![s] = "updating"]
    /\ verdict' = [verdict EXCEPT ![s] = NRWClass(volume[s], billed)]
    /\ UNCHANGED <<data, flags, zone, left, found, volume, seen, faults>>

UpdateZone(s) ==
    /\ at[s] = "updating"
    /\ zone' = verdict[s]
    /\ Ends(s)
    /\ UNCHANGED <<data, flags, faults>>

\* The billing query or the update fails, or the five minutes are over: every
\* statement left fails and the scan ends.
BreakOff(s) ==
    /\ Running(s)
    /\ Fault
    /\ Ends(s)
    /\ UNCHANGED <<data, flags, zone>>

\* The process ends with every scan in it.
Crash ==
    /\ \E s \in Scans : Running(s)
    /\ Fault
    /\ at' = [s \in Scans |-> "idle"]
    /\ left' = [s \in Scans |-> {}] /\ found' = [s \in Scans |-> {}]
    /\ volume' = [s \in Scans |-> 0] /\ verdict' = [s \in Scans |-> "GREY"]
    /\ during' = [s \in Scans |-> {}] /\ throughout' = [s \in Scans |-> {}]
    /\ flagged' = [s \in Scans |-> {}] /\ missed' = [s \in Scans |-> {}]
    /\ UNCHANGED <<data, flags, zone>>
-----------------------------------------------------------------------------
Progress(s) ==
    \/ \E f \in Findings : Examine(s, f) \/ Persist(s, f)
    \/ ReadProduction(s) \/ ReadBilled(s) \/ UpdateZone(s)

Next ==
    \/ FindingsChange \/ VolumesChange \/ Crash
    \/ \E f \in Findings : CloseFlag(f) \/ ReopenFlag(f)
    \/ \E s \in Scans :
         \/ Start(s) \/ Progress(s) \/ BreakOff(s)
         \/ \E fs \in SUBSET Findings : ExamineFails(s, fs)
         \/ \E f \in Findings : PersistFails(s, f)

Spec == Init /\ [][Next]_vars

\* The scheduler starts scans day after day, and a scan that is neither cut off
\* nor killed runs to its end.
FairSpec ==
    /\ Spec
    /\ WF_vars(\E s \in Scans : Start(s))
    /\ \A s \in Scans : WF_vars(Progress(s))
-----------------------------------------------------------------------------
TypeOK ==
    /\ present \subseteq Findings
    /\ production \in Productions /\ billed \in Billings
    /\ open \in [Findings -> 0 .. MaxFlags] /\ closed \subseteq Findings
    /\ zone \in Zones
    /\ at \in [Scans -> {"idle", "scanning", "billing", "updating"}]
    /\ left \in [Scans -> SUBSET Findings] /\ found \in [Scans -> SUBSET Findings]
    /\ volume \in [Scans -> Productions \cup {0}] /\ verdict \in [Scans -> Zones]
    /\ during \in [Scans -> SUBSET Findings]
    /\ throughout \in [Scans -> SUBSET Findings]
    /\ flagged \in [Scans -> SUBSET Findings] /\ missed \in [Scans -> SUBSET Findings]
    /\ faults \in 0 .. MaxFaults

\* A scan raises a flag only for what was there at some time since it began,
\* however the scans overlap and the tables change under them.
FlagsWereFound == \A s \in Scans : flagged[s] \subseteq during[s]

\* RunDistrictScan passes over what fails and goes on: when it turns to the zone
\* it has raised a flag for every finding that was there all the while, save
\* phantom meters, those the schema refuses, and what a failed statement of its
\* own cost it.
ScansAreThorough ==
    \A s \in Scans : at[s] \in {"billing", "updating"} =>
      throughout[s] \cap Raised \subseteq flagged[s] \cup missed[s]

\* What stays in the tables keeps being flagged: no close by an officer, no
\* overlap and no fault makes the sentinel forget an account that breaks a rule
\* of a working check.
FindingsResurface ==
    \A f \in Raised : <>[](f \in present) => []<>(open[f] > 0)

\* Once a district's volumes no longer change, its zone becomes the one they
\* call for and stays, though scans that read older volumes are still to write.
ZoneSettles ==
    \A p \in Productions, b \in Billings :
      <>[](production = p /\ billed = b) => <>[](zone = NRWClass(p, b))

=============================================================================
