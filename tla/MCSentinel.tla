----------------------------- MODULE MCSentinel -----------------------------
(* Instances of SentinelScan for TLC. *)
EXTENDS SentinelScan, TLC

CONSTANTS phantom, mismatch, imbalance

Kinds == [f \in Findings |-> CASE f = phantom   -> "phantom"
                               [] f = mismatch  -> "category"
                               [] f = imbalance -> "balance"]

-----------------------------------------------------------------------------
(* What a comment of the repository says of the sentinel, and the code denies. *)

\* sentinel_orchestrator.go: "Persist all flags (with deduplication)".  A finding
\* has one open flag.
FlagsAreDeduplicated == \A f \in Findings : open[f] <= 1
=============================================================================
