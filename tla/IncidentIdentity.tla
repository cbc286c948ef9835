--------------------------- MODULE IncidentIdentity ---------------------------
(***************************************************************************)
(* src/orchestrator/utils/incident.py: the two names of a detection.  An   *)
(* issue is the rank of its stable JSON text (keys sorted, so equal issues *)
(* have equal texts).  The hashes are taken to be free of collisions: a    *)
(* hash is what it is computed from.                                       *)
(***************************************************************************)
EXTENDS Integers, Sequences, FiniteSets, Functions

CONSTANTS Detections,     \* [pipeline, run_id, detected_at, detected_issues]
          MaxDetections,  \* bound on the detections made
          Null

ASSUME DetectionAssumption ==
    \A d \in Detections : d.detected_issues = Null \/ d.detected_issues \in Seq(Nat)

VARIABLE detected   \* the detections made so far

Issues(d) == IF d.detected_issues = Null THEN <<>> ELSE d.detected_issues

Reorderings(s) == Bijection(DOMAIN s, DOMAIN s)
InOrder(s, order) == [n \in DOMAIN s |-> s[order[n]]]
Sorted(s) == \A m, n \in DOMAIN s : m <= n => s[m] <= s[n]

\* Variant: the issues are hashed in the order they were found.
AsFound(issues) == issues

CanonicalizeDetectedIssues(issues) ==
    InOrder(issues, CHOOSE order \in Reorderings(issues) : Sorted(InOrder(issues, order)))

MakeIncidentId(d) == <<d.detected_at, d.pipeline, d.run_id>>
MakeFingerprint(d) == <<CanonicalizeDetectedIssues(Issues(d)), d.pipeline, d.run_id>>

DetectionInit == detected = {}
Detect == /\ Cardinality(detected) < MaxDetections
          /\ \E d \in Detections \ detected : detected' = detected \cup {d}

DetectionSpec == DetectionInit /\ [][Detect]_detected

-----------------------------------------------------------------------------
\* The issues of one are those of the other, each as often, in some order.
SameIssues(d, e) == \E order \in Reorderings(Issues(e)) : Issues(d) = InOrder(Issues(e), order)

(***************************************************************************)
(* Detections of one failure, at any time and with its issues in any       *)
(* order, share their fingerprint and nothing else does; the incident id,  *)
(* which does not look at the issues, tells the times of detection apart.  *)
(***************************************************************************)
FingerprintNamesFailure ==
    \A d, e \in detected :
        LET same_run == d.pipeline = e.pipeline /\ d.run_id = e.run_id
        IN /\ MakeFingerprint(d) = MakeFingerprint(e) <=> same_run /\ SameIssues(d, e)
           /\ MakeIncidentId(d) = MakeIncidentId(e) <=> same_run /\ d.detected_at = e.detected_at
=============================================================================
