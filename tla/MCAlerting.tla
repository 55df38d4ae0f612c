----------------------------- MODULE MCAlerting -----------------------------
(***************************************************************************)
(* A small instance of Alerting: one detection that may run twice and find *)
(* both kinds of anomalies, two messages for them and for the operator's   *)
(* retries, and one webhook that takes everything.                         *)
(***************************************************************************)
EXTENDS Alerting

CONSTANTS d1, s1

\* Both detectors agree.
MCChurn == {{}, {"z_score", "isolation_forest"}}

MCSeverity == [type \in {"UNUSUAL_CHURN", "CORRELATED_FAILURE"} |->
                 IF type = "UNUSUAL_CHURN" THEN 1 ELSE 2]
MCSeverityMin == [s \in Sub |-> 1]
MCTypesOf == [s \in Sub |-> {}]
=============================================================================
