--------------------------- MODULE MCAlertDispatch ---------------------------
(***************************************************************************)
(* A small instance of AlertDispatch for TLC: one anomaly, two             *)
(* subscriptions that differ in what they filter, the detector's message   *)
(* and one for an operator's retry.                                        *)
(***************************************************************************)
EXTENDS AlertDispatch, TLC

CONSTANTS a1, s1, s2, churn, correlated

MCAnomaly == {a1}
MCSub == {s1, s2}
MCType == {churn, correlated}

\* A CRITICAL correlated failure: s1 takes everything, s2 only this kind.
MCSeverityOf == [a \in Anomaly |-> 2]
MCTypeOf == [a \in Anomaly |-> correlated]
MCSeverityMin == [s \in Sub |-> IF s = s1 THEN 0 ELSE 2]
MCTypesOf == [s \in Sub |-> IF s = s1 THEN {} ELSE {correlated}]

\* Bound: an operator's message is submitted but not run here (Alerting runs it).
OperatorsWait ==
  \A t \in Task : task[t].origin = "operator" => task[t].state \in {"free", "queued"}
=============================================================================
