------------------------- MODULE MCAnomalyDetection -------------------------
(***************************************************************************)
(* A small instance of AnomalyDetection: two messages, of which each may   *)
(* be run three times, for two workers, a threshold of one withdrawal, and *)
(* ticks as long as the windows: the same tick is within them, the next one*)
(* past them.  Only withdrawals raise anomalies here; MCAlerting has the   *)
(* churn detectors.                                                        *)
(***************************************************************************)
EXTENDS AnomalyDetection

CONSTANTS d1, d2

NoChurn == {{}}
=============================================================================
