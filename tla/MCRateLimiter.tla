---------------------------- MODULE MCRateLimiter ----------------------------
(***************************************************************************)
(* A small instance of RateLimiter: one client asks for one path, with a   *)
(* window of three ticks and a limit of two requests.                      *)
(***************************************************************************)
EXTENDS RateLimiter

CONSTANTS a1, a2, health

ClassOf == [path \in Path |-> "other"]
SmallLimits == [class \in {"ingest", "anomalies", "other"} |->
                  IF class = "anomalies" THEN 1 ELSE 2]
=============================================================================
