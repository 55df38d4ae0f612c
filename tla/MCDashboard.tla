---------------------------- MODULE MCDashboard ----------------------------
(***************************************************************************)
(* A small instance of Dashboard: two sessions of it and one other user,   *)
(* who may send requests of any kind.                                      *)
(***************************************************************************)
EXTENDS Dashboard

CONSTANTS s1, s2, dashboard, alice, host
=============================================================================
