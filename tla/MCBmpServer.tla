---------------------------- MODULE MCBmpServer ----------------------------
(***************************************************************************)
(* Small instances of BmpServer: router r1 may connect twice (c1, c2), r2  *)
(* once (c3).  TwoRouters gives each a speaker; SharedAddress is the case  *)
(* of 10.0.0.1 and 10.0.0.10, where the shorter address is contained in    *)
(* both listen addresses.                                                  *)
(***************************************************************************)
EXTENDS BmpServer

CONSTANTS p1, p2, c1, c2, c3, r1, r2, s1, s2

PeerOf == [c \in Conn |-> IF c = c3 THEN r2 ELSE r1]
TwoRouters == [ip \in Ip |-> IF ip = r1 THEN {s1} ELSE {s2}]
SharedAddress == [ip \in Ip |-> IF ip = r1 THEN {s1, s2} ELSE {s2}]
NobodyRegistered == {}
AllRegistered == {s1, s2}
=============================================================================
