---------------------------- MODULE MCIngestion ----------------------------
(***************************************************************************)
(* A small instance of Ingestion: m1 announces one prefix and withdraws    *)
(* another, m2 withdraws the first, m3 is m1 from a peer whose ASN is too  *)
(* large, m4 is a valid message without prefixes (a statistics report), m5 *)
(* does not parse.  The router sends one of the others and then m2.  s1    *)
(* matches the peer's ASN and s2 its address.                              *)
(***************************************************************************)
EXTENDS Ingestion

CONSTANTS m1, m2, m3, m4, m5, s1, s2, p1, p2

ValidMessages == [m \in Message |-> m # m5]
Announced == [m \in Message |-> IF m \in {m1, m3} THEN {p1} ELSE {}]
Removed == [m \in Message |-> IF m \in {m1, m3} THEN {p2}
                              ELSE IF m = m2 THEN {p1} ELSE {}]
SmallAsn == [m \in Message |-> m # m3]
SameAsn == [m \in Message |-> {s1}]
SameAddress == [m \in Message |-> {s2}]
AnyThenWithdrawal == <<Message \ {m2}, {m2}>>
NobodyRegistered == {}
=============================================================================
