---------------------------- MODULE SlidingWindow ----------------------------
(***************************************************************************)
(* What a sliding-window rate limiter promises: it remembers every request *)
(* for ever, admits one when fewer than the limit fell into the window     *)
(* before it, and refuses it when the window is full.  Clocks that differ  *)
(* by up to Slack leave the oldest Slack ticks of the window undecided;    *)
(* without slack the answer is determined.  RateLimiter, which forgets,    *)
(* implements it.                                                          *)
(***************************************************************************)
EXTENDS Integers, FiniteSets

CONSTANTS
  Key,      \* what is limited: requests of one key share a window
  LimitOf,  \* key -> requests admitted in a window
  Window,   \* length of the window
  Slack,    \* how far a request may be behind an earlier one's time
  Time      \* the instants of the clock

VARIABLE log  \* every request, numbered in the order of the decisions

Request == [no : Nat \ {0}, key : Key, at : Time, admitted : BOOLEAN]

InWindow(key, at, length) == {r \in log : r.key = key /\ r.at > at - length}

Init == log = {}

\* A request of time at, which is not far behind any earlier one of its key.
Decide(key, at, admitted) ==
  /\ \A r \in log : r.key = key => r.at <= at + Slack
  /\ admitted => Cardinality(InWindow(key, at, Window - Slack)) < LimitOf[key]
  /\ ~admitted => Cardinality(InWindow(key, at, Window)) >= LimitOf[key]
  /\ log' = log \cup
       {[no |-> Cardinality(log) + 1, key |-> key, at |-> at, admitted |-> admitted]}

Next == \E key \in Key, at \in Time, admitted \in BOOLEAN : Decide(key, at, admitted)

Spec == Init /\ [][Next]_log
=============================================================================
