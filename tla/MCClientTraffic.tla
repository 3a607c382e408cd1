--------------------------- MODULE MCClientTraffic ---------------------------
(* Instances of ClientTraffic for TLC. *)
EXTENDS ClientTraffic

CONSTANTS c1, c2

\* c1 has a quota and its time starts with its first use; c2 has no quota, and
\* its expiry is renewed.  The expiry of c2 is not a multiple of its period
\* away from the last instant of the clock, which is when it is renewed.
QuotaOf    == [c \in Client |-> IF c = c1 THEN 1 ELSE 0]
PeriodOf   == [c \in Client |-> IF c = c2 THEN 2 ELSE 0]
LifetimeOf == [c \in Client |-> IF c = c1 THEN -1 ELSE 2]

\* The same a day earlier, for a clock that stops a day earlier.
ShortLifetimeOf == [c \in Client |-> IF c = c1 THEN -1 ELSE 1]
==============================================================================
