------------------------------ MODULE MCTunnel ------------------------------
(* Instances of Tunnel for TLC: c1 has a quota and starts its time with its *)
(* first use, c2 has none and is renewed.  The server's own address is the  *)
(* second of its pool, or by a post of its settings the first.              *)
EXTENDS Tunnel
CONSTANTS c1, c2
QuotaOf == [c \in Client |-> IF c = c1 THEN 1 ELSE 0]
RenewsOf == [c \in Client |-> c = c2]
LifetimeOf == [c \in Client |-> IF c = c1 THEN "delayed" ELSE "ahead"]
DefaultNetOf == [own |-> 3, pool |-> {2, 3, 4}]
NetsOf == {DefaultNetOf, [own |-> 2, pool |-> {2, 3, 4}]}
=============================================================================
