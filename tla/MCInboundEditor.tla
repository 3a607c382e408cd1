-------------------------- MODULE MCInboundEditor --------------------------
(* What is filled in about a stream in the run: every kind of host, with   *)
(* and without headers that repeat or are empty, both kinds of mode, next  *)
(* to tls and reality settings with and without their optional parts.      *)
EXTENDS InboundEditor

\* No step compares clients: exchanging their ids changes nothing.
Symmetric == Permutations(Client)

H(name, value) == [name |-> name, value |-> value]
Filled(type, path, h, headers, mode, multi) ==
    [type |-> type, path |-> path, host |-> h, headers |-> headers, mode |-> mode,
     serviceName |-> "svc", authority |-> "", multiMode |-> multi]

HeaderLists ==
    { <<>>, <<H("host", "h1")>>,
      <<H("host", "h1"), H("x", "1"), H("host", "h2")>>,
      <<H("x", "1"), H("", "2"), H("x", ""), H("x", "3")>> }

FullTls == [sni |-> "sni", fp |-> "chrome", alpn |-> <<"h2", "http/1.1">>, ech |-> "ech"]
BareTls == [sni |-> "", fp |-> "", alpn |-> <<>>, ech |-> ""]
FullReality == [pbk |-> "key", fp |-> "chrome", names |-> <<"n1", "n2">>, ids |-> <<"s1", "s2">>,
                spx |-> "/", pqv |-> "pqv"]
BareReality == [pbk |-> "key", fp |-> "chrome", names |-> <<>>, ids |-> <<>>, spx |-> "", pqv |-> ""]

MCText == STRING \ {Absent}
MCForm ==
    {[t |-> Filled(type, "/p", h, headers, "packet-up", TRUE), tls |-> FullTls, reality |-> FullReality] :
        type \in {"none", "http"}, h \in {"", "h"}, headers \in HeaderLists}
    \cup {[t |-> Filled("none", "/", "", <<>>, "auto", FALSE), tls |-> BareTls, reality |-> BareReality]}
=============================================================================
