------------------------------ MODULE ShareLink ------------------------------
(***************************************************************************)
(* What the panel writes about an inbound for others to read, and what it  *)
(* reads back: the stream settings a form stores (class StreamSettings of  *)
(* web/assets/js/model/inbound.js), the share link of a client             *)
(* (genVmessLink and its siblings), and the outbound that the panel's own  *)
(* importer makes of a link (Outbound.fromLink in model/outbound.js).      *)
(*                                                                         *)
(* Texts are opaque and "" is the empty one.  A link is a record of its    *)
(* parameters, Absent for one that was not set: how they are put into a    *)
(* URL and percent-encoded is the browser's.  A list that a link joins     *)
(* with commas is a sequence.                                              *)
(***************************************************************************)
EXTENDS Naturals, Sequences, SequencesExt

Streamed == {"vmess", "vless", "trojan", "shadowsocks"}
Networks == {"tcp", "kcp", "ws", "grpc", "httpupgrade", "xhttp"}
Securities == {"none", "tls", "reality"}
Vision == "xtls-rprx-vision"
Absent == "absent"

canEnableStream(protocol) == protocol \in Streamed
canEnableTls(protocol, network) ==
    protocol \in Streamed /\ network \in {"tcp", "ws", "grpc", "httpupgrade", "xhttp"}
canEnableReality(protocol, network) ==
    protocol \in {"vless", "trojan"} /\ network \in {"tcp", "grpc", "xhttp"}
canEnableTlsFlow(protocol, network, security) ==
    protocol = "vless" /\ network = "tcp" /\ security \in {"tls", "reality"}

-----------------------------------------------------------------------------
(* Headers.  A form keeps a list of names and values, with repetitions; a  *)
(* stored configuration keeps values by name, in the order in which the    *)
(* names were first met.  Entries: [name, value] in a form,                *)
(* [name, values] in the configuration.                                    *)

Shown(entry) == [i \in DOMAIN entry.values |-> [name |-> entry.name, value |-> entry.values[i]]]
toHeaders(stored) == FoldLeft(LAMBDA list, entry : list \o Shown(entry), <<>>, stored)

HasName(stored, name) == \E i \in DOMAIN stored : stored[i].name = name

\* Variant: a second value of a name is appended where only one may be stored.
AddHeaderAlways(stored, h, many) ==
    IF h.name = "" \/ h.value = "" THEN stored
    ELSE IF ~HasName(stored, h.name)
         THEN Append(stored, [name |-> h.name, values |-> <<h.value>>])
         ELSE [i \in DOMAIN stored |->
                 IF stored[i].name = h.name
                 THEN [stored[i] EXCEPT !.values = Append(@, h.value)] ELSE stored[i]]

\* One header of the form: an empty name or value is dropped; a name met before
\* gets one more value, or its value is replaced when there may be only one.
AddHeader(stored, h, many) ==
    IF h.name = "" \/ h.value = "" THEN stored
    ELSE IF ~HasName(stored, h.name)
         THEN Append(stored, [name |-> h.name, values |-> <<h.value>>])
         ELSE [i \in DOMAIN stored |->
                 IF stored[i].name = h.name
                 THEN [stored[i] EXCEPT !.values = IF many THEN Append(@, h.value) ELSE <<h.value>>]
                 ELSE stored[i]]

toV2Headers(list, many) == FoldLeft(LAMBDA stored, h : AddHeader(stored, h, many), <<>>, list)

\* getHeader(obj, "host"): the first header of that name, "" when there is none.
\* A name is one of a few texts here, its case is not modelled.
getHeader(list, name) ==
    LET at == {i \in DOMAIN list : list[i].name = name}
    IN  IF at = {} THEN "" ELSE list[CHOOSE i \in at : \A j \in at : i <= j].value

-----------------------------------------------------------------------------
(* Stream settings.  A form holds the settings of every transport and of   *)
(* both kinds of security at once; the stored configuration holds those    *)
(* that are selected, and a form that is opened again has defaults for the *)
(* others.  The settings of all transports are one record here: a field    *)
(* belongs to the transports in FieldsOf.                                  *)

FieldsOf(network) ==
    CASE network = "tcp" -> {"type", "path", "headers"}
      [] network \in {"ws", "httpupgrade"} -> {"path", "host", "headers"}
      [] network = "xhttp" -> {"path", "host", "headers", "mode"}
      [] network = "grpc" -> {"serviceName", "authority", "multiMode"}
      [] network = "kcp" -> {}

DefaultTransport ==
    [type |-> "none", path |-> "/", host |-> "", headers |-> <<>>, mode |-> "auto",
     serviceName |-> "", authority |-> "", multiMode |-> FALSE]

\* toJson of each class: tcp keeps its request for type http only, and only tcp
\* may repeat a header; the settings of kcp are not modelled.
StoredTcp(t) ==
    IF t.type = "http"
    THEN [DefaultTransport EXCEPT !.type = t.type, !.path = t.path,
                                  !.headers = toV2Headers(t.headers, TRUE)]
    ELSE DefaultTransport
StoredWs(t) ==
    [DefaultTransport EXCEPT !.path = t.path, !.host = t.host,
                             !.headers = toV2Headers(t.headers, FALSE)]
StoredHTTPUpgrade(t) == StoredWs(t)
StoredXHTTP(t) == [StoredWs(t) EXCEPT !.mode = t.mode]
StoredGrpc(t) ==
    [DefaultTransport EXCEPT !.serviceName = t.serviceName, !.authority = t.authority,
                             !.multiMode = t.multiMode]

StoredTransport(network, t) ==
    CASE network = "tcp" -> StoredTcp(t)
      [] network = "ws" -> StoredWs(t)
      [] network = "httpupgrade" -> StoredHTTPUpgrade(t)
      [] network = "xhttp" -> StoredXHTTP(t)
      [] network = "grpc" -> StoredGrpc(t)
      [] network = "kcp" -> DefaultTransport

OpenedTransport(stored) == [stored EXCEPT !.headers = toHeaders(@)]

-----------------------------------------------------------------------------
(* Share links.  s is the stream of an inbound as the page has it:         *)
(* network, security, the transport t, tls and reality.                    *)

\* security of the link: that of the stream, or the one an external proxy forces.
LinkSecurity(s, forceTls) == IF forceTls = "same" THEN s.security ELSE forceTls

\* For tcp the host is a header of the request, else a field or a header.
host(s) ==
    IF s.network # "tcp" /\ s.t.host # "" THEN s.t.host ELSE getHeader(s.t.headers, "host")

SetIf(condition, value) == IF condition THEN value ELSE Absent

\* A transport's parameters in the links of VLESS, Trojan and Shadowsocks; a
\* request without a host header leaves the parameter out.
TransportParams(s) ==
    LET http == s.network = "tcp" /\ s.t.type = "http"
        web == s.network \in {"ws", "httpupgrade", "xhttp"}
    IN  [type |-> s.network,
         headerType |-> SetIf(http, "http"),
         path |-> SetIf(http \/ web, s.t.path),
         host |-> SetIf(web \/ (http /\ host(s) # ""), host(s)),
         serviceName |-> SetIf(s.network = "grpc", s.t.serviceName),
         authority |-> SetIf(s.network = "grpc", s.t.authority),
         mode |-> IF s.network = "xhttp" THEN s.t.mode
                  ELSE SetIf(s.network = "grpc" /\ s.t.multiMode, "multi")]

NoTls == [fp |-> Absent, alpn |-> <<>>, sni |-> Absent, ech |-> Absent]
TlsParams(s, sec) ==
    IF sec = "tls" /\ s.security = "tls"
    THEN [fp |-> s.tls.fp, alpn |-> s.tls.alpn, sni |-> SetIf(s.tls.sni # "", s.tls.sni),
          ech |-> SetIf(s.tls.ech # "", s.tls.ech)]
    ELSE NoTls

NoReality == [pbk |-> Absent, fp |-> Absent, sni |-> Absent, sid |-> Absent, spx |-> Absent, pqv |-> Absent]
RealityParams(s, sec) ==
    IF sec = "reality"
    THEN [pbk |-> s.reality.pbk, fp |-> s.reality.fp,
          sni |-> SetIf(s.reality.names # <<>>, Head(s.reality.names)),
          sid |-> SetIf(s.reality.ids # <<>>, Head(s.reality.ids)),
          spx |-> SetIf(s.reality.spx # "", s.reality.spx),
          pqv |-> SetIf(s.reality.pqv # "", s.reality.pqv)]
    ELSE NoReality

\* A VLESS link names the flow of its client over tcp with tls or reality.
FlowParam(s, sec, flow) ==
    SetIf(/\ flow # "" /\ s.network = "tcp"
          /\ sec = "reality" \/ (sec = "tls" /\ s.security = "tls"), flow)

\* who is what stands before the "@": the id or password of a client, for
\* Shadowsocks in base64 with method and passwords.  It is plain if its text is
\* one that the browser's URL leaves as it is, and whose base64 is the same in
\* the URL-safe alphabet and in the other.
ParamLink(protocol, s, sec, who, flow) ==
    [scheme |-> protocol, who |-> who, security |-> sec, t |-> TransportParams(s),
     tls |-> TlsParams(s, sec), reality |-> RealityParams(s, sec), flow |-> flow]

genVLESSLink(s, forceTls, who, flow) ==
    LET sec == LinkSecurity(s, forceTls)
    IN  ParamLink("vless", s, sec, who, FlowParam(s, sec, flow))

genTrojanLink(s, forceTls, who) ==
    ParamLink("trojan", s, LinkSecurity(s, forceTls), who, Absent)

\* A Shadowsocks link has no security but tls.
genSSLink(s, forceTls, who) ==
    ParamLink("shadowsocks", s,
              IF LinkSecurity(s, forceTls) = "tls" THEN "tls" ELSE "none", who, Absent)

\* One JSON object.  type holds the kind of tcp header, "multi" for
\* grpc, and the mode of xhttp; sni, fp and alpn belong to tls, ech is left out.
genVmessLink(s, forceTls, who) ==
    LET sec == LinkSecurity(s, forceTls)
        http == s.network = "tcp" /\ s.t.type = "http"
        web == s.network \in {"ws", "httpupgrade", "xhttp"}
    IN  [scheme |-> "vmess", who |-> who, net |-> s.network, tls |-> sec,
         type |-> CASE s.network = "tcp" -> s.t.type
                    [] s.network = "grpc" -> SetIf(s.t.multiMode, "multi")
                    [] s.network = "xhttp" -> s.t.mode
                    [] OTHER -> Absent,
         path |-> IF s.network = "grpc" THEN s.t.serviceName ELSE SetIf(http \/ web, s.t.path),
         host |-> SetIf(web \/ (http /\ host(s) # ""), host(s)),
         authority |-> SetIf(s.network = "grpc", s.t.authority),
         sni |-> SetIf(sec = "tls" /\ s.tls.sni # "", s.tls.sni),
         fp |-> SetIf(sec = "tls" /\ s.tls.fp # "", s.tls.fp),
         alpn |-> IF sec = "tls" THEN s.tls.alpn ELSE <<>>]

genLink(protocol, s, forceTls, who, flow) ==
    CASE protocol = "vmess" -> genVmessLink(s, forceTls, who)
      [] protocol = "vless" -> genVLESSLink(s, forceTls, who, flow)
      [] protocol = "trojan" -> genTrojanLink(s, forceTls, who)
      [] protocol = "shadowsocks" -> genSSLink(s, forceTls, who)

-----------------------------------------------------------------------------
(* The importer.                                                           *)

Given(value, default) == IF value = Absent THEN default ELSE value

\* An outbound's transport; what a link leaves out has the default of its class.
OutTransport(network, type, path, h, service, authority, multi, mode) ==
    [type |-> type, path |-> Given(path, IF network = "tcp" THEN "" ELSE "/"), host |-> Given(h, ""),
     serviceName |-> Given(service, ""), authority |-> Given(authority, ""),
     multiMode |-> multi, mode |-> Given(mode, "")]

NoOutTls == [sni |-> "", alpn |-> <<>>, fp |-> "", ech |-> ""]
NoOutReality == [pbk |-> "", fp |-> "", sni |-> "", sid |-> "", spx |-> "", pqv |-> ""]

\* Variant: the multi mode of grpc is looked for where vmess has it.
MultiOfType(t) == t.headerType = "multi"

Multi(t) == t.mode = "multi"

\* The user part is taken out of the text of the URL, in which any character that
\* is not plain was percent-encoded, and is not decoded.
userData(who) == IF who.plain THEN who ELSE [who EXCEPT !.id = Absent]

fromParamLink(link) ==
    [protocol |-> link.scheme, network |-> link.t.type, security |-> link.security,
     t |-> OutTransport(link.t.type, Given(link.t.headerType, "none"), link.t.path, link.t.host,
                        link.t.serviceName, link.t.authority, Multi(link.t), link.t.mode),
     tls |-> IF link.security = "tls"
             THEN [sni |-> Given(link.tls.sni, ""), alpn |-> link.tls.alpn,
                   fp |-> Given(link.tls.fp, "none"), ech |-> Given(link.tls.ech, "")]
             ELSE NoOutTls,
     reality |-> IF link.security = "reality"
                 THEN [f \in DOMAIN NoOutReality |-> Given(link.reality[f], "")]
                 ELSE NoOutReality,
     who |-> userData(link.who), flow |-> Given(link.flow, "")]

\* The mode of xhttp is read from a key that genVmessLink does not write.
fromVmessLink(link) ==
    [protocol |-> "vmess", network |-> link.net, security |-> link.tls,
     t |-> OutTransport(link.net, IF link.net = "tcp" THEN link.type ELSE "none",
                        IF link.net = "grpc" THEN "/" ELSE link.path, link.host,
                        IF link.net = "grpc" THEN link.path ELSE Absent, link.authority,
                        link.net = "grpc" /\ link.type = "multi", Absent),
     tls |-> IF link.tls = "tls"
             THEN [sni |-> Given(link.sni, ""), alpn |-> link.alpn, fp |-> Given(link.fp, ""), ech |-> ""]
             ELSE NoOutTls,
     reality |-> NoOutReality, who |-> link.who, flow |-> ""]

\* atob refuses the URL-safe alphabet that genSSLink writes.
Refused(link) == link.scheme = "shadowsocks" /\ ~link.who.plain
NoOutbound == [protocol |-> Absent]

fromLink(link) ==
    IF link.scheme = "vmess" THEN fromVmessLink(link)
    ELSE IF Refused(link) THEN NoOutbound ELSE fromParamLink(link)

-----------------------------------------------------------------------------
(* What a link promises: the outbound it is read as speaks to the inbound  *)
(* it was written for.                                                     *)

\* The settings of a transport that both ends must agree on.
MustAgree(network, http) ==
    CASE network = "tcp" -> IF http THEN {"type", "path", "host"} ELSE {"type"}
      [] network \in {"ws", "httpupgrade"} -> {"path", "host"}
      [] network = "xhttp" -> {"path", "host", "mode"}
      [] network = "grpc" -> {"serviceName", "authority", "multiMode"}
      [] network = "kcp" -> {}

\* The inbound's side of those settings; what a VMess link loses comes back as "".
Served(s, field) == IF field = "host" THEN host(s) ELSE s.t[field]
Survives(protocol, value) == IF protocol = "vmess" THEN "" ELSE value
Expected(protocol, s, field) ==
    IF field = "mode" THEN Survives(protocol, s.t.mode) ELSE Served(s, field)

First(list) == IF list = <<>> THEN "" ELSE Head(list)

Agrees(protocol, s, forceTls, who, flow) ==
    LET out == fromLink(genLink(protocol, s, forceTls, who, flow))
        sec == LinkSecurity(s, forceTls)
    IN  /\ out.protocol = protocol /\ out.network = s.network
        /\ out.who = who \/ (protocol # "vmess" /\ ~who.plain)
        /\ out.security = sec
        /\ \A f \in MustAgree(s.network, s.t.type = "http") : out.t[f] = Expected(protocol, s, f)
        /\ sec = "tls" /\ s.security = "tls" =>
             /\ out.tls.sni = s.tls.sni /\ out.tls.alpn = s.tls.alpn /\ out.tls.fp = s.tls.fp
             /\ out.tls.ech = Survives(protocol, s.tls.ech)
        /\ sec = "reality" =>
             /\ out.reality.pbk = s.reality.pbk /\ out.reality.fp = s.reality.fp
             /\ out.reality.sni = First(s.reality.names) /\ out.reality.sid = First(s.reality.ids)
             /\ out.reality.spx = s.reality.spx /\ out.reality.pqv = s.reality.pqv
        /\ out.flow = IF canEnableTlsFlow(protocol, s.network, sec) /\ sec = s.security
                      THEN flow ELSE ""
=============================================================================
