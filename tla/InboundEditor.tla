---------------------------- MODULE InboundEditor ----------------------------
(***************************************************************************)
(* The page of the inbounds and its dialogs (html/inbounds.html,           *)
(* html/modals/inbound_modal.html and client_modal.html over               *)
(* assets/js/model/inbound.js and dbinbound.js): a dialog is opened on the *)
(* page's copy of a row, edited for as long as its user likes, and posted  *)
(* whole; the server stores what is posted.  Meanwhile another tab edits   *)
(* the same inbound and the traffic job counts.                            *)
(*                                                                         *)
(* One inbound is followed, from the dialog that adds it to its deletion.  *)
(* The page's copy is refreshed when an answer or a push arrives; in what  *)
(* order these arrive is PageClient's matter.                              *)
(***************************************************************************)
EXTENDS ShareLink, FiniteSets

CONSTANTS
    Client,        \* clients of the inbound, by id
    Protocol,      \* protocols offered by the form
    Network,       \* networks offered by the form
    Text,          \* what can be filled into a field
    Form,          \* what is filled in about a stream: [t, tls, reality]
    MaxCount,      \* bound: units of traffic counted
    MaxElsewhere   \* bound: edits made in another tab

Transport == [type: {"none", "http"}, path: Text, host: Text, headers: Seq([name: Text, value: Text]),
              mode: Text, serviceName: Text, authority: Text, multiMode: BOOLEAN]
Tls == [sni: Text, fp: Text, alpn: Seq(Text), ech: Text]
Reality == [pbk: Text, fp: Text, names: Seq(Text), ids: Seq(Text), spx: Text, pqv: Text]

ASSUME EditorAssumption ==
    /\ IsFiniteSet(Client) /\ Client # {}
    /\ "vless" \in Protocol /\ {"new", "gone"} \cap Protocol = {}
    /\ Network \subseteq Networks /\ "tcp" \in Network
    /\ MaxCount \in Nat /\ MaxElsewhere \in Nat

ASSUME FormAssumption ==
    /\ "" \in Text /\ Absent \notin Text
    /\ Form \subseteq [t: Transport, tls: Tls, reality: Reality]

VARIABLES
    row,       \* the inbound in the database
    cache,     \* the page's copy of it (dbInbounds)
    dialog,    \* the open dialog and its draft
    fresh,     \* history: the row is as it was when the open dialog was filled
    emptied,   \* history: its user chose a method for a single user
    mixed,     \* history: a client was posted from a draft of another stream
    elsewhere  \* edits made in another tab so far

histories == <<fresh, emptied, mixed>>
vars == <<row, cache, dialog, histories, elsewhere>>

\* A client of the settings: not there, or its flow ("" for none).
Settings == [Client -> {Absent, "", Vision}]
Fields == [protocol: Protocol, network: Network, security: Securities,
           single: BOOLEAN, clients: Settings, count: 0 .. MaxCount]
Inbound == {r \in Fields : r.single => r.protocol = "shadowsocks"}

\* "new": not added yet.  "gone": deleted; its id does not come back.
New == [protocol |-> "new"]
Gone == [protocol |-> "gone"]
Exists(r) == r.protocol \notin {"new", "gone"}

Closed == [kind |-> "closed"]
Dialog == [kind: {"add", "edit", "reset"}, draft: Inbound]
          \cup [kind: {"newClient", "editClient"}, draft: Inbound, who: Client]

TypeOK ==
    /\ row \in Inbound \cup {New, Gone} /\ cache \in Inbound \cup {New, Gone}
    /\ dialog \in Dialog \cup {Closed}
    /\ fresh \in BOOLEAN /\ emptied \in BOOLEAN /\ mixed \in BOOLEAN /\ elsewhere \in 0 .. MaxElsewhere

Init ==
    /\ row = New /\ cache = New /\ dialog = Closed
    /\ fresh = TRUE /\ emptied = FALSE /\ mixed = FALSE /\ elsewhere = 0

-----------------------------------------------------------------------------
(* Drafts.  Nobody, only c, and all flows cleared, among the clients.      *)

Nobody == [c \in Client |-> Absent]
Only(c) == [Nobody EXCEPT ![c] = ""]
Present(clients) == {c \in Client : clients[c] # Absent}
NoFlows(clients) == [c \in Client |-> IF clients[c] = Absent THEN Absent ELSE ""]

HasClients(protocol) == protocol \in Streamed

\* Inbound.Settings.getSettings(protocol): one client with a random id.
getSettings(protocol, c) == IF HasClients(protocol) THEN Only(c) ELSE Nobody

\* new Inbound()
newInbound(c) ==
    [protocol |-> "vless", network |-> "tcp", security |-> "none", single |-> FALSE,
     clients |-> Only(c), count |-> 0]

FlowOk(d) == canEnableTlsFlow(d.protocol, d.network, d.security)

\* Variant: the method of the old settings stays.
SetProtocolKeepsMethod(d, p, c) == [d EXCEPT !.protocol = p, !.clients = getSettings(p, c)]

\* Choosing a protocol replaces the settings and keeps the stream.
SetProtocol(d, p, c) == [d EXCEPT !.protocol = p, !.clients = getSettings(p, c), !.single = FALSE]

\* Flows of VLESS clients go when the stream can have none.
ClearFlows(d) ==
    IF d.protocol = "vless" /\ ~FlowOk(d) THEN [d EXCEPT !.clients = NoFlows(@)] ELSE d

\* Variant: a network without tls keeps the security chosen before.
streamNetworkChangeKeepsTls(d, n) == ClearFlows([d EXCEPT !.network = n])

\* Variant: only the security is looked at.
streamNetworkChangeKeepsFlow(d, n) ==
    LET moved == [d EXCEPT !.network = n]
    IN  IF canEnableTls(d.protocol, n) THEN moved ELSE [moved EXCEPT !.security = "none"]

\* The v-model sets the network, then streamNetworkChange runs.  Where reality is
\* impossible it sets inbound.reality, which nothing reads: the security stays.
streamNetworkChange(d, n) ==
    LET moved == [d EXCEPT !.network = n]
    IN  ClearFlows(IF canEnableTls(d.protocol, n) THEN moved ELSE [moved EXCEPT !.security = "none"])

\* The radio buttons of tls_settings.html, and the watcher of the security.
SetSecurity(d, sec) == ClearFlows([d EXCEPT !.security = sec])
MayChoose(d, sec) ==
    /\ canEnableTls(d.protocol, d.network)
    /\ sec = "reality" => canEnableReality(d.protocol, d.network)

\* A method for a single user drops the clients, any other needs one.
SSMethodChange(d, single, c) ==
    [d EXCEPT !.single = single,
              !.clients = IF single THEN Nobody ELSE IF Present(@) = {} THEN Only(c) ELSE @]

\* toJson: a protocol without a stream stores none, and is opened again with the
\* stream of new StreamSettings().
Stored(d) ==
    IF canEnableStream(d.protocol) THEN d
    ELSE [d EXCEPT !.network = "tcp", !.security = "none"]

-----------------------------------------------------------------------------
(* The page.                                                               *)

Refresh ==
    /\ cache # row
    /\ cache' = row
    /\ UNCHANGED <<row, dialog, histories, elsewhere>>

Open(d) ==
    /\ dialog = Closed
    /\ dialog' = d /\ fresh' = (cache = row)
    /\ UNCHANGED <<row, cache, emptied, mixed, elsewhere>>

openAddInbound == cache = New /\ \E c \in Client : Open([kind |-> "add", draft |-> newInbound(c)])
openEditInbound == Exists(cache) /\ Open([kind |-> "edit", draft |-> cache])
openAddClient ==
    /\ Exists(cache) /\ HasClients(cache.protocol) /\ ~cache.single
    /\ \E c \in Client \ Present(cache.clients) :
         Open([kind |-> "newClient", who |-> c, draft |-> [cache EXCEPT !.clients[c] = ""]])
openEditClient ==
    /\ Exists(cache)
    /\ \E c \in Present(cache.clients) : Open([kind |-> "editClient", who |-> c, draft |-> cache])

\* The confirmation of a reset keeps the page's row it was asked for.
openResetTraffic == Exists(cache) /\ Open([kind |-> "reset", draft |-> cache])

InboundForm == dialog.kind \in {"add", "edit"}
ClientForm == dialog.kind \in {"newClient", "editClient"}

Draft(d) ==
    /\ dialog' = [dialog EXCEPT !.draft = d]
    /\ UNCHANGED <<row, cache, fresh, mixed, elsewhere>>

chooseProtocol ==
    /\ dialog.kind = "add"
    /\ \E p \in Protocol, c \in Client : Draft(SetProtocol(dialog.draft, p, c))
    /\ UNCHANGED emptied
chooseNetwork ==
    /\ InboundForm /\ canEnableStream(dialog.draft.protocol)
    /\ \E n \in Network : Draft(streamNetworkChange(dialog.draft, n))
    /\ UNCHANGED emptied
chooseSecurity ==
    /\ InboundForm
    /\ \E sec \in Securities : MayChoose(dialog.draft, sec) /\ Draft(SetSecurity(dialog.draft, sec))
    /\ UNCHANGED emptied
chooseMethod ==
    /\ InboundForm /\ dialog.draft.protocol = "shadowsocks"
    /\ \E single \in BOOLEAN, c \in Client :
         /\ Draft(SSMethodChange(dialog.draft, single, c))
         /\ emptied' = (emptied \/ single)

\* form/client.html, for the first client of a new inbound or that of a client
\* dialog, offers flows where the draft can have them.
chooseFlow ==
    /\ dialog.kind \in {"add", "newClient", "editClient"} /\ FlowOk(dialog.draft)
    /\ \E c \in Present(dialog.draft.clients), flow \in {"", Vision} :
         /\ ClientForm => c = dialog.who
         /\ Draft([dialog.draft EXCEPT !.clients[c] = flow])
    /\ UNCHANGED emptied

cancel ==
    /\ dialog # Closed
    /\ dialog' = Closed /\ fresh' = TRUE /\ emptied' = FALSE
    /\ UNCHANGED <<row, cache, mixed, elsewhere>>

Post(r) ==
    /\ row' = r
    /\ dialog' = Closed /\ fresh' = TRUE /\ emptied' = FALSE
    /\ UNCHANGED elsewhere

\* addInbound, updateInbound: settings, stream and counters of the draft.
submitInbound ==
    /\ InboundForm
    /\ dialog.kind = "add" => row = New
    /\ dialog.kind = "edit" => Exists(row)
    /\ Post(Stored(dialog.draft)) /\ UNCHANGED <<cache, mixed>>

\* Variant: a client is saved by posting the settings it was taken from.
PostClientWhole(c) == [row EXCEPT !.clients = dialog.draft.clients]

\* addClient and updateClient post one client, whose flow the server does not
\* compare with the stream of its inbound.
PostClient(c) == [row EXCEPT !.clients[c] = dialog.draft.clients[c]]

SameStream(r, d) == r.protocol = d.protocol /\ r.network = d.network /\ r.security = d.security

submitClient ==
    /\ ClientForm /\ Exists(row)
    /\ IF dialog.kind = "newClient" THEN row.clients[dialog.who] = Absent
                                    ELSE row.clients[dialog.who] # Absent
    /\ Post(PostClient(dialog.who))
    /\ mixed' = (mixed \/ ~SameStream(row, dialog.draft))
    /\ UNCHANGED cache

\* switchEnable posts the page's copy of the row.
switchEnable ==
    /\ dialog = Closed /\ Exists(cache) /\ Exists(row)
    /\ row' = cache
    /\ UNCHANGED <<cache, dialog, histories, elsewhere>>

\* The server keeps the last client of an inbound.
delClient(c) ==
    /\ dialog = Closed /\ Exists(cache) /\ Exists(row)
    /\ cache.clients[c] # Absent /\ row.clients[c] # Absent
    /\ Present(row.clients) # {c}
    /\ row' = [row EXCEPT !.clients[c] = Absent]
    /\ UNCHANGED <<cache, dialog, histories, elsewhere>>

NoCount(r) == [r EXCEPT !.count = 0]

\* resetTraffic zeroes the counter in the page's row and posts all of that row,
\* as updateInbound does with a draft.  Unless it was refreshed while the user
\* confirmed, this is the row the page goes on with.
resetTraffic ==
    /\ dialog.kind = "reset" /\ Exists(row)
    /\ Post(Stored(NoCount(dialog.draft)))
    /\ cache' = IF cache = dialog.draft THEN NoCount(cache) ELSE cache
    /\ UNCHANGED mixed

\* A clone is another inbound, but the counter is zeroed in the page's row of
\* this one.
openCloneInbound ==
    /\ dialog = Closed /\ Exists(cache)
    /\ cache' = NoCount(cache)
    /\ UNCHANGED <<row, dialog, histories, elsewhere>>

delInbound ==
    /\ dialog = Closed /\ Exists(cache) /\ Exists(row)
    /\ row' = Gone
    /\ UNCHANGED <<cache, dialog, histories, elsewhere>>

-----------------------------------------------------------------------------
(* Meanwhile: the traffic job, and a second tab whose dialogs are opened,  *)
(* filled and posted on the present row.                                   *)

Changed(r) ==
    /\ row' = r /\ fresh' = (fresh /\ (dialog = Closed \/ r = row))
    /\ UNCHANGED <<cache, dialog, emptied, mixed>>

addTraffic ==
    /\ Exists(row) /\ row.count < MaxCount
    /\ Changed([row EXCEPT !.count = @ + 1])
    /\ UNCHANGED elsewhere

Elsewhere(r) == elsewhere < MaxElsewhere /\ elsewhere' = elsewhere + 1 /\ Changed(r)

networkElsewhere ==
    /\ Exists(row) /\ canEnableStream(row.protocol)
    /\ \E n \in Network : Elsewhere(Stored(streamNetworkChange(row, n)))
securityElsewhere ==
    /\ Exists(row)
    /\ \E sec \in Securities : MayChoose(row, sec) /\ Elsewhere(Stored(SetSecurity(row, sec)))
addClientElsewhere ==
    /\ Exists(row) /\ HasClients(row.protocol) /\ ~row.single
    /\ \E c \in Client \ Present(row.clients) : Elsewhere([row EXCEPT !.clients[c] = ""])
delClientElsewhere ==
    /\ Exists(row)
    /\ \E c \in Present(row.clients) :
         Present(row.clients) # {c} /\ Elsewhere([row EXCEPT !.clients[c] = Absent])

Next ==
    \/ Refresh \/ cancel
    \/ openAddInbound \/ openEditInbound \/ openAddClient \/ openEditClient
    \/ openResetTraffic \/ openCloneInbound
    \/ chooseProtocol \/ chooseNetwork \/ chooseSecurity \/ chooseMethod \/ chooseFlow
    \/ submitInbound \/ submitClient \/ switchEnable
    \/ \E c \in Client : delClient(c)
    \/ resetTraffic \/ delInbound
    \/ addTraffic
    \/ networkElsewhere \/ securityElsewhere \/ addClientElsewhere \/ delClientElsewhere

Spec == Init /\ [][Next]_vars

-----------------------------------------------------------------------------

\* Whatever the order of the choices in a form, and whoever posts last, no stored
\* inbound has tls on a transport that cannot have it: xray would refuse the whole
\* configuration (streamNetworkChange).
TlsAllowed ==
    Exists(row) /\ row.security = "tls" => canEnableTls(row.protocol, row.network)

\* A client has a flow only where the stream can have one, as long as no client
\* dialog was posted to an inbound whose stream had changed since.
FlowAllowed ==
    Exists(row) /\ ~mixed =>
        \A c \in Client : row.clients[c] = Vision => FlowOk(row)

\* What a user copies from an up-to-date page is read back, here or by the users
\* of an external proxy, as an outbound that speaks to the inbound, on every
\* transport its protocol and security allow and whatever is filled in about its
\* stream (genLink against Outbound.fromLink), except for three things: VMess loses
\* the mode of xhttp and the ECH list (outbound.js:928), Trojan and VLESS keep an
\* id that is not plain in percent-encoding, and a Shadowsocks link whose
\* password is not plain is refused (inbound.js:1592).
StreamOf(n, security, f) ==
    [network |-> n, security |-> security, t |-> f.t, tls |-> f.tls, reality |-> f.reality]

Allows(protocol, n, security) ==
    /\ canEnableStream(protocol)
    /\ security = "tls" => canEnableTls(protocol, n)
    /\ security = "reality" => canEnableReality(protocol, n)

LinksAgree ==
    dialog = Closed /\ cache = row /\ Exists(row) =>
        \A n \in Networks, f \in Form, forceTls \in {"same", "none", "tls"},
           c \in Client, plain \in BOOLEAN :
            /\ Allows(row.protocol, n, row.security) /\ row.clients[c] # Absent
            /\ plain \/ row.protocol # "shadowsocks"
            => Agrees(row.protocol, StreamOf(n, row.security, f), forceTls,
                      [id |-> c, plain |-> plain], row.clients[c])

\* Headers survive a save: all values of a name where it may repeat, else the
\* last one that was entered, and the same again however often the form is
\* opened and saved (toHeaders against toV2Headers).
Enter(values, h, name) ==
    IF h.name = name /\ h.value # "" THEN Append(values, h.value) ELSE values
Entered(list, name) == FoldLeft(LAMBDA values, h : Enter(values, h, name), <<>>, list)
StoredValues(stored, name) ==
    LET at == {i \in DOMAIN stored : stored[i].name = name}
    IN  IF at = {} THEN <<>> ELSE stored[CHOOSE i \in at : TRUE].values

HeadersSurvive ==
    /\ dialog = Closed /\ cache = row /\ Exists(row) /\ "headers" \in FieldsOf(row.network)
    => \A f \in Form :
         LET t == [f.t EXCEPT !.type = "http"]
             stored == StoredTransport(row.network, t)
             again == StoredTransport(row.network, OpenedTransport(stored))
         IN  /\ again = stored
             /\ \A i \in DOMAIN t.headers :
                  LET name == t.headers[i].name
                      all == Entered(t.headers, name)
                  IN  name # "" =>
                        StoredValues(stored.headers, name) =
                            IF row.network = "tcp" \/ all = <<>> THEN all ELSE <<Last(all)>>

LosesClient == \E c \in Client : row.clients[c] # Absent /\ row'.clients[c] = Absent
GoesBack == row'.count < row.count

\* The whole row is posted from a copy that is not what is stored: somebody has
\* changed the row since, or cloning has zeroed the copy.
PostsStale ==
    \/ dialog.kind \in {"edit", "reset"} /\ ~fresh
    \/ switchEnable /\ cache # row

\* A step that drops a client or winds a counter back was asked for, or posts a
\* copy of the row that differs from it (updateInbound and the server's
\* UpdateInbound compare nothing).
NothingLost ==
    [][ Exists(row) /\ Exists(row)' =>
          /\ LosesClient =>
               \/ \E c \in Client : delClient(c)
               \/ delClientElsewhere \/ emptied \/ PostsStale
          /\ GoesBack => dialog.kind = "reset" \/ PostsStale ]_vars
=============================================================================
