------------------------- MODULE InboundEditorProofs -------------------------
(***************************************************************************)
(* Theorems of InboundEditor for every set of clients, protocols, networks *)
(* and filled-in settings.  The lemmas first say what each choice in a     *)
(* form makes of a draft; a step then posts or copies a draft.  The last   *)
(* section is about lists of headers of any length.                        *)
(***************************************************************************)
EXTENDS InboundEditor, TLAPS, WellFoundedInduction

TlsNetwork(d) == d.security = "tls" => d.network # "kcp"
Tls4(r) == r.security = "tls" => canEnableTls(r.protocol, r.network)
FlowsFine(d) == \A c \in Client : d.clients[c] = Vision => FlowOk(d)

\* No draft is worse than tls on a transport that has it, over a protocol that
\* may have none; no row is worse than that the form stores.
TlsEverywhere ==
    /\ Exists(row) => Tls4(row)
    /\ Exists(cache) => Tls4(cache)
    /\ dialog # Closed => TlsNetwork(dialog.draft)

FlowEverywhere ==
    ~mixed =>
        /\ Exists(row) => FlowsFine(row)
        /\ Exists(cache) => FlowsFine(cache)
        /\ dialog # Closed => FlowsFine(dialog.draft)

-----------------------------------------------------------------------------
(* Values.                                                                 *)

LEMMA Distinct == Absent # "" /\ Absent # Vision /\ Vision # ""
BY DEF Absent, Vision

LEMMA SettingsTypes ==
    /\ Nobody \in Settings
    /\ \A c \in Client : Only(c) \in Settings /\ \A e \in Client : Only(c)[e] # Vision
    /\ \A e \in Client : Nobody[e] # Vision
    /\ \A s \in Settings : NoFlows(s) \in Settings /\ \A e \in Client : NoFlows(s)[e] # Vision
    /\ \A p \in Protocol, c \in Client :
         getSettings(p, c) \in Settings /\ \A e \in Client : getSettings(p, c)[e] # Vision
<1>1. Nobody \in Settings /\ \A e \in Client : Nobody[e] # Vision
  BY Distinct DEF Nobody, Settings
<1>2. \A c \in Client : Only(c) \in Settings /\ \A e \in Client : Only(c)[e] # Vision
  BY Distinct DEF Nobody, Settings, Only
<1>3. \A s \in Settings : NoFlows(s) \in Settings /\ \A e \in Client : NoFlows(s)[e] # Vision
  BY Distinct DEF Settings, NoFlows
<1> QED  BY <1>1, <1>2, <1>3 DEF getSettings

LEMMA ExistingRow ==
    ASSUME NEW r \in Inbound \cup {New, Gone}, Exists(r)
    PROVE  r \in Inbound
BY DEF Exists, New, Gone

LEMMA InboundExists ==
    ASSUME NEW r \in Inbound
    PROVE  Exists(r)
BY EditorAssumption DEF Exists, Inbound, Fields

LEMMA DraftInbound ==
    ASSUME NEW d \in Dialog \cup {Closed}, d # Closed
    PROVE  /\ d \in Dialog /\ d.draft \in Inbound
           /\ d.kind \in {"add", "edit", "reset", "newClient", "editClient"}
           /\ d.kind \in {"newClient", "editClient"} => d.who \in Client
           /\ \A e \in Inbound : [d EXCEPT !.draft = e] \in Dialog /\ [d EXCEPT !.draft = e].draft = e
BY DEF Dialog

LEMMA OpenDialog ==
    ASSUME NEW d \in Dialog \cup {Closed}, d.kind # "closed"
    PROVE  d # Closed
BY DEF Closed

LEMMA ClosedIsNoDialog == Closed \notin Dialog /\ Closed.kind = "closed"
BY DEF Closed, Dialog

LEMMA NewInbound ==
    ASSUME NEW c \in Client
    PROVE  /\ newInbound(c) \in Inbound
           /\ TlsNetwork(newInbound(c)) /\ FlowsFine(newInbound(c))
BY SettingsTypes, EditorAssumption
   DEF newInbound, Inbound, Fields, TlsNetwork, FlowsFine, Securities, Networks

LEMMA ClearedFlows ==
    ASSUME NEW d \in Inbound
    PROVE  /\ ClearFlows(d) \in Inbound
           /\ ClearFlows(d).protocol = d.protocol /\ ClearFlows(d).network = d.network
           /\ ClearFlows(d).security = d.security
           /\ d.protocol = "vless" => FlowsFine(ClearFlows(d))
           /\ d.protocol # "vless" => ClearFlows(d) = d
<1>1. [d EXCEPT !.clients = NoFlows(@)] \in Inbound
  BY SettingsTypes DEF Inbound, Fields
<1>2. \A e \in Client : [d EXCEPT !.clients = NoFlows(@)].clients[e] # Vision
  BY SettingsTypes DEF Inbound, Fields
<1> QED  BY <1>1, <1>2 DEF ClearFlows, FlowsFine, FlowOk, Inbound, Fields

LEMMA NetworkChosen ==
    ASSUME NEW d \in Inbound, NEW n \in Network, canEnableStream(d.protocol)
    PROVE  /\ streamNetworkChange(d, n) \in Inbound
           /\ TlsNetwork(streamNetworkChange(d, n))
           /\ streamNetworkChange(d, n).protocol = d.protocol
           /\ FlowsFine(d) => FlowsFine(streamNetworkChange(d, n))
<1> DEFINE moved == [d EXCEPT !.network = n]
           m == IF canEnableTls(d.protocol, n) THEN moved ELSE [moved EXCEPT !.security = "none"]
<1>1. m \in Inbound /\ m.protocol = d.protocol /\ m.clients = d.clients /\ m.network = n
      /\ TlsNetwork(m)
  BY DEF Inbound, Fields, Securities, TlsNetwork, canEnableTls
<1>2. streamNetworkChange(d, n) = ClearFlows(m)
  BY DEF streamNetworkChange
<1> HIDE DEF m
<1>3. FlowsFine(d) /\ d.protocol # "vless" => FlowsFine(m)
  BY <1>1 DEF FlowsFine, FlowOk, canEnableTlsFlow
<1> QED  BY <1>1, <1>2, <1>3, ClearedFlows DEF TlsNetwork

LEMMA SecurityChosen ==
    ASSUME NEW d \in Inbound, NEW sec \in Securities, MayChoose(d, sec)
    PROVE  /\ SetSecurity(d, sec) \in Inbound
           /\ TlsNetwork(SetSecurity(d, sec))
           /\ SetSecurity(d, sec).protocol = d.protocol
           /\ FlowsFine(d) => FlowsFine(SetSecurity(d, sec))
<1> DEFINE m == [d EXCEPT !.security = sec]
<1>1. m \in Inbound /\ m.protocol = d.protocol /\ m.clients = d.clients /\ m.network = d.network
      /\ TlsNetwork(m)
  BY DEF Inbound, Fields, TlsNetwork, MayChoose, canEnableTls
<1>2. SetSecurity(d, sec) = ClearFlows(m)
  BY DEF SetSecurity
<1> HIDE DEF m
<1>3. FlowsFine(d) /\ d.protocol # "vless" => FlowsFine(m)
  BY <1>1 DEF FlowsFine, FlowOk, canEnableTlsFlow
<1> QED  BY <1>1, <1>2, <1>3, ClearedFlows DEF TlsNetwork

LEMMA ProtocolChosen ==
    ASSUME NEW d \in Inbound, NEW p \in Protocol, NEW c \in Client
    PROVE  /\ SetProtocol(d, p, c) \in Inbound
           /\ TlsNetwork(d) => TlsNetwork(SetProtocol(d, p, c))
           /\ FlowsFine(SetProtocol(d, p, c))
BY SettingsTypes DEF SetProtocol, Inbound, Fields, TlsNetwork, FlowsFine

LEMMA MethodChosen ==
    ASSUME NEW d \in Inbound, d.protocol = "shadowsocks", NEW single \in BOOLEAN, NEW c \in Client
    PROVE  /\ SSMethodChange(d, single, c) \in Inbound
           /\ TlsNetwork(d) => TlsNetwork(SSMethodChange(d, single, c))
           /\ FlowsFine(d) => FlowsFine(SSMethodChange(d, single, c))
<1> DEFINE m == SSMethodChange(d, single, c)
<1>1. m \in Inbound /\ m.protocol = d.protocol /\ m.network = d.network /\ m.security = d.security
  BY SettingsTypes DEF SSMethodChange, Inbound, Fields
<1>2. m.clients \in {Nobody, Only(c), d.clients}
  BY DEF SSMethodChange, Inbound, Fields
<1> QED  BY <1>1, <1>2, SettingsTypes DEF TlsNetwork, FlowsFine, FlowOk

LEMMA FlowChosen ==
    ASSUME NEW d \in Inbound, FlowOk(d), NEW c \in Client, NEW flow \in {"", Vision}
    PROVE  /\ [d EXCEPT !.clients[c] = flow] \in Inbound
           /\ TlsNetwork(d) => TlsNetwork([d EXCEPT !.clients[c] = flow])
           /\ FlowsFine([d EXCEPT !.clients[c] = flow])
BY DEF Inbound, Fields, Settings, TlsNetwork, FlowsFine, FlowOk

LEMMA StoredInbound ==
    ASSUME NEW d \in Inbound, TlsNetwork(d)
    PROVE  /\ Stored(d) \in Inbound /\ Tls4(Stored(d))
           /\ FlowsFine(d) => FlowsFine(Stored(d))
<1>0. Network \subseteq Networks /\ "tcp" \in Network
  BY EditorAssumption
<1>1. CASE canEnableStream(d.protocol)
  <2>1. Stored(d) = d
    BY <1>1 DEF Stored
  <2>2. d.network \in Networks
    BY <1>0 DEF Inbound, Fields
  <2> QED  BY <1>1, <2>1, <2>2 DEF Tls4, TlsNetwork, canEnableTls, canEnableStream, Networks
<1>2. CASE ~canEnableStream(d.protocol)
  <2>1. Stored(d) = [d EXCEPT !.network = "tcp", !.security = "none"]
    BY <1>2 DEF Stored
  <2>2. Stored(d) \in Inbound /\ Stored(d).security = "none" /\ Stored(d).clients = d.clients
    BY <1>0, <2>1 DEF Inbound, Fields, Securities
  <2>3. FlowsFine(d) => \A c \in Client : d.clients[c] # Vision
    BY <1>2 DEF FlowsFine, FlowOk, canEnableTlsFlow, canEnableStream, Streamed
  <2> QED  BY <2>2, <2>3 DEF Tls4, FlowsFine
<1> QED  BY <1>1, <1>2

\* A row keeps its stream when one client of it changes.
LEMMA ClientOfRow ==
    ASSUME NEW r \in Inbound, NEW c \in Client, NEW flow \in {Absent, "", Vision}
    PROVE  /\ [r EXCEPT !.clients[c] = flow] \in Inbound
           /\ Tls4(r) => Tls4([r EXCEPT !.clients[c] = flow])
           /\ FlowsFine(r) /\ (flow = Vision => FlowOk(r)) =>
                FlowsFine([r EXCEPT !.clients[c] = flow])
BY DEF Inbound, Fields, Settings, Tls4, FlowsFine, FlowOk

LEMMA CountOfRow ==
    ASSUME NEW r \in Inbound, NEW n \in 0 .. MaxCount
    PROVE  /\ [r EXCEPT !.count = n] \in Inbound
           /\ Tls4(r) => Tls4([r EXCEPT !.count = n])
           /\ FlowsFine(r) => FlowsFine([r EXCEPT !.count = n])
BY DEF Inbound, Fields, Tls4, FlowsFine, FlowOk

\* A row and its dialog with the counter zeroed.
LEMMA Zeroed ==
    ASSUME NEW r \in Inbound
    PROVE  /\ NoCount(r) \in Inbound
           /\ Tls4(r) => Tls4(NoCount(r))
           /\ TlsNetwork(r) => TlsNetwork(NoCount(r))
           /\ FlowsFine(r) => FlowsFine(NoCount(r))
<1>1. NoCount(r) = [r EXCEPT !.count = 0] /\ 0 \in 0 .. MaxCount
  BY EditorAssumption DEF NoCount
<1>2. TlsNetwork(r) => TlsNetwork(NoCount(r))
  BY <1>1 DEF TlsNetwork, Inbound, Fields
<1> QED  BY <1>1, <1>2, CountOfRow

LEMMA RowStream ==
    ASSUME NEW r \in Inbound, Tls4(r)
    PROVE  TlsNetwork(r)
BY DEF Tls4, TlsNetwork, canEnableTls

-----------------------------------------------------------------------------
(* The invariant, and the three kinds of step.                             *)

IInv == TypeOK /\ TlsEverywhere /\ FlowEverywhere

LEMMA InitInv == Init => IInv
<1> SUFFICES ASSUME Init PROVE IInv
  OBVIOUS
<1>0. 0 \in 0 .. MaxElsewhere
  BY EditorAssumption
<1>1. TypeOK
  BY <1>0 DEF Init, TypeOK
<1>2. ~Exists(row) /\ ~Exists(cache)
  BY DEF Init, Exists, New
<1> QED  BY <1>1, <1>2 DEF Init, IInv, TlsEverywhere, FlowEverywhere

\* A choice in the open dialog.
LEMMA DraftStep ==
    ASSUME IInv, dialog # Closed, NEW e \in Inbound, Draft(e),
           TlsNetwork(e), ~mixed => FlowsFine(e), emptied' \in BOOLEAN
    PROVE  IInv'
<1>1. dialog' \in Dialog /\ dialog'.draft = e
  BY DraftInbound DEF IInv, TypeOK, Draft
<1>2. TypeOK'
  BY <1>1 DEF IInv, TypeOK, Draft
<1>3. TlsEverywhere'
  BY <1>1 DEF IInv, TlsEverywhere, Draft, TlsNetwork, Tls4
<1>4. FlowEverywhere'
  BY <1>1 DEF IInv, FlowEverywhere, Draft, FlowsFine
<1> QED  BY <1>2, <1>3, <1>4 DEF IInv

\* A dialog opens on a draft.
LEMMA OpenStep ==
    ASSUME IInv, NEW d \in Dialog, Open(d), TlsNetwork(d.draft), ~mixed => FlowsFine(d.draft)
    PROVE  IInv'
<1>1. TypeOK'
  BY DEF IInv, TypeOK, Open
<1>2. TlsEverywhere'
  BY DEF IInv, TlsEverywhere, Open, TlsNetwork, Tls4
<1>3. FlowEverywhere'
  BY DEF IInv, FlowEverywhere, Open, FlowsFine
<1> QED  BY <1>1, <1>2, <1>3 DEF IInv

\* The row changes, and the dialog may be closed and the page's counter zeroed
\* with it.
LEMMA RowStep ==
    ASSUME IInv, row' \in Inbound \cup {New, Gone},
           cache' = cache \/ (Exists(cache) /\ cache' = NoCount(cache)), dialog' \in {dialog, Closed},
           fresh' \in BOOLEAN, emptied' \in BOOLEAN, mixed' \in BOOLEAN, mixed => mixed',
           elsewhere' \in 0 .. MaxElsewhere,
           Exists(row') => Tls4(row'),
           ~mixed' /\ Exists(row') => FlowsFine(row')
    PROVE  IInv'
<1>0. /\ cache' \in Inbound \cup {New, Gone}
      /\ Exists(cache') => Tls4(cache')
      /\ ~mixed /\ Exists(cache') => FlowsFine(cache')
  <2>1. Exists(cache) => cache \in Inbound /\ Tls4(cache) /\ (~mixed => FlowsFine(cache))
    BY ExistingRow DEF IInv, TypeOK, TlsEverywhere, FlowEverywhere
  <2>2. cache \in Inbound \cup {New, Gone}
    BY DEF IInv, TypeOK
  <2> QED  BY <2>1, <2>2, Zeroed
<1>1. TypeOK'
  BY <1>0 DEF IInv, TypeOK
<1>2. TlsEverywhere'
  BY <1>0 DEF IInv, TlsEverywhere, TlsNetwork, Tls4
<1>3. FlowEverywhere'
  BY <1>0 DEF IInv, FlowEverywhere, FlowsFine
<1> QED  BY <1>1, <1>2, <1>3 DEF IInv

-----------------------------------------------------------------------------
(* The dialogs.                                                            *)

LEMMA Opens ==
    ASSUME IInv, openAddInbound \/ openEditInbound \/ openAddClient \/ openEditClient \/ openResetTraffic
    PROVE  IInv'
<1>1. CASE openAddInbound
  <2>1. PICK c \in Client : Open([kind |-> "add", draft |-> newInbound(c)])
    BY <1>1 DEF openAddInbound
  <2> QED  BY <2>1, NewInbound, OpenStep DEF Dialog
<1>2. ASSUME Exists(cache)
      PROVE  cache \in Inbound /\ TlsNetwork(cache) /\ (~mixed => FlowsFine(cache))
  BY <1>2, ExistingRow, RowStream DEF IInv, TypeOK, TlsEverywhere, FlowEverywhere
<1>3. CASE openEditInbound
  BY <1>2, <1>3, OpenStep DEF openEditInbound, Dialog
<1>4. CASE openAddClient
  <2>1. PICK c \in Client :
          Open([kind |-> "newClient", who |-> c, draft |-> [cache EXCEPT !.clients[c] = ""]])
    BY <1>4 DEF openAddClient
  <2>2. Exists(cache)
    BY <1>4 DEF openAddClient
  <2> DEFINE e == [cache EXCEPT !.clients[c] = ""]
  <2>3. e \in Inbound /\ (~mixed => FlowsFine(e))
    BY <1>2, <2>2, Distinct, ClientOfRow
  <2>4. TlsNetwork(e)
    BY <1>2, <2>2 DEF Inbound, Fields, TlsNetwork
  <2> QED  BY <2>1, <2>3, <2>4, <1>2, <2>2, ClientOfRow, OpenStep DEF Dialog
<1>5. CASE openEditClient
  <2>1. PICK c \in Client : Open([kind |-> "editClient", who |-> c, draft |-> cache])
    BY <1>5 DEF openEditClient, Present
  <2> QED  BY <1>2, <1>5, <2>1, OpenStep DEF openEditClient, Dialog
<1>6. CASE openResetTraffic
  BY <1>2, <1>6, OpenStep DEF openResetTraffic, Dialog
<1> QED  BY <1>1, <1>3, <1>4, <1>5, <1>6

\* What the invariant says of the draft of an open dialog.
LEMMA OpenDraft ==
    ASSUME IInv, dialog.kind # "closed"
    PROVE  /\ dialog # Closed /\ dialog.draft \in Inbound
           /\ TlsNetwork(dialog.draft) /\ (~mixed => FlowsFine(dialog.draft))
BY OpenDialog, DraftInbound DEF IInv, TypeOK, TlsEverywhere, FlowEverywhere

LEMMA Chooses ==
    ASSUME IInv, chooseProtocol \/ chooseNetwork \/ chooseSecurity \/ chooseMethod \/ chooseFlow
    PROVE  IInv'
<1>0. /\ dialog # Closed /\ dialog.draft \in Inbound
      /\ TlsNetwork(dialog.draft) /\ (~mixed => FlowsFine(dialog.draft))
  BY OpenDraft
     DEF chooseProtocol, chooseNetwork, chooseSecurity, chooseMethod, chooseFlow, InboundForm
<1>1. emptied \in BOOLEAN
  BY DEF IInv, TypeOK
<1>2. CASE chooseProtocol
  <2>1. PICK p \in Protocol, c \in Client : Draft(SetProtocol(dialog.draft, p, c))
    BY <1>2 DEF chooseProtocol
  <2>2. emptied' \in BOOLEAN
    BY <1>1, <1>2 DEF chooseProtocol
  <2> QED  BY <1>0, <2>1, <2>2, ProtocolChosen, DraftStep
<1>3. CASE chooseNetwork
  <2>1. PICK n \in Network : Draft(streamNetworkChange(dialog.draft, n))
    BY <1>3 DEF chooseNetwork
  <2>2. emptied' \in BOOLEAN /\ canEnableStream(dialog.draft.protocol)
    BY <1>1, <1>3 DEF chooseNetwork
  <2> QED  BY <1>0, <2>1, <2>2, NetworkChosen, DraftStep
<1>4. CASE chooseSecurity
  <2>1. PICK sec \in Securities :
          MayChoose(dialog.draft, sec) /\ Draft(SetSecurity(dialog.draft, sec))
    BY <1>4 DEF chooseSecurity
  <2>2. emptied' \in BOOLEAN
    BY <1>1, <1>4 DEF chooseSecurity
  <2> QED  BY <1>0, <2>1, <2>2, SecurityChosen, DraftStep
<1>5. CASE chooseMethod
  <2>1. PICK single \in BOOLEAN, c \in Client :
          Draft(SSMethodChange(dialog.draft, single, c)) /\ emptied' = (emptied \/ single)
    BY <1>5 DEF chooseMethod
  <2>2. emptied' \in BOOLEAN /\ dialog.draft.protocol = "shadowsocks"
    BY <1>1, <1>5, <2>1 DEF chooseMethod
  <2> QED  BY <1>0, <2>1, <2>2, MethodChosen, DraftStep
<1>6. CASE chooseFlow
  <2>1. PICK c \in Client, flow \in {"", Vision} :
          Draft([dialog.draft EXCEPT !.clients[c] = flow])
    BY <1>6 DEF chooseFlow, Present
  <2>2. emptied' \in BOOLEAN /\ FlowOk(dialog.draft)
    BY <1>1, <1>6 DEF chooseFlow
  <2> QED  BY <1>0, <2>1, <2>2, FlowChosen, DraftStep
<1> QED  BY <1>2, <1>3, <1>4, <1>5, <1>6

-----------------------------------------------------------------------------
(* The row.                                                                *)

\* What the invariant says of a row or a copy that exists.
LEMMA StoredRow ==
    ASSUME IInv, NEW r \in {row, cache}, Exists(r)
    PROVE  r \in Inbound /\ Tls4(r) /\ TlsNetwork(r) /\ (~mixed => FlowsFine(r))
BY ExistingRow, RowStream DEF IInv, TypeOK, TlsEverywhere, FlowEverywhere

LEMMA Posts ==
    ASSUME IInv, submitInbound \/ submitClient \/ resetTraffic
    PROVE  IInv'
<1>0. /\ dialog # Closed /\ dialog.draft \in Inbound
      /\ TlsNetwork(dialog.draft) /\ (~mixed => FlowsFine(dialog.draft))
  BY OpenDraft DEF submitInbound, submitClient, resetTraffic, InboundForm, ClientForm
<1>1. elsewhere \in 0 .. MaxElsewhere /\ mixed \in BOOLEAN
  BY DEF IInv, TypeOK
<1>2. CASE submitInbound
  <2>1. row' = Stored(dialog.draft)
    BY <1>2 DEF submitInbound, Post
  <2>2. /\ cache' = cache /\ dialog' = Closed /\ fresh' = TRUE /\ emptied' = FALSE
        /\ mixed' = mixed /\ elsewhere' = elsewhere
    BY <1>2 DEF submitInbound, Post
  <2> QED  BY <1>0, <1>1, <2>1, <2>2, StoredInbound, RowStep
<1>3. CASE submitClient
  <2>1. row' = PostClient(dialog.who)
    BY <1>3 DEF submitClient, Post
  <2>2. /\ cache' = cache /\ dialog' = Closed /\ fresh' = TRUE /\ emptied' = FALSE
        /\ mixed' = (mixed \/ ~SameStream(row, dialog.draft)) /\ elsewhere' = elsewhere
    BY <1>3 DEF submitClient, Post
  <2>3. row \in Inbound /\ Tls4(row) /\ (~mixed => FlowsFine(row))
    BY <1>3, StoredRow DEF submitClient
  <2>4. dialog.who \in Client
    BY <1>0, <1>3, DraftInbound DEF submitClient, ClientForm, IInv, TypeOK
  <2> DEFINE flow == dialog.draft.clients[dialog.who]
  <2>5. flow \in {Absent, "", Vision}
    BY <1>0, <2>4 DEF Inbound, Fields, Settings
  <2>6. ~mixed' => (flow = Vision => FlowOk(row))
    BY <1>0, <2>2, <2>4 DEF FlowsFine, FlowOk, SameStream
  <2>7. row' = [row EXCEPT !.clients[dialog.who] = flow]
    BY <2>1 DEF PostClient
  <2>8. /\ row' \in Inbound /\ Tls4(row')
        /\ FlowsFine(row) /\ (flow = Vision => FlowOk(row)) => FlowsFine(row')
    <3> HIDE DEF flow
    <3> QED  BY <2>3, <2>4, <2>5, <2>7, ClientOfRow
  <2>9. ~mixed' => FlowsFine(row')
    BY <2>2, <2>3, <2>6, <2>8
  <2> QED  BY <1>1, <2>2, <2>8, <2>9, RowStep
<1>4. CASE resetTraffic
  <2> DEFINE zeroed == NoCount(dialog.draft)
  <2>1. /\ row' = Stored(zeroed) /\ (cache' = cache \/ (cache = dialog.draft /\ cache' = NoCount(cache)))
        /\ dialog' = Closed /\ fresh' = TRUE /\ emptied' = FALSE
        /\ mixed' = mixed /\ elsewhere' = elsewhere
    BY <1>4 DEF resetTraffic, Post
  <2>2. zeroed \in Inbound /\ TlsNetwork(zeroed) /\ (~mixed => FlowsFine(zeroed))
    BY <1>0, Zeroed
  <2>3. cache = dialog.draft => Exists(cache)
    BY <1>0, EditorAssumption, InboundExists
  <2> HIDE DEF zeroed
  <2> QED  BY <1>1, <2>1, <2>2, <2>3, StoredInbound, RowStep
<1> QED  BY <1>2, <1>3, <1>4

LEMMA Commands ==
    ASSUME IInv,
           switchEnable \/ (\E c \in Client : delClient(c)) \/ openCloneInbound \/ delInbound
    PROVE  IInv'
<1>0. /\ openCloneInbound \/ cache' = cache
      /\ dialog' = dialog /\ histories' = histories
      /\ elsewhere' = elsewhere /\ Exists(cache) /\ (openCloneInbound \/ Exists(row))
  BY DEF switchEnable, delClient, openCloneInbound, delInbound
<1>1. /\ fresh' \in BOOLEAN /\ emptied' \in BOOLEAN /\ mixed' \in BOOLEAN /\ mixed' = mixed
      /\ elsewhere' \in 0 .. MaxElsewhere
  BY <1>0 DEF IInv, TypeOK, histories
<1>2. CASE switchEnable
  BY <1>0, <1>1, <1>2, StoredRow, RowStep DEF switchEnable
<1>3. CASE \E c \in Client : delClient(c)
  <2>1. PICK c \in Client : row' = [row EXCEPT !.clients[c] = Absent] /\ cache' = cache /\ Exists(row)
    BY <1>3 DEF delClient
  <2> QED  BY <1>0, <1>1, <2>1, StoredRow, ClientOfRow, Distinct, RowStep
<1>4. CASE openCloneInbound
  <2>1. row' = row /\ cache' = NoCount(cache)
    BY <1>4 DEF openCloneInbound
  <2>2. row \in Inbound \cup {New, Gone} /\ (Exists(row) => Tls4(row) /\ (~mixed => FlowsFine(row)))
    BY DEF IInv, TypeOK, TlsEverywhere, FlowEverywhere
  <2> QED  BY <1>0, <1>1, <2>1, <2>2, RowStep
<1>5. CASE delInbound
  <2>1. row' = Gone /\ cache' = cache /\ ~Exists(row')
    BY <1>5 DEF delInbound, Exists, Gone
  <2> QED  BY <1>0, <1>1, <2>1, RowStep
<1> QED  BY <1>2, <1>3, <1>4, <1>5

\* Somebody else's change of a row that exists.
LEMMA ChangedStep ==
    ASSUME IInv, NEW r \in Inbound, Changed(r), Tls4(r), ~mixed => FlowsFine(r),
           elsewhere' \in 0 .. MaxElsewhere
    PROVE  IInv'
<1>1. /\ row' = r /\ cache' = cache /\ dialog' = dialog /\ mixed' = mixed
      /\ fresh' \in BOOLEAN /\ emptied' \in BOOLEAN /\ mixed' \in BOOLEAN
  BY DEF Changed, IInv, TypeOK
<1> QED  BY <1>1, RowStep

LEMMA Meanwhile ==
    ASSUME IInv,
           \/ addTraffic \/ networkElsewhere \/ securityElsewhere
           \/ addClientElsewhere \/ delClientElsewhere
    PROVE  IInv'
<1>0. row \in Inbound /\ Tls4(row) /\ TlsNetwork(row) /\ (~mixed => FlowsFine(row))
  BY StoredRow
     DEF addTraffic, networkElsewhere, securityElsewhere, addClientElsewhere, delClientElsewhere
<1>1. ASSUME NEW r, Elsewhere(r)
      PROVE  Changed(r) /\ elsewhere' \in 0 .. MaxElsewhere
  BY <1>1, EditorAssumption DEF Elsewhere, IInv, TypeOK
<1>2. CASE addTraffic
  <2>1. elsewhere' \in 0 .. MaxElsewhere
    BY <1>2 DEF addTraffic, IInv, TypeOK
  <2>2. row.count + 1 \in 0 .. MaxCount
    BY <1>0, <1>2, EditorAssumption DEF addTraffic, Inbound, Fields
  <2>3. Changed([row EXCEPT !.count = row.count + 1])
    BY <1>2 DEF addTraffic
  <2> QED  BY <1>0, <2>1, <2>2, <2>3, CountOfRow, ChangedStep
<1>3. CASE networkElsewhere
  <2>1. PICK n \in Network : Elsewhere(Stored(streamNetworkChange(row, n)))
    BY <1>3 DEF networkElsewhere
  <2>2. canEnableStream(row.protocol)
    BY <1>3 DEF networkElsewhere
  <2> QED  BY <1>0, <1>1, <2>1, <2>2, NetworkChosen, StoredInbound, ChangedStep
<1>4. CASE securityElsewhere
  <2>1. PICK sec \in Securities : MayChoose(row, sec) /\ Elsewhere(Stored(SetSecurity(row, sec)))
    BY <1>4 DEF securityElsewhere
  <2> QED  BY <1>0, <1>1, <2>1, SecurityChosen, StoredInbound, ChangedStep
<1>5. CASE addClientElsewhere
  <2>1. PICK c \in Client : Elsewhere([row EXCEPT !.clients[c] = ""])
    BY <1>5 DEF addClientElsewhere
  <2> QED  BY <1>0, <1>1, <2>1, ClientOfRow, Distinct, ChangedStep
<1>6. CASE delClientElsewhere
  <2>1. PICK c \in Client : Elsewhere([row EXCEPT !.clients[c] = Absent])
    BY <1>6 DEF delClientElsewhere, Present
  <2> QED  BY <1>0, <1>1, <2>1, ClientOfRow, Distinct, ChangedStep
<1> QED  BY <1>2, <1>3, <1>4, <1>5, <1>6

-----------------------------------------------------------------------------

LEMMA NextInv == IInv /\ [Next]_vars => IInv'
<1> SUFFICES ASSUME IInv, [Next]_vars PROVE IInv'
  OBVIOUS
<1>1. CASE Refresh
  BY <1>1 DEF Refresh, histories, IInv, TypeOK, TlsEverywhere, FlowEverywhere, TlsNetwork, Tls4, FlowsFine
<1>2. CASE cancel
  BY <1>2 DEF cancel, IInv, TypeOK, TlsEverywhere, FlowEverywhere, Tls4, FlowsFine
<1>3. CASE openAddInbound \/ openEditInbound \/ openAddClient \/ openEditClient \/ openResetTraffic
  BY <1>3, Opens
<1>4. CASE chooseProtocol \/ chooseNetwork \/ chooseSecurity \/ chooseMethod \/ chooseFlow
  BY <1>4, Chooses
<1>5. CASE submitInbound \/ submitClient \/ resetTraffic
  BY <1>5, Posts
<1>6. CASE switchEnable \/ (\E c \in Client : delClient(c)) \/ openCloneInbound \/ delInbound
  BY <1>6, Commands
<1>7. CASE \/ addTraffic \/ networkElsewhere \/ securityElsewhere
           \/ addClientElsewhere \/ delClientElsewhere
  BY <1>7, Meanwhile
<1>8. CASE UNCHANGED vars
  BY <1>8 DEF vars, histories, IInv, TypeOK, TlsEverywhere, FlowEverywhere, TlsNetwork, Tls4, FlowsFine
<1> QED  BY <1>1, <1>2, <1>3, <1>4, <1>5, <1>6, <1>7, <1>8 DEF Next

LEMMA Invariant == Spec => []IInv
BY InitInv, NextInv, PTL DEF Spec

\* The variables keep their types; only Shadowsocks has a method for one user.
THEOREM Types == Spec => []TypeOK
<1>1. IInv => TypeOK
  BY DEF IInv
<1> QED  BY <1>1, Invariant, PTL

\* No order of choices in a form, and no overlap of two tabs, stores tls on a
\* transport that cannot have it.
THEOREM TlsStaysAllowed == Spec => []TlsAllowed
<1>1. IInv => TlsAllowed
  BY DEF IInv, TlsEverywhere, Tls4, TlsAllowed
<1> QED  BY <1>1, Invariant, PTL

\* Nor a flow on a stream that cannot have one, but for a client that was posted
\* to an inbound whose stream had changed since its dialog was opened.
THEOREM FlowsStayAllowed == Spec => []FlowAllowed
<1>1. IInv => FlowAllowed
  BY DEF IInv, FlowEverywhere, FlowsFine, FlowAllowed
<1> QED  BY <1>1, Invariant, PTL

-----------------------------------------------------------------------------
(* Links.  What is read back is what was written, parameter by parameter;  *)
(* a text that can be filled in is never mistaken for one that was left    *)
(* out.                                                                    *)

LEMMA LeastIndex ==
    ASSUME NEW S \in SUBSET Nat, S # {}
    PROVE  \E i \in S : \A j \in S : i <= j
<1>1. PICK i \in S : \A j \in S : ~(<<j, i>> \in OpToRel(<, Nat))
  BY NatLessThanWellFounded, WFMin
<1>2. \A j \in S : ~(j < i)
  BY <1>1 DEF OpToRel
<1> QED  BY <1>2

LEMMA Elements ==
    ASSUME NEW S, NEW list \in Seq(S)
    PROVE  DOMAIN list \in SUBSET Nat /\ \A i \in DOMAIN list : list[i] \in S
OBVIOUS

LEMMA HeaderText ==
    ASSUME NEW list \in Seq([name: Text, value: Text]), NEW name
    PROVE  getHeader(list, name) \in Text
<1> DEFINE at == {i \in DOMAIN list : list[i].name = name}
           first == CHOOSE i \in at : \A j \in at : i <= j
<1>1. getHeader(list, name) = IF at = {} THEN "" ELSE list[first].value
  BY DEF getHeader
<1>2. "" \in Text
  BY FormAssumption
<1>3. DOMAIN list \in SUBSET Nat /\ \A i \in DOMAIN list : list[i].value \in Text
  <2>1. DOMAIN list \in SUBSET Nat /\ \A i \in DOMAIN list : list[i] \in [name: Text, value: Text]
    BY Elements
  <2> QED  BY <2>1
<1>4. at \subseteq DOMAIN list
  OBVIOUS
<1> HIDE DEF at
<1>5. at # {} => first \in at
  BY <1>3, <1>4, LeastIndex
<1> HIDE DEF first
<1> QED  BY <1>1, <1>2, <1>3, <1>4, <1>5

LEMMA HostText ==
    ASSUME NEW n, NEW sec, NEW f \in Form
    PROVE  host(StreamOf(n, sec, f)) \in Text
<1>1. f.t.host \in Text /\ f.t.headers \in Seq([name: Text, value: Text])
  BY FormAssumption DEF Transport
<1> QED  BY <1>1, HeaderText DEF host, StreamOf

LEMMA HeadText ==
    ASSUME NEW list \in Seq(Text), list # <<>>
    PROVE  Head(list) \in Text
OBVIOUS

\* The parameters of VLESS, Trojan and Shadowsocks.
LEMMA ParamLinkAgrees ==
    ASSUME NEW protocol \in {"vless", "trojan", "shadowsocks"}, NEW n \in Networks,
           NEW security \in Securities, Allows(protocol, n, security), NEW f \in Form,
           NEW forceTls \in {"same", "none", "tls"}, NEW who \in [id: Client, plain: BOOLEAN],
           who.plain \/ protocol # "shadowsocks", NEW flow \in {"", Vision}
    PROVE  Agrees(protocol, StreamOf(n, security, f), forceTls, who, flow)
<1> DEFINE s == StreamOf(n, security, f)
           sec == LinkSecurity(s, forceTls)
           given == IF protocol = "vless" THEN FlowParam(s, sec, flow) ELSE Absent
           link == ParamLink(protocol, s, sec, who, given)
           out == fromParamLink(link)
<1>1. /\ s.network = n /\ s.security = security
      /\ s.t = f.t /\ s.tls = f.tls /\ s.reality = f.reality
  BY DEF StreamOf
<1>2. /\ f.t \in Transport /\ f.tls \in Tls /\ f.reality \in Reality
      /\ "" \in Text /\ Absent \notin Text
  BY FormAssumption
<1>3. host(s) \in Text
  BY HostText
<1>4. sec \in Securities /\ (sec = "reality" => security = "reality")
  BY <1>1 DEF LinkSecurity, Securities
<1>5. protocol = "shadowsocks" => sec # "reality"
  BY <1>4 DEF Allows, canEnableReality
<1> HIDE DEF s
<1>6. /\ link.scheme = protocol /\ link.who = who /\ link.t = TransportParams(s)
      /\ link.security = sec /\ link.flow = given
      /\ link.tls = TlsParams(s, sec) /\ link.reality = RealityParams(s, sec)
  BY DEF ParamLink
<1>7. given = IF protocol = "vless" THEN FlowParam(s, sec, flow) ELSE Absent
  OBVIOUS
<1>8. genLink(protocol, s, forceTls, who, flow) = link /\ fromLink(link) = out
  <2>1. CASE protocol = "vless"
    BY <2>1, <1>6 DEF genLink, genVLESSLink, fromLink, Refused
  <2>2. CASE protocol = "trojan"
    BY <2>2, <1>6 DEF genLink, genTrojanLink, fromLink, Refused
  <2>3. CASE protocol = "shadowsocks"
    <3>1. (IF sec = "tls" THEN "tls" ELSE "none") = sec
      BY <1>4, <1>5, <2>3 DEF Securities
    <3> QED  BY <2>3, <3>1, <1>6 DEF genLink, genSSLink, fromLink, Refused
  <2> QED  BY <2>1, <2>2, <2>3
<1> HIDE DEF link, sec, given
<1>20. /\ out.protocol = link.scheme /\ out.network = link.t.type
       /\ out.who = userData(link.who) /\ out.security = link.security
  BY DEF fromParamLink
<1>21. /\ out.t.type = Given(link.t.headerType, "none")
       /\ out.t.path = Given(link.t.path, IF link.t.type = "tcp" THEN "" ELSE "/")
       /\ out.t.host = Given(link.t.host, "")
       /\ out.t.serviceName = Given(link.t.serviceName, "")
       /\ out.t.authority = Given(link.t.authority, "") /\ out.t.mode = Given(link.t.mode, "")
  BY DEF fromParamLink, OutTransport
<1>25. out.t.multiMode = Multi(link.t)
  BY Zenon DEF fromParamLink, OutTransport
<1>22. link.security = "tls" =>
          /\ out.tls.sni = Given(link.tls.sni, "") /\ out.tls.alpn = link.tls.alpn
          /\ out.tls.fp = Given(link.tls.fp, "none") /\ out.tls.ech = Given(link.tls.ech, "")
  BY DEF fromParamLink
<1>23. link.security = "reality" =>
          out.reality = [x \in DOMAIN NoOutReality |-> Given(link.reality[x], "")]
  BY DEF fromParamLink
<1>24. out.flow = Given(link.flow, "")
  BY DEF fromParamLink
<1> HIDE DEF out
<1>9. /\ out.protocol = protocol /\ out.network = n /\ out.security = sec
      /\ out.who = who \/ ~who.plain
  <2>1. TransportParams(s).type = n
    BY <1>1 DEF TransportParams
  <2> QED  BY <1>6, <1>20, <2>1 DEF userData
<1>10. \A field \in MustAgree(n, f.t.type = "http") : out.t[field] = Expected(protocol, s, field)
  <2> DEFINE p == TransportParams(s)
  <2>2. /\ p.type = n
        /\ p.headerType = SetIf(n = "tcp" /\ f.t.type = "http", "http")
        /\ p.path = SetIf((n = "tcp" /\ f.t.type = "http") \/ n \in {"ws", "httpupgrade", "xhttp"}, f.t.path)
        /\ p.host = SetIf(n \in {"ws", "httpupgrade", "xhttp"}
                          \/ (n = "tcp" /\ f.t.type = "http" /\ host(s) # ""), host(s))
        /\ p.serviceName = SetIf(n = "grpc", f.t.serviceName)
        /\ p.authority = SetIf(n = "grpc", f.t.authority)
        /\ p.mode = IF n = "xhttp" THEN f.t.mode ELSE SetIf(n = "grpc" /\ f.t.multiMode, "multi")
    BY <1>1 DEF TransportParams
  <2> HIDE DEF p
  <2>8. /\ out.t.type = Given(p.headerType, "none") /\ out.t.path = Given(p.path, IF p.type = "tcp" THEN "" ELSE "/")
        /\ out.t.host = Given(p.host, "") /\ out.t.serviceName = Given(p.serviceName, "")
        /\ out.t.authority = Given(p.authority, "") /\ out.t.mode = Given(p.mode, "")
        /\ out.t.multiMode = Multi(p)
    BY <1>6, <1>21, <1>25 DEF p
  <2>3. /\ f.t.type \in {"none", "http"} /\ f.t.multiMode \in BOOLEAN
        /\ \A field \in {"path", "mode", "serviceName", "authority"} :
             f.t[field] # Absent
    BY <1>2 DEF Transport
  <2>4. CASE n = "tcp"
    <3>1. out.t.type = f.t.type
      BY <2>2, <2>3, <2>4, <2>8 DEF Given, SetIf, Absent
    <3>2. f.t.type = "http" => out.t.path = f.t.path /\ out.t.host = host(s)
      BY <1>2, <1>3, <2>2, <2>3, <2>4, <2>8 DEF Given, SetIf
    <3> QED  BY <1>1, <2>4, <3>1, <3>2 DEF MustAgree, Served, Expected, Survives
  <2>5. CASE n \in {"ws", "httpupgrade", "xhttp"}
    <3>1. out.t.path = f.t.path /\ out.t.host = host(s)
      BY <1>2, <1>3, <2>2, <2>3, <2>5, <2>8 DEF Given, SetIf
    <3>2. n = "xhttp" => out.t.mode = f.t.mode
      BY <2>2, <2>3, <2>8 DEF Given
    <3> QED  BY <1>1, <2>5, <3>1, <3>2 DEF MustAgree, Served, Expected, Survives
  <2>6. CASE n = "grpc"
    <3>1. out.t.serviceName = f.t.serviceName /\ out.t.authority = f.t.authority
      BY <2>2, <2>3, <2>6, <2>8 DEF Given, SetIf
    <3>2. out.t.multiMode = f.t.multiMode
      BY <2>2, <2>3, <2>6, <2>8 DEF Multi, SetIf, Absent
    <3> QED  BY <1>1, <2>6, <3>1, <3>2 DEF MustAgree, Served, Expected, Survives
  <2>7. CASE n = "kcp"
    BY <2>7 DEF MustAgree
  <2> QED  BY <2>4, <2>5, <2>6, <2>7 DEF Networks
<1>11. ASSUME sec = "tls", security = "tls"
       PROVE  /\ out.tls.sni = f.tls.sni /\ out.tls.alpn = f.tls.alpn /\ out.tls.fp = f.tls.fp
              /\ out.tls.ech = f.tls.ech
  <2>1. /\ f.tls.sni # Absent /\ f.tls.fp # Absent /\ f.tls.ech # Absent
    BY <1>2 DEF Tls
  <2>2. LET p == TlsParams(s, sec)
        IN  /\ p.fp = f.tls.fp /\ p.alpn = f.tls.alpn
            /\ p.sni = SetIf(f.tls.sni # "", f.tls.sni)
            /\ p.ech = SetIf(f.tls.ech # "", f.tls.ech)
    BY <1>1, <1>11 DEF TlsParams
  <2>3. /\ link.tls.fp = f.tls.fp /\ link.tls.alpn = f.tls.alpn
        /\ link.tls.sni = SetIf(f.tls.sni # "", f.tls.sni)
        /\ link.tls.ech = SetIf(f.tls.ech # "", f.tls.ech)
    BY <1>6, <2>2
  <2>4. /\ out.tls.sni = Given(link.tls.sni, "") /\ out.tls.alpn = link.tls.alpn
        /\ out.tls.fp = Given(link.tls.fp, "none") /\ out.tls.ech = Given(link.tls.ech, "")
    BY <1>6, <1>11, <1>22
  <2> QED  BY <2>1, <2>3, <2>4 DEF Given, SetIf
<1>12. ASSUME sec = "reality"
       PROVE  /\ out.reality.pbk = f.reality.pbk /\ out.reality.fp = f.reality.fp
              /\ out.reality.sni = First(f.reality.names) /\ out.reality.sid = First(f.reality.ids)
              /\ out.reality.spx = f.reality.spx /\ out.reality.pqv = f.reality.pqv
  <2> DEFINE r == f.reality
  <2>1. /\ r.pbk # Absent /\ r.fp # Absent /\ r.spx # Absent /\ r.pqv # Absent
        /\ r.names \in Seq(Text) /\ r.ids \in Seq(Text)
    BY <1>2 DEF Reality
  <2>2. \A list \in Seq(Text) : list # <<>> => Head(list) # Absent
    BY <1>2, HeadText
  <2>3. LET p == RealityParams(s, sec)
        IN  /\ p.pbk = r.pbk /\ p.fp = r.fp
            /\ p.sni = SetIf(r.names # <<>>, Head(r.names))
            /\ p.sid = SetIf(r.ids # <<>>, Head(r.ids))
            /\ p.spx = SetIf(r.spx # "", r.spx) /\ p.pqv = SetIf(r.pqv # "", r.pqv)
    BY <1>1, <1>12 DEF RealityParams
  <2>4. out.reality = [x \in DOMAIN NoOutReality |-> Given(RealityParams(s, sec)[x], "")]
    BY <1>6, <1>12, <1>23
  <2>5. DOMAIN NoOutReality = {"pbk", "fp", "sni", "sid", "spx", "pqv"}
    BY DEF NoOutReality
  <2> HIDE DEF r
  <2>6. \A x \in {"pbk", "fp", "sni", "sid", "spx", "pqv"} :
          out.reality[x] = Given(RealityParams(s, sec)[x], "")
    BY <2>4, <2>5
  <2>7. /\ out.reality.pbk = Given(r.pbk, "") /\ out.reality.fp = Given(r.fp, "")
        /\ out.reality.sni = Given(SetIf(r.names # <<>>, Head(r.names)), "")
        /\ out.reality.sid = Given(SetIf(r.ids # <<>>, Head(r.ids)), "")
        /\ out.reality.spx = Given(SetIf(r.spx # "", r.spx), "")
        /\ out.reality.pqv = Given(SetIf(r.pqv # "", r.pqv), "")
    BY <2>3, <2>6
  <2> QED  BY <2>1, <2>2, <2>7 DEF Given, SetIf, First, r
<1>13. out.flow = IF canEnableTlsFlow(protocol, n, sec) /\ sec = security THEN flow ELSE ""
  <2>2. FlowParam(s, sec, flow) =
          SetIf(/\ flow # "" /\ n = "tcp"
                /\ sec = "reality" \/ (sec = "tls" /\ security = "tls"), flow)
    BY <1>1 DEF FlowParam
  <2> QED  BY <1>4, <1>6, <1>7, <1>24, <2>2, Distinct DEF Given, SetIf, canEnableTlsFlow, Securities
<1>14. LinkSecurity(s, forceTls) = sec
  BY DEF sec
<1> QED  BY <1>1, <1>8, <1>9, <1>10, <1>11, <1>12, <1>13, <1>14 DEF Agrees, Survives, out, s

\* The one JSON object of VMess.
LEMMA VmessLinkAgrees ==
    ASSUME NEW n \in Networks, NEW security \in Securities, security # "reality", NEW f \in Form,
           NEW forceTls \in {"same", "none", "tls"}, NEW who,
           NEW flow \in {"", Vision}
    PROVE  Agrees("vmess", StreamOf(n, security, f), forceTls, who, flow)
<1> DEFINE s == StreamOf(n, security, f)
           sec == LinkSecurity(s, forceTls)
           link == genVmessLink(s, forceTls, who)
           out == fromVmessLink(link)
<1>1. /\ s.network = n /\ s.security = security
      /\ s.t = f.t /\ s.tls = f.tls /\ s.reality = f.reality
  BY DEF StreamOf
<1>2. /\ f.t \in Transport /\ f.tls \in Tls /\ "" \in Text /\ Absent \notin Text
  BY FormAssumption
<1>3. host(s) \in Text
  BY HostText
<1>4. sec \in {"none", "tls"}
  BY <1>1 DEF LinkSecurity, Securities
<1> HIDE DEF s
<1>5. /\ link.scheme = "vmess" /\ link.who = who /\ link.net = n /\ link.tls = sec
  BY <1>1 DEF genVmessLink
<1>6. link.type = CASE n = "tcp" -> f.t.type
                    [] n = "grpc" -> SetIf(f.t.multiMode, "multi")
                    [] n = "xhttp" -> f.t.mode
                    [] OTHER -> Absent
  BY <1>1 DEF genVmessLink
<1>7. link.path = IF n = "grpc" THEN f.t.serviceName
                  ELSE SetIf((n = "tcp" /\ f.t.type = "http") \/ n \in {"ws", "httpupgrade", "xhttp"},
                             f.t.path)
  BY <1>1 DEF genVmessLink
<1>8. /\ link.host = SetIf(n \in {"ws", "httpupgrade", "xhttp"}
                           \/ (n = "tcp" /\ f.t.type = "http" /\ host(s) # ""), host(s))
      /\ link.authority = SetIf(n = "grpc", f.t.authority)
  BY <1>1 DEF genVmessLink
<1>9. /\ link.sni = SetIf(sec = "tls" /\ f.tls.sni # "", f.tls.sni)
      /\ link.fp = SetIf(sec = "tls" /\ f.tls.fp # "", f.tls.fp)
      /\ sec = "tls" => link.alpn = f.tls.alpn
  BY <1>1 DEF genVmessLink
<1>10. genLink("vmess", s, forceTls, who, flow) = link /\ fromLink(link) = out
  BY <1>5 DEF genLink, fromLink
<1> HIDE DEF sec, link
<1>11. /\ out.protocol = "vmess" /\ out.network = link.net /\ out.security = link.tls
       /\ out.who = link.who /\ out.flow = ""
  BY DEF fromVmessLink
<1>12. /\ out.t.type = IF link.net = "tcp" THEN link.type ELSE "none"
       /\ out.t.path = Given(IF link.net = "grpc" THEN "/" ELSE link.path,
                              IF link.net = "tcp" THEN "" ELSE "/")
       /\ out.t.host = Given(link.host, "")
       /\ out.t.serviceName = Given(IF link.net = "grpc" THEN link.path ELSE Absent, "")
       /\ out.t.authority = Given(link.authority, "") /\ out.t.mode = ""
  BY DEF fromVmessLink, OutTransport, Given
<1>13. out.t.multiMode = (link.net = "grpc" /\ link.type = "multi")
  BY Zenon DEF fromVmessLink, OutTransport
<1>14. link.tls = "tls" =>
         /\ out.tls.sni = Given(link.sni, "") /\ out.tls.alpn = link.alpn
         /\ out.tls.fp = Given(link.fp, "") /\ out.tls.ech = ""
  BY DEF fromVmessLink
<1> HIDE DEF out
<1>15. \A field \in MustAgree(n, f.t.type = "http") : out.t[field] = Expected("vmess", s, field)
  <2>1. /\ f.t.type \in {"none", "http"} /\ f.t.multiMode \in BOOLEAN
        /\ \A field \in {"path", "mode", "serviceName", "authority"} : f.t[field] # Absent
    BY <1>2 DEF Transport
  <2>2. CASE n = "tcp"
    <3>1. out.t.type = f.t.type
      BY <1>5, <1>6, <1>12, <2>2
    <3>2. f.t.type = "http" => out.t.path = f.t.path /\ out.t.host = host(s)
      BY <1>2, <1>3, <1>5, <1>7, <1>8, <1>12, <2>1, <2>2 DEF Given, SetIf
    <3> QED  BY <1>1, <2>2, <3>1, <3>2 DEF MustAgree, Served, Expected, Survives
  <2>3. CASE n \in {"ws", "httpupgrade", "xhttp"}
    <3>1. out.t.path = f.t.path /\ out.t.host = host(s)
      BY <1>2, <1>3, <1>5, <1>7, <1>8, <1>12, <2>1, <2>3 DEF Given, SetIf
    <3> QED  BY <1>1, <1>12, <2>3, <3>1 DEF MustAgree, Served, Expected, Survives
  <2>4. CASE n = "grpc"
    <3>1. out.t.serviceName = f.t.serviceName /\ out.t.authority = f.t.authority
      BY <1>5, <1>7, <1>8, <1>12, <2>1, <2>4 DEF Given, SetIf
    <3>2. out.t.multiMode = f.t.multiMode
      BY <1>5, <1>6, <1>13, <2>1, <2>4 DEF SetIf, Absent
    <3> QED  BY <1>1, <2>4, <3>1, <3>2 DEF MustAgree, Served, Expected, Survives
  <2>5. CASE n = "kcp"
    BY <2>5 DEF MustAgree
  <2> QED  BY <2>2, <2>3, <2>4, <2>5 DEF Networks
<1>16. ASSUME sec = "tls"
       PROVE  /\ out.tls.sni = f.tls.sni /\ out.tls.alpn = f.tls.alpn /\ out.tls.fp = f.tls.fp
              /\ out.tls.ech = ""
  <2>1. f.tls.sni # Absent /\ f.tls.fp # Absent
    BY <1>2 DEF Tls
  <2> QED  BY <1>5, <1>9, <1>14, <1>16, <2>1 DEF Given, SetIf
<1>17. LinkSecurity(s, forceTls) = sec
  BY DEF sec
<1>18. Agrees("vmess", s, forceTls, who, flow)
  <2>1. fromLink(genLink("vmess", s, forceTls, who, flow)) = out
    BY <1>10
  <2>2. ~canEnableTlsFlow("vmess", s.network, sec)
    BY DEF canEnableTlsFlow
  <2>3. /\ out.protocol = "vmess" /\ out.network = n /\ out.security = sec
        /\ out.who = who /\ out.flow = ""
    BY <1>5, <1>11
  <2> QED  BY <1>1, <1>4, <1>15, <1>16, <1>17, <2>1, <2>2, <2>3 DEF Agrees, Survives
<1> QED  BY <1>18 DEF s

\* A copied link is read back as an outbound that agrees with the inbound, for
\* every text that can be filled in about its stream and whatever the user part,
\* but for what the link drops: the mode of xhttp and the ECH list in VMess, and
\* an id or password that is not plain in the others, where a Shadowsocks link
\* with one is not read at all.
THEOREM LinksRoundTrip == Spec => []LinksAgree
<1>1. IInv => LinksAgree
  <2> SUFFICES ASSUME IInv, Exists(row),
                      NEW n \in Networks, NEW f \in Form, NEW forceTls \in {"same", "none", "tls"},
                      NEW c \in Client, NEW plain \in BOOLEAN, Allows(row.protocol, n, row.security),
                      row.clients[c] # Absent, plain \/ row.protocol # "shadowsocks"
               PROVE  Agrees(row.protocol, StreamOf(n, row.security, f), forceTls,
                             [id |-> c, plain |-> plain], row.clients[c])
    BY DEF LinksAgree
  <2>1. row \in Inbound
    BY StoredRow
  <2>2. row.security \in Securities /\ row.clients[c] \in {"", Vision}
    BY <2>1 DEF Inbound, Fields, Settings
  <2>3. CASE row.protocol = "vmess"
    <3>1. row.security # "reality"
      BY <2>3 DEF Allows, canEnableReality
    <3> QED  BY <2>2, <2>3, <3>1, VmessLinkAgrees
  <2>4. CASE row.protocol \in {"vless", "trojan", "shadowsocks"}
    BY <2>2, <2>4, ParamLinkAgrees
  <2> QED  BY <2>3, <2>4 DEF Allows, canEnableStream, Streamed
<1> QED  BY <1>1, Invariant, PTL

-----------------------------------------------------------------------------
(* Nothing is lost.  A draft that was filled from the row as it is keeps   *)
(* its clients and its counter through every choice of the form.           *)

Keeps(d, e) == e.count = d.count /\ \A c \in Client : d.clients[c] # Absent => e.clients[c] # Absent

DraftKeeps ==
    /\ dialog.kind = "edit" /\ fresh /\ ~emptied /\ Exists(row) => Keeps(row, dialog.draft)
    /\ dialog.kind = "edit" /\ fresh /\ Exists(row) => dialog.draft.count = row.count
    /\ dialog.kind = "reset" /\ fresh => dialog.draft = row
    /\ ClientForm => dialog.draft.clients[dialog.who] # Absent

LEMMA KeepsOnKeeping ==
    ASSUME NEW d, NEW e, NEW f, Keeps(d, e), Keeps(e, f)
    PROVE  Keeps(d, f)
BY DEF Keeps

LEMMA ClearingKeeps ==
    ASSUME NEW d \in Inbound
    PROVE  Keeps(d, ClearFlows(d))
BY Distinct DEF ClearFlows, NoFlows, Keeps, Inbound, Fields, Settings

LEMMA NetworkKeeps ==
    ASSUME NEW d \in Inbound, NEW n \in Network
    PROVE  Keeps(d, streamNetworkChange(d, n))
<1> DEFINE moved == [d EXCEPT !.network = n]
           m == IF canEnableTls(d.protocol, n) THEN moved ELSE [moved EXCEPT !.security = "none"]
<1>1. m \in Inbound /\ m.clients = d.clients /\ m.count = d.count
  BY DEF Inbound, Fields, Securities
<1>2. streamNetworkChange(d, n) = ClearFlows(m)
  BY DEF streamNetworkChange
<1> HIDE DEF m
<1> QED  BY <1>1, <1>2, ClearingKeeps DEF Keeps

LEMMA SecurityKeeps ==
    ASSUME NEW d \in Inbound, NEW sec \in Securities
    PROVE  Keeps(d, SetSecurity(d, sec))
<1> DEFINE m == [d EXCEPT !.security = sec]
<1>1. m \in Inbound /\ m.clients = d.clients /\ m.count = d.count
  BY DEF Inbound, Fields
<1>2. SetSecurity(d, sec) = ClearFlows(m)
  BY DEF SetSecurity
<1> HIDE DEF m
<1> QED  BY <1>1, <1>2, ClearingKeeps DEF Keeps

LEMMA MethodKeeps ==
    ASSUME NEW d \in Inbound, NEW c \in Client
    PROVE  /\ Keeps(d, SSMethodChange(d, FALSE, c))
           /\ SSMethodChange(d, TRUE, c).count = d.count
BY DEF SSMethodChange, Present, Keeps, Inbound, Fields

LEMMA StoringKeeps ==
    ASSUME NEW d \in Inbound
    PROVE  Keeps(d, Stored(d))
BY DEF Stored, Keeps, Inbound, Fields

LEMMA KeepsInit == Init => DraftKeeps
BY ClosedIsNoDialog DEF Init, DraftKeeps, ClientForm

LEMMA KeepsOpens ==
    ASSUME IInv, openAddInbound \/ openEditInbound \/ openAddClient \/ openEditClient \/ openResetTraffic
    PROVE  DraftKeeps'
<1>1. CASE openAddInbound
  BY <1>1 DEF openAddInbound, Open, DraftKeeps, ClientForm
<1>2. CASE openEditInbound
  BY <1>2 DEF openEditInbound, Open, DraftKeeps, ClientForm, Keeps
<1>3. CASE openAddClient
  <2>1. PICK c \in Client :
          Open([kind |-> "newClient", who |-> c, draft |-> [cache EXCEPT !.clients[c] = ""]])
    BY <1>3 DEF openAddClient
  <2>2. cache \in Inbound
    BY <1>3, StoredRow DEF openAddClient
  <2>3. [cache EXCEPT !.clients[c] = ""].clients[c] # Absent
    BY <2>2, Distinct DEF Inbound, Fields, Settings
  <2> QED  BY <2>1, <2>3 DEF Open, DraftKeeps, ClientForm
<1>4. CASE openEditClient
  <2>1. PICK c \in Present(cache.clients) :
          Open([kind |-> "editClient", who |-> c, draft |-> cache])
    BY <1>4 DEF openEditClient
  <2> QED  BY <2>1 DEF Open, DraftKeeps, ClientForm, Present
<1>5. CASE openResetTraffic
  BY <1>5 DEF openResetTraffic, Open, DraftKeeps, ClientForm
<1> QED  BY <1>1, <1>2, <1>3, <1>4, <1>5

\* A choice in the dialog of a whole inbound.
LEMMA KeepsDraft ==
    ASSUME IInv, DraftKeeps, InboundForm, NEW e \in Inbound, Draft(e),
           dialog.kind = "edit" => e.count = dialog.draft.count,
           emptied' \/ (~emptied /\ (dialog.kind = "edit" => Keeps(dialog.draft, e)))
    PROVE  DraftKeeps'
<1>1. dialog # Closed
  BY OpenDialog DEF IInv, TypeOK, InboundForm
<1>2. dialog'.kind = dialog.kind /\ dialog'.draft = e
  BY <1>1, DraftInbound DEF Draft, IInv, TypeOK, Dialog
<1>3. row' = row /\ fresh' = fresh
  BY DEF Draft
<1> QED  BY <1>2, <1>3, KeepsOnKeeping DEF DraftKeeps, InboundForm, ClientForm, Keeps

LEMMA KeepsChoices ==
    ASSUME IInv, DraftKeeps,
           chooseProtocol \/ chooseNetwork \/ chooseSecurity \/ chooseMethod \/ chooseFlow
    PROVE  DraftKeeps'
<1>0. /\ dialog # Closed /\ dialog.draft \in Inbound /\ emptied \in BOOLEAN
      /\ TlsNetwork(dialog.draft)
  BY OpenDraft
     DEF chooseProtocol, chooseNetwork, chooseSecurity, chooseMethod, chooseFlow, InboundForm,
         IInv, TypeOK
<1>1. CASE chooseProtocol
  <2>1. PICK p \in Protocol, c \in Client : Draft(SetProtocol(dialog.draft, p, c))
    BY <1>1 DEF chooseProtocol
  <2>2. emptied' = emptied /\ dialog.kind = "add" /\ InboundForm
    BY <1>1 DEF chooseProtocol, InboundForm
  <2> QED  BY <1>0, <2>1, <2>2, ProtocolChosen, KeepsDraft
<1>2. CASE chooseNetwork
  <2>1. PICK n \in Network : Draft(streamNetworkChange(dialog.draft, n))
    BY <1>2 DEF chooseNetwork
  <2>2. emptied' = emptied /\ canEnableStream(dialog.draft.protocol) /\ InboundForm
    BY <1>2 DEF chooseNetwork
  <2> QED  BY <1>0, <2>1, <2>2, NetworkChosen, NetworkKeeps, KeepsDraft DEF Keeps
<1>3. CASE chooseSecurity
  <2>1. PICK sec \in Securities :
          MayChoose(dialog.draft, sec) /\ Draft(SetSecurity(dialog.draft, sec))
    BY <1>3 DEF chooseSecurity
  <2>2. emptied' = emptied /\ InboundForm
    BY <1>3 DEF chooseSecurity
  <2> QED  BY <1>0, <2>1, <2>2, SecurityChosen, SecurityKeeps, KeepsDraft DEF Keeps
<1>4. CASE chooseMethod
  <2>1. PICK single \in BOOLEAN, c \in Client :
          Draft(SSMethodChange(dialog.draft, single, c)) /\ emptied' = (emptied \/ single)
    BY <1>4 DEF chooseMethod
  <2>2. dialog.draft.protocol = "shadowsocks" /\ InboundForm
    BY <1>4 DEF chooseMethod
  <2>3. /\ ~emptied' => ~emptied /\ Keeps(dialog.draft, SSMethodChange(dialog.draft, single, c))
        /\ SSMethodChange(dialog.draft, single, c).count = dialog.draft.count
    BY <1>0, <2>1, MethodKeeps DEF Keeps
  <2> QED  BY <1>0, <2>1, <2>2, <2>3, MethodChosen, KeepsDraft
<1>5. CASE chooseFlow
  <2>1. PICK c \in Client, flow \in {"", Vision} :
          Draft([dialog.draft EXCEPT !.clients[c] = flow])
    BY <1>5 DEF chooseFlow, Present
  <2> DEFINE e == [dialog.draft EXCEPT !.clients[c] = flow]
  <2>2. dialog.kind \in {"add", "newClient", "editClient"} /\ FlowOk(dialog.draft)
    BY <1>5 DEF chooseFlow
  <2>3. e \in Inbound /\ Keeps(dialog.draft, e)
    BY <1>0, <2>2, FlowChosen, Distinct DEF Keeps, Inbound, Fields, Settings
  <2>4. /\ dialog'.kind = dialog.kind /\ dialog'.draft = e
        /\ ClientForm => dialog'.who = dialog.who /\ dialog.who \in Client
    <3> HIDE DEF e
    <3> QED  BY <1>0, <2>1, <2>3, DraftInbound DEF e, Draft, IInv, TypeOK, Dialog, ClientForm
  <2> HIDE DEF e
  <2> QED  BY <2>2, <2>3, <2>4 DEF DraftKeeps, ClientForm, Keeps
<1> QED  BY <1>1, <1>2, <1>3, <1>4, <1>5

\* The open dialog stays as it is, and the row changes only under a stale one.
LEMMA KeepsRow ==
    ASSUME DraftKeeps, dialog' = dialog, emptied' = emptied,
           fresh' => fresh /\ (dialog = Closed \/ row' = row)
    PROVE  DraftKeeps'
<1>1. CASE dialog = Closed
  BY <1>1, ClosedIsNoDialog DEF DraftKeeps, ClientForm
<1>2. CASE ~fresh'
  BY <1>2 DEF DraftKeeps, ClientForm
<1>3. CASE fresh /\ row' = row
  BY <1>3 DEF DraftKeeps, ClientForm, Keeps
<1> QED  BY <1>1, <1>2, <1>3

LEMMA KeepsNext == IInv /\ DraftKeeps /\ [Next]_vars => DraftKeeps'
<1> SUFFICES ASSUME IInv, DraftKeeps, [Next]_vars PROVE DraftKeeps'
  OBVIOUS
<1>1. CASE Refresh \/ UNCHANGED vars
  BY <1>1, KeepsRow DEF Refresh, vars, histories
<1>2. CASE cancel \/ submitInbound \/ submitClient \/ resetTraffic
  <2>1. dialog' = Closed
    BY <1>2 DEF cancel, submitInbound, submitClient, resetTraffic, Post
  <2> QED  BY <2>1, ClosedIsNoDialog DEF DraftKeeps, ClientForm
<1>3. CASE openAddInbound \/ openEditInbound \/ openAddClient \/ openEditClient \/ openResetTraffic
  BY <1>3, KeepsOpens
<1>4. CASE chooseProtocol \/ chooseNetwork \/ chooseSecurity \/ chooseMethod \/ chooseFlow
  BY <1>4, KeepsChoices
<1>5. CASE switchEnable \/ (\E c \in Client : delClient(c)) \/ openCloneInbound \/ delInbound
  <2>1. dialog = Closed /\ dialog' = dialog /\ emptied' = emptied /\ fresh' = fresh
    BY <1>5 DEF switchEnable, delClient, openCloneInbound, delInbound, histories
  <2> QED  BY <2>1, KeepsRow
<1>6. CASE \/ addTraffic \/ networkElsewhere \/ securityElsewhere
           \/ addClientElsewhere \/ delClientElsewhere
  <2>1. \E r : Changed(r)
    BY <1>6 DEF addTraffic, networkElsewhere, securityElsewhere, addClientElsewhere,
                delClientElsewhere, Elsewhere
  <2>2. PICK r : Changed(r)
    BY <2>1
  <2>3. /\ row' = r /\ dialog' = dialog /\ emptied' = emptied
        /\ fresh' => fresh /\ (dialog = Closed \/ r = row)
    BY <2>2 DEF Changed
  <2> QED  BY <2>3, KeepsRow
<1> QED  BY <1>1, <1>2, <1>3, <1>4, <1>5, <1>6 DEF Next

\* A row that keeps what it had has lost nothing.
Loses == LosesClient \/ GoesBack

LEMMA KeptRow ==
    ASSUME row \in Inbound, Keeps(row, row')
    PROVE  ~Loses
<1>1. row.count \in Nat
  BY EditorAssumption DEF Inbound, Fields
<1> QED  BY <1>1 DEF Keeps, Loses, LosesClient, GoesBack

LEMMA SubmitLoses ==
    ASSUME IInv, DraftKeeps, submitInbound, Exists(row), Loses
    PROVE  dialog.kind = "edit" /\ (~fresh \/ (emptied /\ ~GoesBack))
<1>1. InboundForm /\ row' = Stored(dialog.draft)
  BY DEF submitInbound, Post
<1>2. dialog.kind = "edit"
  BY <1>1 DEF submitInbound, InboundForm, Exists, New
<1>3. row \in Inbound /\ dialog.draft \in Inbound
  BY <1>2, StoredRow, OpenDraft
<1>4. ASSUME fresh, ~emptied PROVE FALSE
  <2>1. Keeps(row, dialog.draft)
    BY <1>2, <1>4 DEF DraftKeeps
  <2>2. Keeps(row, row')
    BY <1>1, <1>3, <2>1, StoringKeeps, KeepsOnKeeping
  <2> QED  BY <1>3, <2>2, KeptRow
<1>5. fresh => ~GoesBack
  <2>1. row'.count = dialog.draft.count /\ row.count \in Nat
    BY <1>1, <1>3, StoringKeeps, EditorAssumption DEF Keeps, Inbound, Fields
  <2> QED  BY <1>2, <2>1 DEF DraftKeeps, GoesBack
<1> QED  BY <1>2, <1>4, <1>5 DEF IInv, TypeOK

\* A reset from an up-to-date copy takes the counter and nothing else.
LEMMA ResetLoses ==
    ASSUME IInv, DraftKeeps, resetTraffic, LosesClient
    PROVE  dialog.kind = "reset" /\ ~fresh
<1>1. dialog.kind = "reset" /\ Exists(row) /\ row' = Stored(NoCount(dialog.draft))
  BY DEF resetTraffic, Post
<1>2. row \in Inbound /\ NoCount(row) \in Inbound /\ NoCount(row).clients = row.clients
  BY <1>1, StoredRow, Zeroed DEF NoCount, Inbound, Fields
<1>3. ASSUME fresh PROVE FALSE
  <2>1. dialog.draft = row
    BY <1>1, <1>3 DEF DraftKeeps
  <2>2. \A c \in Client : row.clients[c] # Absent => row'.clients[c] # Absent
    BY <1>1, <1>2, <2>1, StoringKeeps DEF Keeps
  <2> QED  BY <2>2 DEF LosesClient
<1> QED  BY <1>1, <1>3 DEF IInv, TypeOK

LEMMA ClientLosesNone ==
    ASSUME IInv, DraftKeeps, submitClient
    PROVE  ~Loses
<1>1. ClientForm /\ Exists(row) /\ row' = PostClient(dialog.who)
  BY DEF submitClient, Post
<1>2. row \in Inbound
  BY <1>1, StoredRow
<1>3. dialog.draft.clients[dialog.who] # Absent
  BY <1>1 DEF DraftKeeps
<1>4. Keeps(row, row')
  BY <1>1, <1>2, <1>3 DEF PostClient, Keeps, Inbound, Fields, Settings
<1> QED  BY <1>2, <1>4, KeptRow

LEMMA MeanwhileLosesNone ==
    ASSUME IInv, addTraffic \/ networkElsewhere \/ securityElsewhere \/ addClientElsewhere
    PROVE  ~Loses
<1>0. row \in Inbound
  BY StoredRow DEF addTraffic, networkElsewhere, securityElsewhere, addClientElsewhere
<1>1. CASE addTraffic
  <2>1. row' = [row EXCEPT !.count = @ + 1]
    BY <1>1 DEF addTraffic, Changed
  <2>2. row'.count = row.count + 1 /\ row'.clients = row.clients /\ row.count \in Nat
    BY <1>0, <2>1, EditorAssumption DEF Inbound, Fields
  <2> QED  BY <2>2 DEF Loses, LosesClient, GoesBack
<1>2. CASE networkElsewhere
  <2>1. PICK n \in Network : row' = Stored(streamNetworkChange(row, n))
    BY <1>2 DEF networkElsewhere, Elsewhere, Changed
  <2>2. streamNetworkChange(row, n) \in Inbound
    BY <1>0, <1>2, NetworkChosen DEF networkElsewhere
  <2>3. Keeps(row, row')
    BY <1>0, <2>1, <2>2, NetworkKeeps, StoringKeeps, KeepsOnKeeping
  <2> QED  BY <1>0, <2>3, KeptRow
<1>3. CASE securityElsewhere
  <2>1. PICK sec \in Securities : MayChoose(row, sec) /\ row' = Stored(SetSecurity(row, sec))
    BY <1>3 DEF securityElsewhere, Elsewhere, Changed
  <2>2. SetSecurity(row, sec) \in Inbound
    BY <1>0, <2>1, SecurityChosen
  <2>3. Keeps(row, row')
    BY <1>0, <2>1, <2>2, SecurityKeeps, StoringKeeps, KeepsOnKeeping
  <2> QED  BY <1>0, <2>3, KeptRow
<1>4. CASE addClientElsewhere
  <2>1. PICK c \in Client : row' = [row EXCEPT !.clients[c] = ""]
    BY <1>4 DEF addClientElsewhere, Elsewhere, Changed
  <2>2. Keeps(row, row')
    BY <1>0, <2>1, Distinct DEF Keeps, Inbound, Fields, Settings
  <2> QED  BY <1>0, <2>2, KeptRow
<1> QED  BY <1>1, <1>2, <1>3, <1>4

\* Deleting a client takes that client, and no traffic.
LEMMA DeletingKeepsCount ==
    ASSUME IInv, (\E c \in Client : delClient(c)) \/ delClientElsewhere
    PROVE  ~GoesBack
<1>1. PICK c \in Client : row' = [row EXCEPT !.clients[c] = Absent]
  BY DEF delClient, delClientElsewhere, Present, Elsewhere, Changed
<1>2. row \in Inbound
  BY StoredRow DEF delClient, delClientElsewhere
<1>3. row'.count = row.count /\ row.count \in Nat
  BY <1>1, <1>2, EditorAssumption DEF Inbound, Fields
<1> QED  BY <1>3 DEF GoesBack

\* Whatever the page and the other tab do, and in whatever order, a client is lost
\* only to a deletion of a client, to the choice of a method for a single user,
\* or to a post of a whole row from a copy that was out of date, be it to edit the
\* row, to switch it or to reset its traffic; a counter goes back only when it is
\* reset or by such a post.
THEOREM OnlyStaleCopiesLose == Spec => NothingLost
<1>1. ASSUME IInv, DraftKeeps, [Next]_vars, Exists(row), Exists(row)', Loses
      PROVE  /\ LosesClient =>
                  \/ \E c \in Client : delClient(c)
                  \/ delClientElsewhere \/ emptied \/ PostsStale
             /\ GoesBack => dialog.kind = "reset" \/ PostsStale
  <2>1. row \in Inbound /\ row' # row
    <3>1. row \in Inbound
      BY <1>1, StoredRow
    <3> QED  BY <1>1, <3>1, KeptRow DEF Keeps
  <2>2. CASE submitInbound
    BY <1>1, <2>2, SubmitLoses DEF PostsStale
  <2>3. CASE submitClient
    BY <1>1, <2>3, ClientLosesNone
  <2>4. CASE addTraffic \/ networkElsewhere \/ securityElsewhere \/ addClientElsewhere
    BY <1>1, <2>4, MeanwhileLosesNone
  <2>5. CASE switchEnable
    BY <2>1, <2>5 DEF switchEnable, PostsStale
  <2>6. CASE delInbound
    BY <1>1, <2>6 DEF delInbound, Exists, Gone
  <2>7. CASE \/ Refresh \/ cancel \/ openCloneInbound \/ UNCHANGED vars
             \/ openAddInbound \/ openEditInbound \/ openAddClient \/ openEditClient \/ openResetTraffic
             \/ chooseProtocol \/ chooseNetwork \/ chooseSecurity \/ chooseMethod \/ chooseFlow
    <3>1. row' = row
      BY <2>7 DEF Refresh, cancel, vars, openAddInbound, openEditInbound, openAddClient, openCloneInbound,
                  openEditClient, openResetTraffic, Open, chooseProtocol, chooseNetwork, chooseSecurity,
                  chooseMethod, chooseFlow, Draft
    <3> QED  BY <2>1, <3>1
  <2>8. CASE resetTraffic
    <3>1. dialog.kind = "reset"
      BY <2>8 DEF resetTraffic
    <3> QED  BY <1>1, <2>8, <3>1, ResetLoses DEF PostsStale
  <2>9. CASE (\E c \in Client : delClient(c)) \/ delClientElsewhere
    BY <1>1, <2>9, DeletingKeepsCount
  <2> QED  BY <1>1, <2>2, <2>3, <2>4, <2>5, <2>6, <2>7, <2>8, <2>9 DEF Next
<1>2. Spec => []DraftKeeps
  BY KeepsInit, KeepsNext, Invariant, PTL DEF Spec
<1>3. IInv /\ DraftKeeps /\ [Next]_vars =>
        [ Exists(row) /\ Exists(row)' =>
            /\ LosesClient =>
                 \/ \E c \in Client : delClient(c)
                 \/ delClientElsewhere \/ emptied \/ PostsStale
            /\ GoesBack => dialog.kind = "reset" \/ PostsStale ]_vars
  BY <1>1 DEF Loses
<1> QED  BY <1>2, <1>3, Invariant, PTL DEF Spec, NothingLost

-----------------------------------------------------------------------------
(* Headers.  A form's list folds into what is stored, and back.  The two   *)
(* folds, and the one that says what was entered, are first turned into    *)
(* recursive facts about one more element; what follows is induction over  *)
(* lists, in the form of a set of lists that is closed under Append.       *)

Header == [name: Text, value: Text]
Values == Seq(Text \ {""})
Entry  == [name: Text \ {""}, values: Values]

\* Induction over a set of numbers and over a set of lists.
LEMMA NumberInduction ==
    ASSUME NEW T, 0 \in T, \A n \in Nat : n \in T => n + 1 \in T
    PROVE  Nat \subseteq T
<1> SUFFICES ASSUME Nat \ T # {}
             PROVE  FALSE
  OBVIOUS
<1>1. PICK n \in Nat \ T : \A m \in Nat \ T : n <= m
  <2> DEFINE S == Nat \ T
  <2>1. S \in SUBSET Nat /\ S # {}
    OBVIOUS
  <2> HIDE DEF S
  <2>2. \E n \in S : \A m \in S : n <= m
    BY <2>1, LeastIndex
  <2> QED  BY <2>2 DEF S
<1>2. n # 0 /\ n - 1 \in Nat /\ n - 1 + 1 = n
  BY <1>1
<1>3. n - 1 \in T
  BY <1>1, <1>2
<1> QED  BY <1>1, <1>2, <1>3

LEMMA ListInduction ==
    ASSUME NEW S, NEW P, <<>> \in P,
           \A l \in Seq(S), x \in S : l \in P => Append(l, x) \in P
    PROVE  Seq(S) \subseteq P
<1> DEFINE T == {n \in Nat : \A l \in Seq(S) : Len(l) = n => l \in P}
<1>1. 0 \in T
  OBVIOUS
<1>2. ASSUME NEW n \in Nat, n \in T
      PROVE  n + 1 \in T
  <2> SUFFICES ASSUME NEW l \in Seq(S), Len(l) = n + 1
               PROVE  l \in P
    OBVIOUS
  <2> DEFINE f == SubSeq(l, 1, n)
  <2>1. f \in Seq(S) /\ Len(f) = n /\ l[n + 1] \in S
    OBVIOUS
  <2>2. l = Append(f, l[n + 1])
    OBVIOUS
  <2>3. f \in P
    BY <1>2, <2>1
  <2> HIDE DEF f, T
  <2> QED  BY <2>1, <2>2, <2>3
<1> HIDE DEF T
<1>3. Nat \subseteq T
  BY <1>1, <1>2, NumberInduction
<1> QED  BY <1>3 DEF T

\* What FoldLeft asks for exists: F[k] is its operator with the element at k.
HasFold(D, base, n, F) ==
    \E g \in [SUBSET (1..n) -> D] :
        \A s \in SUBSET (1..n) :
            g[s] = IF s = {} THEN base ELSE F[Max(s)][g[s \ {Max(s)}]]

LEMMA FoldExists ==
    ASSUME NEW D, NEW base \in D, NEW n \in Nat, NEW F \in [1..n -> [D -> D]]
    PROVE  HasFold(D, base, n, F)
<1> DEFINE Folds(m, g) == \A s \in SUBSET (1..m) :
                              g[s] = IF s = {} THEN base ELSE F[Max(s)][g[s \ {Max(s)}]]
           Has(m) == \E g \in [SUBSET (1..m) -> D] : Folds(m, g)
           T == {m \in Nat : m <= n => Has(m)}
<1>1. 0 \in T
  <2> DEFINE g == [s \in SUBSET (1..0) |-> base]
  <2>1. 1..0 = {}
    OBVIOUS
  <2>2. g \in [SUBSET (1..0) -> D] /\ Folds(0, g)
    BY <2>1
  <2> QED  BY <2>2
<1>2. ASSUME NEW m \in Nat, m \in T
      PROVE  m + 1 \in T
  <2> SUFFICES ASSUME m + 1 <= n
               PROVE  Has(m + 1)
    <3> HIDE DEF Has
    <3> QED  OBVIOUS
  <2>1. PICK h \in [SUBSET (1..m) -> D] : Folds(m, h)
    <3>1. Has(m)
      <4> HIDE DEF Has
      <4> QED  BY <1>2
    <3> HIDE DEF Folds
    <3> QED  BY <3>1
  <2> DEFINE g == [s \in SUBSET (1..(m + 1)) |->
                     IF m + 1 \in s THEN F[m + 1][h[s \ {m + 1}]] ELSE h[s]]
  <2>2. \A s \in SUBSET (1..(m + 1)) : s \ {m + 1} \in SUBSET (1..m)
    OBVIOUS
  <2>3. g \in [SUBSET (1..(m + 1)) -> D]
    <3> SUFFICES ASSUME NEW s \in SUBSET (1..(m + 1))
                 PROVE  (IF m + 1 \in s THEN F[m + 1][h[s \ {m + 1}]] ELSE h[s]) \in D
      OBVIOUS
    <3>1. m + 1 \in 1..n /\ s \ {m + 1} \in SUBSET (1..m)
      BY <2>2
    <3>2. h[s \ {m + 1}] \in D
      BY <3>1
    <3>3. F[m + 1][h[s \ {m + 1}]] \in D
      BY <3>1, <3>2
    <3>4. m + 1 \notin s => s \in SUBSET (1..m)
      OBVIOUS
    <3> QED  BY <3>3, <3>4
  <2>4. ASSUME NEW s \in SUBSET (1..(m + 1)), s # {}
        PROVE  g[s] = F[Max(s)][g[s \ {Max(s)}]]
    <3>1. CASE m + 1 \in s
      <4>1. Max(s) = m + 1
        <5>1. \A y \in s : m + 1 >= y
          OBVIOUS
        <5>2. \A x \in s : (\A y \in s : x >= y) => x = m + 1
          BY <3>1
        <5> QED  BY <3>1, <5>1, <5>2 DEF Max
      <4>2. s \ {m + 1} \in SUBSET (1..(m + 1)) /\ m + 1 \notin s \ {m + 1}
        OBVIOUS
      <4>3. g[s \ {m + 1}] = h[s \ {m + 1}]
        BY <4>2
      <4>4. g[s] = F[m + 1][h[s \ {m + 1}]]
        BY <3>1
      <4> QED  BY <4>1, <4>3, <4>4
    <3>2. CASE m + 1 \notin s
      <4>1. s \in SUBSET (1..m) /\ s \ {Max(s)} \in SUBSET (1..m)
        <5>1. \A y \in s : y \in 1..m
          BY <3>2
        <5> QED  BY <5>1
      <4>2. h[s] = F[Max(s)][h[s \ {Max(s)}]]
        BY <2>1, <2>4, <4>1
      <4>3. g[s] = h[s] /\ g[s \ {Max(s)}] = h[s \ {Max(s)}]
        <5>1. s \in SUBSET (1..(m + 1)) /\ s \ {Max(s)} \in SUBSET (1..(m + 1))
                /\ m + 1 \notin s \ {Max(s)}
          BY <3>2
        <5> QED  BY <3>2, <5>1
      <4> QED  BY <4>2, <4>3
    <3> QED  BY <3>1, <3>2
  <2>5. g[{}] = base
    <3>1. {} \in SUBSET (1..(m + 1)) /\ {} \in SUBSET (1..m) /\ m + 1 \notin {}
      OBVIOUS
    <3>2. h[{}] = base
      BY <2>1, <3>1
    <3> QED  BY <3>1, <3>2
  <2>6. Folds(m + 1, g)
    <3> HIDE DEF g
    <3> QED  BY <2>4, <2>5
  <2> HIDE DEF g, Folds
  <2> QED  BY <2>3, <2>6
<1>3. Has(n)
  <2> HIDE DEF Has
  <2>1. n \in T
    <3> HIDE DEF T
    <3> QED  BY <1>1, <1>2, NumberInduction
  <2> QED  BY <2>1
<1> QED  BY <1>3 DEF HasFold

LEMMA MaxElement ==
    ASSUME NEW n \in Nat, NEW s \in SUBSET (1..n), s # {}
    PROVE  Max(s) \in s
<1> DEFINE S == {n - y : y \in s}
<1>1. S \in SUBSET Nat /\ S # {}
  <2>1. \A y \in s : n - y \in Nat
    OBVIOUS
  <2>2. \A j \in S : j \in Nat
    BY <2>1
  <2>3. PICK y \in s : TRUE
    OBVIOUS
  <2>4. n - y \in S
    OBVIOUS
  <2> HIDE DEF S
  <2> QED  BY <2>2, <2>4
<1>2. PICK i \in S : \A j \in S : i <= j
  <2> HIDE DEF S
  <2> QED  BY <1>1, LeastIndex
<1>3. PICK y \in s : i = n - y
  BY <1>2
<1>4. \A z \in s : y >= z
  <2> SUFFICES ASSUME NEW z \in s
               PROVE  y >= z
    OBVIOUS
  <2>1. n - z \in S
    OBVIOUS
  <2>2. y \in 1..n /\ z \in 1..n
    OBVIOUS
  <2>3. n - y <= n - z
    BY <2>1, <1>2, <1>3
  <2> QED  BY <2>2, <2>3
<1> QED  BY <1>4 DEF Max

LEMMA Prefix ==
    ASSUME NEW k \in Nat, k # 0
    PROVE  Max(1..k) = k /\ (1..k) \ {k} = 1..(k - 1)
<1>1. k \in 1..k /\ \A y \in 1..k : k >= y
  OBVIOUS
<1>2. \A x \in 1..k : (\A y \in 1..k : x >= y) => x = k
  BY <1>1
<1> QED  BY <1>1, <1>2 DEF Max

LEMMA SameTables ==
    ASSUME NEW n \in Nat, NEW G, NEW H, G[0] = H[0],
           \A k \in 1..n : G[k - 1] = H[k - 1] => G[k] = H[k]
    PROVE  G[n] = H[n]
<1> DEFINE T == {k \in Nat : k <= n => G[k] = H[k]}
<1>1. 0 \in T
  OBVIOUS
<1>2. ASSUME NEW k \in Nat, k \in T
      PROVE  k + 1 \in T
  <2> SUFFICES ASSUME k + 1 <= n
               PROVE  G[k + 1] = H[k + 1]
    OBVIOUS
  <2>1. k + 1 \in 1..n /\ (k + 1) - 1 = k /\ G[k] = H[k]
    BY <1>2
  <2> QED  BY <2>1
<1>3. n \in T
  <2> HIDE DEF T
  <2> QED  BY <1>1, <1>2, NumberInduction
<1> QED  BY <1>3

LEMMA Indices ==
    ASSUME NEW S, NEW list \in Seq(S)
    PROVE  DOMAIN list = 1..Len(list) /\ Len(list) \in Nat
OBVIOUS

LEMMA EmptyList == \A S : <<>> \in Seq(S)
OBVIOUS

LEMMA LengthZero ==
    ASSUME NEW S, NEW list \in Seq(S)
    PROVE  list = <<>> <=> Len(list) = 0
OBVIOUS

LEMMA OneElement ==
    ASSUME NEW S, NEW v \in S
    PROVE  <<v>> \in Seq(S) /\ \A w \in Seq(S) : Append(w, v) \in Seq(S)
OBVIOUS

LEMMA AddedEntry ==
    ASSUME NEW stored \in Seq(Entry), NEW h \in Header, NEW many \in BOOLEAN
    PROVE  AddHeader(stored, h, many) \in Seq(Entry)
<1>1. CASE h.name = "" \/ h.value = ""
  BY <1>1 DEF AddHeader
<1>2. CASE ~(h.name = "" \/ h.value = "") /\ ~HasName(stored, h.name)
  <2> DEFINE e == [name |-> h.name, values |-> <<h.value>>]
  <2>1. h.name \in Text \ {""} /\ h.value \in Text \ {""}
    BY <1>2 DEF Header
  <2>2. <<h.value>> \in Values
    BY <2>1, OneElement DEF Values
  <2>3. e \in Entry
    BY <2>1, <2>2 DEF Entry
  <2>4. AddHeader(stored, h, many) = Append(stored, e)
    BY <1>2 DEF AddHeader
  <2> HIDE DEF e
  <2> QED  BY <2>3, <2>4
<1>3. CASE ~(h.name = "" \/ h.value = "") /\ HasName(stored, h.name)
  <2> DEFINE E(i) == IF stored[i].name = h.name
                     THEN [stored[i] EXCEPT !.values = IF many THEN Append(@, h.value) ELSE <<h.value>>]
                     ELSE stored[i]
  <2>1. ASSUME NEW i \in DOMAIN stored PROVE E(i) \in Entry
    <3>1. stored[i] \in Entry /\ h.value \in Text \ {""}
      <4>1. stored[i] \in Entry
        BY Elements
      <4> QED  BY <1>3, <4>1 DEF Header
    <3>2. stored[i].values \in Values
      BY <3>1 DEF Entry
    <3>3. <<h.value>> \in Values /\ Append(stored[i].values, h.value) \in Values
      <4> DEFINE S == Text \ {""}
      <4>1. h.value \in S /\ stored[i].values \in Seq(S)
        BY <3>1, <3>2 DEF Values
      <4> HIDE DEF S
      <4>2. <<h.value>> \in Seq(S) /\ Append(stored[i].values, h.value) \in Seq(S)
        BY <4>1, OneElement
      <4> QED  BY <4>2 DEF S, Values
    <3>4. (IF many THEN Append(stored[i].values, h.value) ELSE <<h.value>>) \in Values
      BY <3>3
    <3> QED  BY <3>1, <3>4 DEF Entry
  <2>2. AddHeader(stored, h, many) = [i \in DOMAIN stored |-> E(i)]
    BY <1>3 DEF AddHeader
  <2> HIDE DEF E
  <2>3. DOMAIN stored = 1..Len(stored) /\ Len(stored) \in Nat
    OBVIOUS
  <2>4. [i \in 1..Len(stored) |-> E(i)] \in [1..Len(stored) -> Entry]
    BY <2>1, <2>3
  <2> QED  BY <2>2, <2>3, <2>4
<1> QED  BY <1>1, <1>2, <1>3

LEMMA V2Table ==
    ASSUME NEW list \in Seq(Header), NEW many \in BOOLEAN
    PROVE  \E G : /\ G[0] = <<>>
                  /\ \A k \in 1..Len(list) : G[k] = AddHeader(G[k - 1], list[k], many)
                  /\ toV2Headers(list, many) = G[Len(list)]
<1> DEFINE n == Len(list)
           D == Seq(Entry)
           F == [k \in 1..n |-> [v \in D |-> AddHeader(v, list[k], many)]]
           Fold(g) == [s \in SUBSET DOMAIN list |->
                         IF s = {} THEN <<>> ELSE AddHeader(g[s \ {Max(s)}], list[Max(s)], many)]
           iter == CHOOSE g : g = Fold(g)
           G == [k \in 0..n |-> iter[1..k]]
<1>1. n \in Nat /\ DOMAIN list = 1..n /\ \A k \in 1..n : list[k] \in Header
  OBVIOUS
<1>2. F \in [1..n -> [D -> D]] /\ <<>> \in D
  BY <1>1, AddedEntry
<1>3. \E g : g = Fold(g)
  <2>1. PICK g \in [SUBSET (1..n) -> D] :
          \A s \in SUBSET (1..n) : g[s] = IF s = {} THEN <<>> ELSE F[Max(s)][g[s \ {Max(s)}]]
    <3>1. n \in Nat
      BY <1>1
    <3> DEFINE base == <<>>
    <3>2. base \in D
      BY <1>2
    <3> HIDE DEF F, n, D, base
    <3>3. HasFold(D, base, n, F)
      BY <1>2, <3>1, <3>2, FoldExists
    <3> QED  BY <3>3 DEF base, HasFold
  <2>2. ASSUME NEW s \in SUBSET (1..n), s # {}
        PROVE  g[s] = AddHeader(g[s \ {Max(s)}], list[Max(s)], many)
    <3>1. Max(s) \in 1..n /\ s \ {Max(s)} \in SUBSET (1..n)
      BY <1>1, <2>2, MaxElement
    <3>2. g[s \ {Max(s)}] \in D
      BY <2>1, <3>1
    <3> QED  BY <2>1, <2>2, <3>1, <3>2
  <2> HIDE DEF n, D, F
  <2>3. g = Fold(g)
    BY <1>1, <2>1, <2>2
  <2> QED  BY <2>3
<1>4. iter = Fold(iter)
  <2> HIDE DEF Fold
  <2> QED  BY <1>3
<1>5. toV2Headers(list, many) = iter[DOMAIN list]
  BY Zenon DEF toV2Headers, FoldLeft, MapThenFoldSet
<1> HIDE DEF iter
<1>6. iter[1..0] = <<>> /\ \A k \in 1..n : iter[1..k] = AddHeader(iter[1..(k - 1)], list[k], many)
  <2>1. \A s \in SUBSET (1..n) : iter[s] = Fold(iter)[s]
    BY <1>4
  <2>2. iter[{}] = <<>>
    BY <1>1, <2>1
  <2>3. ASSUME NEW k \in 1..n PROVE iter[1..k] = AddHeader(iter[1..(k - 1)], list[k], many)
    <3>1. 1..k \in SUBSET (1..n) /\ 1..k # {} /\ k \in Nat /\ k # 0
      <4> HIDE DEF n
      <4>1. k \in Nat /\ k # 0 /\ 1 \in 1..k
        BY <1>1
      <4>2. \A j \in 1..k : j \in 1..n
        BY <1>1
      <4>3. 1..k \in SUBSET (1..n)
        BY ZenonT(30), <4>2
      <4>4. 1..k # {}
        BY <4>1
      <4> QED  BY <4>1, <4>3, <4>4
    <3>2. Max(1..k) = k /\ (1..k) \ {k} = 1..(k - 1)
      BY <3>1, Prefix
    <3> QED  BY <1>1, <2>1, <3>1, <3>2
  <2>4. 1..0 = {}
    OBVIOUS
  <2> QED  BY <2>2, <2>3, <2>4
<1>7. G[0] = <<>> /\ G[n] = iter[1..n]
  BY <1>1, <1>6
<1>8. \A k \in 1..n : G[k] = AddHeader(G[k - 1], list[k], many)
  BY <1>1, <1>6
<1> HIDE DEF G
<1> QED  BY <1>1, <1>5, <1>7, <1>8

LEMMA V2Fold ==
    ASSUME NEW many \in BOOLEAN
    PROVE  /\ toV2Headers(<<>>, many) = <<>>
           /\ \A list \in Seq(Header), h \in Header :
                toV2Headers(Append(list, h), many) = AddHeader(toV2Headers(list, many), h, many)
<1>1. toV2Headers(<<>>, many) = <<>>
  <2> DEFINE none == <<>>
  <2>1. none \in Seq(Header) /\ Len(none) = 0
    OBVIOUS
  <2> HIDE DEF none
  <2>2. toV2Headers(none, many) = <<>>
    BY <2>1, V2Table
  <2> QED  BY <2>2 DEF none
<1>2. ASSUME NEW list \in Seq(Header), NEW h \in Header
      PROVE  toV2Headers(Append(list, h), many) = AddHeader(toV2Headers(list, many), h, many)
  <2> DEFINE more == Append(list, h)
             n == Len(list)
  <2>1. /\ n \in Nat /\ more \in Seq(Header) /\ Len(more) = n + 1 /\ more[n + 1] = h
        /\ \A k \in 1..n : more[k] = list[k] /\ k \in 1..(n + 1)
    OBVIOUS
  <2> HIDE DEF more
  <2>2. PICK G : /\ G[0] = <<>>
                 /\ \A k \in 1..n : G[k] = AddHeader(G[k - 1], list[k], many)
                 /\ toV2Headers(list, many) = G[n]
    BY V2Table
  <2>3. PICK H : /\ H[0] = <<>>
                 /\ \A k \in 1..(n + 1) : H[k] = AddHeader(H[k - 1], more[k], many)
                 /\ toV2Headers(more, many) = H[n + 1]
    BY ZenonT(60), <2>1, V2Table
  <2> HIDE DEF n
  <2>4. G[n] = H[n]
    BY <2>1, <2>2, <2>3, SameTables
  <2>5. n + 1 \in 1..(n + 1) /\ (n + 1) - 1 = n
    BY <2>1
  <2>6. H[n + 1] = AddHeader(H[n], h, many)
    BY <2>1, <2>3, <2>5
  <2> QED  BY <2>2, <2>3, <2>4, <2>6 DEF more
<1> QED  BY <1>1, <1>2

LEMMA V2Entries ==
    ASSUME NEW many \in BOOLEAN, NEW list \in Seq(Header)
    PROVE  toV2Headers(list, many) \in Seq(Entry)
<1> DEFINE P == {l \in Seq(Header) : toV2Headers(l, many) \in Seq(Entry)}
<1>1. <<>> \in P
  <2>1. toV2Headers(<<>>, many) \in Seq(Entry)
    BY V2Fold, EmptyList
  <2> QED  BY <2>1, EmptyList
<1>2. ASSUME NEW l \in Seq(Header), NEW h \in Header, l \in P
      PROVE  Append(l, h) \in P
  <2>1. toV2Headers(Append(l, h), many) \in Seq(Entry)
    BY <1>2, V2Fold, AddedEntry
  <2> QED  BY <2>1
<1>3. Seq(Header) \subseteq P
  <2> HIDE DEF P
  <2> QED  BY <1>1, <1>2, ListInduction
<1> QED  BY <1>3

LEMMA ShownHeaders ==
    ASSUME NEW entry \in Entry
    PROVE  Shown(entry) \in Seq(Header) /\ \A list \in Seq(Header) : list \o Shown(entry) \in Seq(Header)
<1>1. /\ entry.name \in Text /\ DOMAIN entry.values = 1..Len(entry.values) /\ Len(entry.values) \in Nat
      /\ \A i \in DOMAIN entry.values : entry.values[i] \in Text
  <2>1. entry.name \in Text /\ entry.values \in Seq(Text \ {""})
    BY DEF Entry, Values
  <2>2. \A i \in DOMAIN entry.values : entry.values[i] \in Text \ {""}
    BY <2>1, Elements
  <2>3. DOMAIN entry.values = 1..Len(entry.values) /\ Len(entry.values) \in Nat
    BY <2>1, Indices
  <2> QED  BY <2>1, <2>2, <2>3
<1>2. \A i \in DOMAIN entry.values : [name |-> entry.name, value |-> entry.values[i]] \in Header
  BY <1>1 DEF Header
<1>3. Shown(entry) \in [1..Len(entry.values) -> Header]
  BY <1>1, <1>2 DEF Shown
<1>4. Shown(entry) \in Seq(Header)
  BY <1>1, <1>3
<1> QED  BY <1>4

LEMMA ShownTable ==
    ASSUME NEW list \in Seq(Entry)
    PROVE  \E G : /\ G[0] = <<>>
                  /\ \A k \in 1..Len(list) : G[k] = G[k - 1] \o Shown(list[k])
                  /\ toHeaders(list) = G[Len(list)]
<1> DEFINE n == Len(list)
           D == Seq(Header)
           F == [k \in 1..n |-> [v \in D |-> v \o Shown(list[k])]]
           Fold(g) == [s \in SUBSET DOMAIN list |->
                         IF s = {} THEN <<>> ELSE g[s \ {Max(s)}] \o Shown(list[Max(s)])]
           iter == CHOOSE g : g = Fold(g)
           G == [k \in 0..n |-> iter[1..k]]
<1>1. n \in Nat /\ DOMAIN list = 1..n /\ \A k \in 1..n : list[k] \in Entry
  OBVIOUS
<1>2. F \in [1..n -> [D -> D]] /\ <<>> \in D
  BY <1>1, ShownHeaders
<1>3. \E g : g = Fold(g)
  <2>1. PICK g \in [SUBSET (1..n) -> D] :
          \A s \in SUBSET (1..n) : g[s] = IF s = {} THEN <<>> ELSE F[Max(s)][g[s \ {Max(s)}]]
    <3>1. n \in Nat
      BY <1>1
    <3> DEFINE base == <<>>
    <3>2. base \in D
      BY <1>2
    <3> HIDE DEF F, n, D, base
    <3>3. HasFold(D, base, n, F)
      BY <1>2, <3>1, <3>2, FoldExists
    <3> QED  BY <3>3 DEF base, HasFold
  <2>2. ASSUME NEW s \in SUBSET (1..n), s # {}
        PROVE  g[s] = g[s \ {Max(s)}] \o Shown(list[Max(s)])
    <3>1. Max(s) \in 1..n /\ s \ {Max(s)} \in SUBSET (1..n)
      BY <1>1, <2>2, MaxElement
    <3>2. g[s \ {Max(s)}] \in D
      BY <2>1, <3>1
    <3> QED  BY <2>1, <2>2, <3>1, <3>2
  <2> HIDE DEF n, D, F
  <2>3. g = Fold(g)
    BY <1>1, <2>1, <2>2
  <2> QED  BY <2>3
<1>4. iter = Fold(iter)
  <2> HIDE DEF Fold
  <2> QED  BY <1>3
<1>5. toHeaders(list) = iter[DOMAIN list]
  BY Zenon DEF toHeaders, FoldLeft, MapThenFoldSet
<1> HIDE DEF iter
<1>6. iter[1..0] = <<>> /\ \A k \in 1..n : iter[1..k] = iter[1..(k - 1)] \o Shown(list[k])
  <2>1. \A s \in SUBSET (1..n) : iter[s] = Fold(iter)[s]
    BY <1>4
  <2>2. iter[{}] = <<>>
    BY <1>1, <2>1
  <2>3. ASSUME NEW k \in 1..n PROVE iter[1..k] = iter[1..(k - 1)] \o Shown(list[k])
    <3>1. 1..k \in SUBSET (1..n) /\ 1..k # {} /\ k \in Nat /\ k # 0
      <4> HIDE DEF n
      <4>1. k \in Nat /\ k # 0 /\ 1 \in 1..k
        BY <1>1
      <4>2. \A j \in 1..k : j \in 1..n
        BY <1>1
      <4>3. 1..k \in SUBSET (1..n)
        BY ZenonT(30), <4>2
      <4>4. 1..k # {}
        BY <4>1
      <4> QED  BY <4>1, <4>3, <4>4
    <3>2. Max(1..k) = k /\ (1..k) \ {k} = 1..(k - 1)
      BY <3>1, Prefix
    <3> QED  BY <1>1, <2>1, <3>1, <3>2
  <2>4. 1..0 = {}
    OBVIOUS
  <2> QED  BY <2>2, <2>3, <2>4
<1>7. G[0] = <<>> /\ G[n] = iter[1..n]
  BY <1>1, <1>6
<1>8. \A k \in 1..n : G[k] = G[k - 1] \o Shown(list[k])
  BY <1>1, <1>6
<1> HIDE DEF G
<1> QED  BY <1>1, <1>5, <1>7, <1>8

LEMMA ShownFold ==
    /\ toHeaders(<<>>) = <<>>
    /\ \A list \in Seq(Entry), h \in Entry :
         toHeaders(Append(list, h)) = toHeaders(list) \o Shown(h)
<1>1. toHeaders(<<>>) = <<>>
  <2> DEFINE none == <<>>
  <2>1. none \in Seq(Entry) /\ Len(none) = 0
    OBVIOUS
  <2> HIDE DEF none
  <2>2. toHeaders(none) = <<>>
    BY <2>1, ShownTable
  <2> QED  BY <2>2 DEF none
<1>2. ASSUME NEW list \in Seq(Entry), NEW h \in Entry
      PROVE  toHeaders(Append(list, h)) = toHeaders(list) \o Shown(h)
  <2> DEFINE more == Append(list, h)
             n == Len(list)
  <2>1. /\ n \in Nat /\ more \in Seq(Entry) /\ Len(more) = n + 1 /\ more[n + 1] = h
        /\ \A k \in 1..n : more[k] = list[k] /\ k \in 1..(n + 1)
    OBVIOUS
  <2> HIDE DEF more
  <2>2. PICK G : /\ G[0] = <<>>
                 /\ \A k \in 1..n : G[k] = G[k - 1] \o Shown(list[k])
                 /\ toHeaders(list) = G[n]
    BY ShownTable
  <2>3. PICK H : /\ H[0] = <<>>
                 /\ \A k \in 1..(n + 1) : H[k] = H[k - 1] \o Shown(more[k])
                 /\ toHeaders(more) = H[n + 1]
    BY <2>1, ShownTable
  <2> HIDE DEF n
  <2>4. G[n] = H[n]
    <3>1. ASSUME NEW k \in 1..n, G[k - 1] = H[k - 1] PROVE G[k] = H[k]
      <4>1. k \in 1..(n + 1) /\ more[k] = list[k]
        BY <2>1
      <4>2. G[k] = G[k - 1] \o Shown(list[k]) /\ H[k] = H[k - 1] \o Shown(more[k])
        BY <2>2, <2>3, <4>1, Zenon
      <4> QED  BY <3>1, <4>1, <4>2, Zenon
    <3>2. n \in Nat /\ G[0] = H[0]
      BY <2>1, <2>2, <2>3
    <3> QED  BY <3>1, <3>2, SameTables
  <2>5. n + 1 \in 1..(n + 1) /\ (n + 1) - 1 = n
    BY <2>1
  <2>6. H[n + 1] = H[n] \o Shown(h)
    BY <2>1, <2>3, <2>5
  <2> QED  BY <2>2, <2>3, <2>4, <2>6 DEF more
<1> QED  BY <1>1, <1>2


LEMMA EnteredValues ==
    ASSUME NEW values \in Values, NEW h \in Header, NEW name
    PROVE  Enter(values, h, name) \in Values
<1>1. CASE h.name = name /\ h.value # ""
  <2> DEFINE S == Text \ {""}
  <2>1. h.value \in S /\ values \in Seq(S)
    BY <1>1 DEF Values, Header
  <2> HIDE DEF S
  <2>2. Append(values, h.value) \in Seq(S)
    BY <2>1, OneElement
  <2> QED  BY <1>1, <2>2 DEF S, Values, Enter
<1>2. CASE ~(h.name = name /\ h.value # "")
  BY <1>2 DEF Enter
<1> QED  BY <1>1, <1>2

LEMMA EnteredTable ==
    ASSUME NEW list \in Seq(Header), NEW name
    PROVE  \E G : /\ G[0] = <<>>
                  /\ \A k \in 1..Len(list) : G[k] = Enter(G[k - 1], list[k], name)
                  /\ Entered(list, name) = G[Len(list)]
<1> DEFINE n == Len(list)
           D == Values
           F == [k \in 1..n |-> [v \in D |-> Enter(v, list[k], name)]]
           Fold(g) == [s \in SUBSET DOMAIN list |->
                         IF s = {} THEN <<>> ELSE Enter(g[s \ {Max(s)}], list[Max(s)], name)]
           iter == CHOOSE g : g = Fold(g)
           G == [k \in 0..n |-> iter[1..k]]
<1>1. n \in Nat /\ DOMAIN list = 1..n /\ \A k \in 1..n : list[k] \in Header
  OBVIOUS
<1>2. F \in [1..n -> [D -> D]] /\ <<>> \in D
  BY <1>1, EnteredValues, EmptyList DEF Values
<1>3. \E g : g = Fold(g)
  <2>1. PICK g \in [SUBSET (1..n) -> D] :
          \A s \in SUBSET (1..n) : g[s] = IF s = {} THEN <<>> ELSE F[Max(s)][g[s \ {Max(s)}]]
    <3>1. n \in Nat
      BY <1>1
    <3> DEFINE base == <<>>
    <3>2. base \in D
      BY <1>2
    <3> HIDE DEF F, n, D, base
    <3>3. HasFold(D, base, n, F)
      BY <1>2, <3>1, <3>2, FoldExists
    <3> QED  BY <3>3 DEF base, HasFold
  <2>2. ASSUME NEW s \in SUBSET (1..n), s # {}
        PROVE  g[s] = Enter(g[s \ {Max(s)}], list[Max(s)], name)
    <3>1. Max(s) \in 1..n /\ s \ {Max(s)} \in SUBSET (1..n)
      BY <1>1, <2>2, MaxElement
    <3>2. g[s \ {Max(s)}] \in D
      BY <2>1, <3>1
    <3> QED  BY <2>1, <2>2, <3>1, <3>2
  <2> HIDE DEF n, D, F
  <2>3. g = Fold(g)
    BY <1>1, <2>1, <2>2
  <2> QED  BY <2>3
<1>4. iter = Fold(iter)
  <2> HIDE DEF Fold
  <2> QED  BY <1>3
<1>5. Entered(list, name) = iter[DOMAIN list]
  BY Zenon DEF Entered, Enter, FoldLeft, MapThenFoldSet
<1> HIDE DEF iter
<1>6. iter[1..0] = <<>> /\ \A k \in 1..n : iter[1..k] = Enter(iter[1..(k - 1)], list[k], name)
  <2>1. \A s \in SUBSET (1..n) : iter[s] = Fold(iter)[s]
    BY <1>4
  <2>2. iter[{}] = <<>>
    BY <1>1, <2>1
  <2>3. ASSUME NEW k \in 1..n PROVE iter[1..k] = Enter(iter[1..(k - 1)], list[k], name)
    <3>1. 1..k \in SUBSET (1..n) /\ 1..k # {} /\ k \in Nat /\ k # 0
      <4> HIDE DEF n
      <4>1. k \in Nat /\ k # 0 /\ 1 \in 1..k
        BY <1>1
      <4>2. \A j \in 1..k : j \in 1..n
        BY <1>1
      <4>3. 1..k \in SUBSET (1..n)
        BY ZenonT(30), <4>2
      <4>4. 1..k # {}
        BY <4>1
      <4> QED  BY <4>1, <4>3, <4>4
    <3>2. Max(1..k) = k /\ (1..k) \ {k} = 1..(k - 1)
      BY <3>1, Prefix
    <3> QED  BY <1>1, <2>1, <3>1, <3>2
  <2>4. 1..0 = {}
    OBVIOUS
  <2> QED  BY <2>2, <2>3, <2>4
<1>7. G[0] = <<>> /\ G[n] = iter[1..n]
  BY <1>1, <1>6
<1>8. \A k \in 1..n : G[k] = Enter(G[k - 1], list[k], name)
  BY <1>1, <1>6
<1> HIDE DEF G
<1> QED  BY <1>1, <1>5, <1>7, <1>8

LEMMA EnteredFold ==
    ASSUME NEW name
    PROVE  /\ Entered(<<>>, name) = <<>>
           /\ \A list \in Seq(Header), h \in Header :
                Entered(Append(list, h), name) = Enter(Entered(list, name), h, name)
<1>1. Entered(<<>>, name) = <<>>
  <2> DEFINE none == <<>>
  <2>1. none \in Seq(Header) /\ Len(none) = 0
    OBVIOUS
  <2> HIDE DEF none
  <2>2. Entered(none, name) = <<>>
    BY <2>1, EnteredTable
  <2> QED  BY <2>2 DEF none
<1>2. ASSUME NEW list \in Seq(Header), NEW h \in Header
      PROVE  Entered(Append(list, h), name) = Enter(Entered(list, name), h, name)
  <2> DEFINE more == Append(list, h)
             n == Len(list)
  <2>1. /\ n \in Nat /\ more \in Seq(Header) /\ Len(more) = n + 1 /\ more[n + 1] = h
        /\ \A k \in 1..n : more[k] = list[k] /\ k \in 1..(n + 1)
    OBVIOUS
  <2> HIDE DEF more
  <2>2. PICK G : /\ G[0] = <<>>
                 /\ \A k \in 1..n : G[k] = Enter(G[k - 1], list[k], name)
                 /\ Entered(list, name) = G[n]
    BY EnteredTable
  <2>3. PICK H : /\ H[0] = <<>>
                 /\ \A k \in 1..(n + 1) : H[k] = Enter(H[k - 1], more[k], name)
                 /\ Entered(more, name) = H[n + 1]
    BY <2>1, EnteredTable
  <2> HIDE DEF n
  <2>4. G[n] = H[n]
    BY <2>1, <2>2, <2>3, SameTables
  <2>5. n + 1 \in 1..(n + 1) /\ (n + 1) - 1 = n
    BY <2>1
  <2>6. H[n + 1] = Enter(H[n], h, name)
    BY <2>1, <2>3, <2>5
  <2> QED  BY <2>2, <2>3, <2>4, <2>6 DEF more
<1> QED  BY <1>1, <1>2


-----------------------------------------------------------------------------
\* A name is stored once, with a value, and with one where it may not repeat.
Proper(stored, many) ==
    /\ \A i, j \in DOMAIN stored : stored[i].name = stored[j].name => i = j
    /\ \A i \in DOMAIN stored :
         stored[i].values # <<>> /\ (many \/ Len(stored[i].values) = 1)

LEMMA ValuesFound ==
    ASSUME NEW stored, NEW many, Proper(stored, many), NEW name
    PROVE  /\ \A i \in DOMAIN stored :
                stored[i].name = name => StoredValues(stored, name) = stored[i].values
           /\ ~HasName(stored, name) => StoredValues(stored, name) = <<>>
<1> DEFINE at == {i \in DOMAIN stored : stored[i].name = name}
<1>1. ASSUME NEW i \in DOMAIN stored, stored[i].name = name
      PROVE  StoredValues(stored, name) = stored[i].values
  <2>1. at # {} /\ \A j \in at : j = i
    BY <1>1 DEF Proper
  <2>2. (CHOOSE j \in at : TRUE) = i
    BY <2>1
  <2> QED  BY <2>1, <2>2 DEF StoredValues
<1>2. ASSUME ~HasName(stored, name)
      PROVE  StoredValues(stored, name) = <<>>
  <2>1. at = {}
    BY <1>2 DEF HasName
  <2> QED  BY <2>1 DEF StoredValues
<1> QED  BY <1>1, <1>2

Lengthens(new, list, e) ==
    /\ Len(new) = Len(list) + 1 /\ DOMAIN new = 1..(Len(list) + 1) /\ new[Len(list) + 1] = e
    /\ \A i \in 1..Len(list) : new[i] = list[i]

LEMMA AppendedList ==
    ASSUME NEW S, NEW list \in Seq(S), NEW e \in S
    PROVE  Lengthens(Append(list, e), list, e) /\ Append(list, e) # <<>>
BY DEF Lengthens

LEMMA OneMore ==
    ASSUME NEW n \in Nat
    PROVE  /\ n + 1 \in 1..(n + 1)
           /\ \A i \in 1..n : i \in 1..(n + 1)
           /\ \A i \in 1..(n + 1) : i \in 1..n \/ i = n + 1
OBVIOUS

WithValues(e, w) == [e EXCEPT !.values = w]

LEMMA WithValuesOnly ==
    ASSUME NEW e \in Entry, NEW w
    PROVE  WithValues(e, w) = [name |-> e.name, values |-> w]
<1>1. \A a, b : WithValues([name |-> a, values |-> b], w) = [name |-> a, values |-> w]
  BY DEF WithValues
<1>2. e = [name |-> e.name, values |-> e.values]
  BY DEF Entry
<1> QED  BY <1>1, <1>2, Zenon

\* What AddHeader makes of the values of a name.
Put(values, v, many) == IF many THEN Append(values, v) ELSE <<v>>

LEMMA PutValues ==
    ASSUME NEW values \in Values, NEW v \in Text \ {""}, NEW many \in BOOLEAN
    PROVE  /\ Put(values, v, many) \in Values /\ Put(values, v, many) # <<>>
           /\ many \/ Len(Put(values, v, many)) = 1
<1> DEFINE S == Text \ {""}
<1>1. v \in S /\ values \in Seq(S)
  BY DEF Values
<1> HIDE DEF S
<1>2. Append(values, v) \in Seq(S) /\ Append(values, v) # <<>> /\ <<v>> \in Seq(S)
  BY <1>1, AppendedList, OneElement
<1>3. <<v>> # <<>> /\ Len(<<v>>) = 1
  OBVIOUS
<1> QED  BY <1>2, <1>3 DEF Put, S, Values

LEMMA NewName ==
    ASSUME NEW stored \in Seq(Entry), NEW h \in Header, NEW many \in BOOLEAN,
           h.name # "", h.value # "", ~HasName(stored, h.name), Proper(stored, many)
    PROVE  LET new == AddHeader(stored, h, many)
           IN  /\ new = Append(stored, [name |-> h.name, values |-> <<h.value>>])
               /\ Proper(new, many)
               /\ StoredValues(new, h.name) = <<h.value>>
               /\ \A name : name # h.name => StoredValues(new, name) = StoredValues(stored, name)
<1> DEFINE e == [name |-> h.name, values |-> <<h.value>>]
           new == Append(stored, e)
           n == Len(stored)
<1>1. AddHeader(stored, h, many) = new
  BY DEF AddHeader
<1>2. e.name = h.name /\ e.values = <<h.value>> /\ e.values # <<>> /\ Len(e.values) = 1
  OBVIOUS
<1>3. e \in Entry
  <2>1. h.name \in Text \ {""} /\ h.value \in Text \ {""}
    BY DEF Header
  <2>2. <<h.value>> \in Values
    BY <2>1, OneElement DEF Values
  <2> QED  BY <2>1, <2>2 DEF Entry
<1> HIDE DEF e
<1>4. /\ n \in Nat /\ DOMAIN stored = 1..n /\ DOMAIN new = 1..(n + 1) /\ new[n + 1] = e
      /\ \A i \in 1..n : new[i] = stored[i]
  <2>1. n \in Nat /\ DOMAIN stored = 1..n
    BY Indices
  <2>2. DOMAIN new = 1..(n + 1) /\ new[n + 1] = e /\ \A i \in 1..n : new[i] = stored[i]
    <3>1. Lengthens(new, stored, e)
      BY <1>3, AppendedList
    <3> HIDE DEF new
    <3> QED  BY <3>1 DEF Lengthens
  <2> QED  BY <2>1, <2>2
<1>5. /\ n + 1 \in 1..(n + 1)
      /\ \A i \in 1..n : i \in 1..(n + 1)
      /\ \A i \in 1..(n + 1) : i \in 1..n \/ i = n + 1
  BY <1>4, OneMore
<1> HIDE DEF new, n
<1>6. \A i \in 1..n : stored[i].name # h.name
  BY <1>4 DEF HasName
<1>7. Proper(new, many)
  <2>1. ASSUME NEW i \in 1..(n + 1), NEW j \in 1..(n + 1), new[i].name = new[j].name
        PROVE  i = j
    <3>1. CASE i \in 1..n /\ j \in 1..n
      BY <1>4, <2>1, <3>1 DEF Proper
    <3>2. CASE i = n + 1 /\ j \in 1..n
      BY <1>2, <1>4, <1>6, <2>1, <3>2
    <3>3. CASE j = n + 1 /\ i \in 1..n
      BY <1>2, <1>4, <1>6, <2>1, <3>3
    <3> QED  BY <1>5, <2>1, <3>1, <3>2, <3>3
  <2>2. ASSUME NEW i \in 1..(n + 1)
        PROVE  new[i].values # <<>> /\ (many \/ Len(new[i].values) = 1)
    <3>1. CASE i \in 1..n
      BY <1>4, <3>1 DEF Proper
    <3>2. CASE i = n + 1
      BY <1>2, <1>4, <3>2
    <3> QED  BY <1>5, <3>1, <3>2
  <2> QED  BY <1>4, <2>1, <2>2 DEF Proper
<1>8. StoredValues(new, h.name) = <<h.value>>
  <2>1. n + 1 \in DOMAIN new
    BY <1>4, <1>5
  <2> QED  BY <1>2, <1>4, <1>7, <2>1, ValuesFound
<1>9. ASSUME NEW name, name # h.name
      PROVE  StoredValues(new, name) = StoredValues(stored, name)
  <2>1. CASE HasName(stored, name)
    <3>1. PICK i \in DOMAIN stored : stored[i].name = name
      BY <2>1 DEF HasName
    <3>2. i \in DOMAIN new /\ new[i] = stored[i]
      BY <1>4, <1>5
    <3> QED  BY <1>7, <3>1, <3>2, ValuesFound
  <2>2. CASE ~HasName(stored, name)
    <3>1. ~HasName(new, name)
      <4> SUFFICES ASSUME NEW i \in 1..(n + 1), new[i].name = name
                   PROVE  FALSE
        BY <1>4 DEF HasName
      <4>1. i # n + 1
        BY <1>2, <1>4, <1>9
      <4>2. i \in 1..n
        BY <1>5, <4>1
      <4> QED  BY <1>4, <2>2, <4>2 DEF HasName
    <3> QED  BY <1>7, <2>2, <3>1, ValuesFound
  <2> QED  BY <2>1, <2>2
<1> QED  BY <1>1, <1>7, <1>8, <1>9 DEF new, e

Merges(new, stored, h, many) ==
    /\ DOMAIN new = DOMAIN stored
    /\ \A i \in DOMAIN stored :
         new[i] = IF stored[i].name = h.name
                  THEN [name |-> h.name, values |-> Put(stored[i].values, h.value, many)]
                  ELSE stored[i]

LEMMA OldName ==
    ASSUME NEW stored \in Seq(Entry), NEW h \in Header, NEW many \in BOOLEAN,
           h.name # "", h.value # "", HasName(stored, h.name), Proper(stored, many)
    PROVE  LET new == AddHeader(stored, h, many)
           IN  /\ Proper(new, many)
               /\ StoredValues(new, h.name) = Put(StoredValues(stored, h.name), h.value, many)
               /\ \A name : name # h.name => StoredValues(new, name) = StoredValues(stored, name)
               /\ Merges(new, stored, h, many)
<1> DEFINE E(i) == IF stored[i].name = h.name
                   THEN [name |-> h.name, values |-> Put(stored[i].values, h.value, many)]
                   ELSE stored[i]
           new == [i \in DOMAIN stored |-> E(i)]
<1>1. ASSUME NEW i \in DOMAIN stored
      PROVE  stored[i] \in Entry /\ stored[i].values \in Values
  <2>1. stored[i] \in Entry
    BY Elements
  <2> QED  BY <2>1 DEF Entry
<1>2. AddHeader(stored, h, many) = new
  <2>1. AddHeader(stored, h, many) =
          [i \in DOMAIN stored |->
             IF stored[i].name = h.name
             THEN WithValues(stored[i], Put(stored[i].values, h.value, many))
             ELSE stored[i]]
    BY Zenon DEF AddHeader, Put, WithValues
  <2>2. ASSUME NEW i \in DOMAIN stored, stored[i].name = h.name
        PROVE  WithValues(stored[i], Put(stored[i].values, h.value, many)) =
                 [name |-> h.name, values |-> Put(stored[i].values, h.value, many)]
    BY <1>1, <2>2, WithValuesOnly
  <2> QED  BY <2>1, <2>2
<1>3. ASSUME NEW i \in DOMAIN stored
      PROVE  /\ E(i).name = stored[i].name
             /\ E(i).values = IF stored[i].name = h.name
                              THEN Put(stored[i].values, h.value, many) ELSE stored[i].values
             /\ E(i).values # <<>> /\ (many \/ Len(E(i).values) = 1)
  <2>1. Put(stored[i].values, h.value, many) # <<>>
          /\ (many \/ Len(Put(stored[i].values, h.value, many)) = 1)
    BY <1>1, PutValues DEF Header
  <2> QED  BY <2>1 DEF Proper
<1> HIDE DEF E
<1>4. DOMAIN new = DOMAIN stored /\ \A i \in DOMAIN stored : new[i] = E(i)
  OBVIOUS
<1> HIDE DEF new
<1>5. Proper(new, many)
  BY ZenonT(60), <1>3, <1>4 DEF Proper
<1>6. PICK i \in DOMAIN stored : stored[i].name = h.name
  BY DEF HasName
<1>7. StoredValues(new, h.name) = Put(StoredValues(stored, h.name), h.value, many)
  <2>1. StoredValues(new, h.name) = new[i].values
    <3>1. i \in DOMAIN new /\ new[i].name = h.name
      BY <1>3, <1>4, <1>6
    <3> QED  BY <1>5, <3>1, ValuesFound
  <2>2. StoredValues(stored, h.name) = stored[i].values
    BY <1>6, ValuesFound
  <2> QED  BY <1>3, <1>4, <1>6, <2>1, <2>2
<1>8. ASSUME NEW name, name # h.name
      PROVE  StoredValues(new, name) = StoredValues(stored, name)
  <2>1. CASE HasName(stored, name)
    <3>1. PICK j \in DOMAIN stored : stored[j].name = name
      BY <2>1 DEF HasName
    <3>2. StoredValues(stored, name) = stored[j].values
      BY <3>1, ValuesFound
    <3>3. new[j].name = name /\ new[j].values = stored[j].values
      BY <1>3, <1>4, <1>8, <3>1
    <3>4. StoredValues(new, name) = new[j].values
      BY <1>4, <1>5, <3>3, ValuesFound
    <3> QED  BY <3>2, <3>3, <3>4
  <2>2. CASE ~HasName(stored, name)
    <3>1. ~HasName(new, name)
      BY <1>3, <1>4, <2>2 DEF HasName
    <3> QED  BY <1>5, <2>2, <3>1, ValuesFound
  <2> QED  BY <2>1, <2>2
<1>9. Merges(new, stored, h, many)
  BY <1>4 DEF Merges, E
<1> QED  BY <1>2, <1>5, <1>7, <1>8, <1>9

LEMMA AddedValues ==
    ASSUME NEW stored \in Seq(Entry), NEW h \in Header, NEW many \in BOOLEAN, Proper(stored, many)
    PROVE  LET new == AddHeader(stored, h, many)
           IN  /\ Proper(new, many)
               /\ \A name : name # "" =>
                    StoredValues(new, name) =
                       IF h.name = name /\ h.value # ""
                       THEN Put(StoredValues(stored, name), h.value, many)
                       ELSE StoredValues(stored, name)
<1> DEFINE new == AddHeader(stored, h, many)
<1>1. CASE h.name = "" \/ h.value = ""
  BY <1>1 DEF AddHeader
<1>2. CASE h.name # "" /\ h.value # "" /\ ~HasName(stored, h.name)
  <2>1. StoredValues(stored, h.name) = <<>>
    BY <1>2, ValuesFound
  <2>2. \A v : Put(<<>>, v, many) = <<v>>
    BY DEF Put
  <2>3. Proper(new, many) /\ StoredValues(new, h.name) = <<h.value>>
    BY <1>2, NewName
  <2>4. \A name : name # h.name => StoredValues(new, name) = StoredValues(stored, name)
    BY <1>2, NewName
  <2> HIDE DEF new
  <2>5. StoredValues(new, h.name) = Put(StoredValues(stored, h.name), h.value, many)
    BY <2>1, <2>2, <2>3
  <2> QED  BY <1>2, <2>3, <2>4, <2>5 DEF new
<1>3. CASE h.name # "" /\ h.value # "" /\ HasName(stored, h.name)
  <2>1. Proper(new, many)
    BY <1>3, OldName
  <2>3. StoredValues(new, h.name) = Put(StoredValues(stored, h.name), h.value, many)
    BY <1>3, OldName
  <2>2. \A name : name # h.name => StoredValues(new, name) = StoredValues(stored, name)
    BY <1>3, OldName
  <2> HIDE DEF new
  <2> QED  BY <1>3, <2>1, <2>2, <2>3 DEF new
<1> QED  BY <1>1, <1>2, <1>3

\* The values of a name that are stored: all, or the last.
Kept(values, many) == IF many \/ values = <<>> THEN values ELSE <<Last(values)>>

LEMMA KeptPut ==
    ASSUME NEW values \in Values, NEW v \in Text \ {""}, NEW many \in BOOLEAN
    PROVE  Kept(Append(values, v), many) = Put(Kept(values, many), v, many)
<1> DEFINE S == Text \ {""}
<1>1. v \in S /\ values \in Seq(S)
  BY DEF Values
<1> HIDE DEF S
<1>2. Last(Append(values, v)) = v /\ Append(values, v) # <<>>
  <2>1. Lengthens(Append(values, v), values, v) /\ Append(values, v) # <<>>
    BY <1>1, AppendedList
  <2> QED  BY <2>1 DEF Last, Lengthens
<1> QED  BY <1>2 DEF Kept, Put

LEMMA V2Values ==
    ASSUME NEW many \in BOOLEAN, NEW list \in Seq(Header)
    PROVE  LET stored == toV2Headers(list, many)
           IN  /\ Proper(stored, many)
               /\ \A name : name # "" => StoredValues(stored, name) = Kept(Entered(list, name), many)
<1> DEFINE Right(l) == \A name : name # "" =>
                         /\ Entered(l, name) \in Values
                         /\ StoredValues(toV2Headers(l, many), name) = Kept(Entered(l, name), many)
           P == {l \in Seq(Header) : Proper(toV2Headers(l, many), many) /\ Right(l)}
<1>1. <<>> \in P
  <2> DEFINE none == <<>>
  <2>1. toV2Headers(<<>>, many) = none /\ DOMAIN none = {} /\ none \in Values /\ none \in Seq(Header)
    BY V2Fold, EmptyList DEF Values
  <2>2. \A name : Entered(<<>>, name) = none /\ Kept(none, many) = none
    BY EnteredFold DEF Kept
  <2> HIDE DEF none
  <2>3. Proper(none, many) /\ \A name : StoredValues(none, name) = <<>>
    BY <2>1 DEF Proper, StoredValues
  <2>4. Right(<<>>)
    BY <2>1, <2>2, <2>3 DEF none
  <2> HIDE DEF Right
  <2> QED  BY <2>1, <2>3, <2>4 DEF none
<1>2. ASSUME NEW l \in Seq(Header), NEW h \in Header, l \in P
      PROVE  Append(l, h) \in P
  <2> DEFINE stored == toV2Headers(l, many)
             new == AddHeader(stored, h, many)
  <2>1. stored \in Seq(Entry) /\ Proper(stored, many) /\ Right(l)
    <3> HIDE DEF Right
    <3> QED  BY <1>2, V2Entries
  <2>2. toV2Headers(Append(l, h), many) = new
    BY V2Fold
  <2>3. Proper(new, many)
    BY <2>1, AddedValues
  <2>4. ASSUME NEW name, name # ""
        PROVE  /\ Entered(Append(l, h), name) \in Values
               /\ StoredValues(new, name) = Kept(Entered(Append(l, h), name), many)
    <3> DEFINE all == Entered(l, name)
    <3>1. Entered(Append(l, h), name) = Enter(all, h, name)
      BY EnteredFold
    <3>2. all \in Values /\ StoredValues(stored, name) = Kept(all, many)
      BY <2>1, <2>4
    <3>3. StoredValues(new, name) = IF h.name = name /\ h.value # ""
                                    THEN Put(Kept(all, many), h.value, many) ELSE Kept(all, many)
      <4> HIDE DEF stored, all
      <4>1. StoredValues(new, name) = IF h.name = name /\ h.value # ""
                                      THEN Put(StoredValues(stored, name), h.value, many)
                                      ELSE StoredValues(stored, name)
        BY <2>1, <2>4, AddedValues
      <4> QED  BY <3>2, <4>1
    <3> HIDE DEF new, all, stored
    <3>4. h.value # "" => Kept(Append(all, h.value), many) = Put(Kept(all, many), h.value, many)
      BY <3>2, KeptPut DEF Header
    <3> QED  BY <3>1, <3>2, <3>3, <3>4, EnteredValues DEF Enter
  <2>5. Right(Append(l, h))
    BY <2>2, <2>4
  <2> HIDE DEF Right
  <2> QED  BY <2>2, <2>3, <2>5
<1>3. Seq(Header) \subseteq P
  <2> HIDE DEF P
  <2> QED  BY <1>1, <1>2, ListInduction
<1> QED  BY <1>3

LEMMA ShownType ==
    ASSUME NEW stored \in Seq(Entry)
    PROVE  toHeaders(stored) \in Seq(Header)
<1> DEFINE P == {l \in Seq(Entry) : toHeaders(l) \in Seq(Header)}
<1>1. <<>> \in P
  <2>1. toHeaders(<<>>) \in Seq(Header)
    BY ShownFold, EmptyList
  <2> QED  BY <2>1, EmptyList
<1>2. ASSUME NEW l \in Seq(Entry), NEW e \in Entry, l \in P
      PROVE  Append(l, e) \in P
  <2>1. toHeaders(Append(l, e)) \in Seq(Header)
    BY <1>2, ShownFold, ShownHeaders
  <2> QED  BY <2>1
<1>3. Seq(Entry) \subseteq P
  <2> HIDE DEF P
  <2> QED  BY <1>1, <1>2, ListInduction
<1> QED  BY <1>3

LEMMA SameRange ==
    ASSUME NEW m \in Nat, NEW n \in Nat, 1..m = 1..n
    PROVE  m = n
<1>1. \A k \in Nat : k \in 1..m <=> k \in 1..n
  OBVIOUS
<1>2. (m # 0 => m <= n) /\ (n # 0 => n <= m)
  BY <1>1
<1> QED  BY <1>2

LEMMA Concatenated ==
    ASSUME NEW S, NEW a \in Seq(S), NEW b \in Seq(S), NEW x \in S
    PROVE  a \o Append(b, x) = Append(a \o b, x)
OBVIOUS

LEMMA NothingAppended ==
    /\ \A S : \A a \in Seq(S) : a \o <<>> = a
    /\ \A v : Append(<<>>, v) = <<v>>
OBVIOUS

LEMMA SameList ==
    ASSUME NEW S, NEW a \in Seq(S), NEW b \in Seq(S), DOMAIN a = DOMAIN b,
           \A i \in DOMAIN a : a[i] = b[i]
    PROVE  a = b
<1>1. Len(a) = Len(b)
  <2>1. DOMAIN a = 1..Len(a) /\ DOMAIN b = 1..Len(b) /\ Len(a) \in Nat /\ Len(b) \in Nat
    BY Indices
  <2> QED  BY <2>1, SameRange
<1> QED  BY <1>1

\* An entry that shows one more value.
LEMMA ShownMore ==
    ASSUME NEW x \in Text \ {""}, NEW values \in Values, NEW v \in Text \ {""}
    PROVE  /\ Shown([name |-> x, values |-> Append(values, v)]) =
                Append(Shown([name |-> x, values |-> values]), [name |-> x, value |-> v])
           /\ values = <<>> => Shown([name |-> x, values |-> values]) = <<>>
<1> DEFINE e == [name |-> x, values |-> values]
           more == [name |-> x, values |-> Append(values, v)]
           h == [name |-> x, value |-> v]
           n == Len(values)
           S == Text \ {""}
<1>1. values \in Seq(S) /\ v \in S
  BY DEF Values
<1> HIDE DEF S
<1>2. n \in Nat /\ DOMAIN values = 1..n
  BY <1>1, Indices
<1>3. Append(values, v) \in Seq(S) /\ Lengthens(Append(values, v), values, v)
  BY <1>1, AppendedList, OneElement
<1>4. e \in Entry /\ more \in Entry /\ h \in Header
  BY <1>3 DEF Entry, Header, S, Values
<1>5. Shown(e) \in Seq(Header) /\ Shown(more) \in Seq(Header)
  BY <1>4, ShownHeaders
<1>6. /\ DOMAIN Shown(e) = 1..n
      /\ \A i \in 1..n : Shown(e)[i] = [name |-> x, value |-> values[i]]
  BY <1>2 DEF Shown
<1>7. /\ DOMAIN Shown(more) = 1..(n + 1)
      /\ \A i \in 1..(n + 1) : Shown(more)[i] = [name |-> x, value |-> Append(values, v)[i]]
  BY <1>3 DEF Shown, Lengthens
<1>8. Len(Shown(e)) = n
  <2>1. DOMAIN Shown(e) = 1..Len(Shown(e)) /\ Len(Shown(e)) \in Nat
    BY <1>5, Indices
  <2> HIDE DEF n, e
  <2> QED  BY <1>2, <1>6, <2>1, SameRange
<1>9. Append(Shown(e), h) \in Seq(Header) /\ Lengthens(Append(Shown(e), h), Shown(e), h)
  BY <1>4, <1>5, AppendedList, OneElement
<1>10. values = <<>> => n = 0
  BY <1>1, LengthZero
<1> HIDE DEF n, e, more
<1>11. ASSUME NEW i \in 1..(n + 1)
       PROVE  Shown(more)[i] = Append(Shown(e), h)[i]
  <2>1. CASE i \in 1..n
    BY ZenonT(60), <1>3, <1>6, <1>7, <1>8, <1>9, <2>1 DEF Lengthens, n
  <2>2. CASE i = n + 1
    BY <1>3, <1>7, <1>8, <1>9, <2>2 DEF Lengthens, n
  <2> QED  BY <1>2, <2>1, <2>2, OneMore
<1>12. DOMAIN Append(Shown(e), h) = 1..(n + 1)
  BY <1>8, <1>9 DEF Lengthens
<1>13. Shown(more) = Append(Shown(e), h)
  BY <1>5, <1>7, <1>9, <1>11, <1>12, SameList
<1>14. values = <<>> => Shown(e) = <<>>
  BY <1>5, <1>8, <1>10, LengthZero
<1> QED  BY <1>13, <1>14 DEF e, more

LEMMA NextHeader ==
    ASSUME NEW many \in BOOLEAN, NEW list \in Seq(Header), NEW shown \in Seq(Header), NEW h \in Header
    PROVE  toV2Headers(list \o Append(shown, h), many) = AddHeader(toV2Headers(list \o shown, many), h, many)
<1>1. list \o Append(shown, h) = Append(list \o shown, h)
  BY Concatenated
<1>2. list \o shown \in Seq(Header)
  OBVIOUS
<1> QED  BY <1>1, <1>2, V2Fold

\* An entry that is shown after a list is stored after what the list stores.
Restores(list, entry, many) ==
    toV2Headers(list \o Shown(entry), many) = Append(toV2Headers(list, many), entry)

LEMMA OneMoreValue ==
    ASSUME NEW many \in BOOLEAN, NEW list \in Seq(Header),
           NEW x \in Text \ {""}, NEW values \in Values, NEW v \in Text \ {""},
           ~HasName(toV2Headers(list, many), x),
           values = <<>> \/ (many /\ Restores(list, [name |-> x, values |-> values], many))
    PROVE  Restores(list, [name |-> x, values |-> Append(values, v)], many)
<1> DEFINE e == [name |-> x, values |-> values]
           more == [name |-> x, values |-> Append(values, v)]
           h == [name |-> x, value |-> v]
           stored == toV2Headers(list, many)
           base == list \o Shown(e)
           n == Len(stored)
<1>1. e \in Entry /\ h \in Header /\ h.name = x /\ h.value = v /\ x # "" /\ v # "" /\ h.value \in Text \ {""}
  BY DEF Entry, Header
<1>2. base \in Seq(Header) /\ Shown(e) \in Seq(Header) /\ stored \in Seq(Entry)
  BY <1>1, ShownHeaders, V2Entries
<1>3. toV2Headers(list \o Shown(more), many) = AddHeader(toV2Headers(base, many), h, many)
  <2>1. Shown(more) = Append(Shown(e), h)
    BY ShownMore
  <2> HIDE DEF e, h, more
  <2>2. toV2Headers(list \o Append(Shown(e), h), many) = AddHeader(toV2Headers(base, many), h, many)
    BY <1>1, <1>2, NextHeader
  <2> QED  BY <2>1, <2>2
<1>4. Proper(stored, many)
  BY V2Values
<1>5. CASE values = <<>>
  <2>1. base = list
    <3>1. Shown(e) = <<>>
      BY <1>5, ShownMore
    <3>2. list \o <<>> = list
      BY NothingAppended
    <3> HIDE DEF e
    <3> QED  BY <3>1, <3>2
  <2>2. AddHeader(stored, h, many) = Append(stored, [name |-> h.name, values |-> <<h.value>>])
    <3> HIDE DEF h, stored
    <3> QED  BY <1>1, <1>2, <1>4, NewName DEF stored
  <2>3. [name |-> h.name, values |-> <<h.value>>] = more
    <3>1. Append(values, v) = <<v>>
      BY <1>5, NothingAppended
    <3> QED  BY <3>1, Zenon
  <2> QED  BY <1>3, <2>1, <2>2, <2>3 DEF Restores
<1>6. CASE values # <<>>
  <2> DEFINE had == Append(stored, e)
             new == AddHeader(had, h, many)
  <2>1. many /\ toV2Headers(base, many) = had
    BY <1>6 DEF Restores
  <2>2. had \in Seq(Entry) /\ Lengthens(had, stored, e)
    <3> HIDE DEF e, stored
    <3> QED  BY <1>1, <1>2, AppendedList, OneElement
  <2>3. Proper(had, many)
    <3> HIDE DEF had, base
    <3> QED  BY <1>2, <2>1, V2Values
  <2>4. n \in Nat /\ DOMAIN stored = 1..n /\ \A i \in 1..n : stored[i].name # x
    <3> HIDE DEF stored
    <3>1. n \in Nat /\ DOMAIN stored = 1..n
      BY <1>2, Indices
    <3>2. ~HasName(stored, x)
      BY DEF stored
    <3> QED  BY <3>1, <3>2 DEF HasName
  <2>5. e.name = x /\ e.values = values
    OBVIOUS
  <2>6. more \in Entry
    <3>1. Append(values, v) \in Values
      BY OneElement DEF Values
    <3> QED  BY <3>1 DEF Entry
  <2> HIDE DEF had, e, stored, n, base
  <2>7. /\ DOMAIN had = 1..(n + 1) /\ had[n + 1] = e
        /\ \A i \in 1..n : had[i] = stored[i]
    BY <2>2 DEF Lengthens, n
  <2>8. HasName(had, h.name)
    BY <1>1, <2>4, <2>5, <2>7, OneMore DEF HasName
  <2>9. new \in Seq(Entry) /\ Merges(new, had, h, many)
    <3> HIDE DEF h
    <3> QED  BY <1>1, <2>2, <2>3, <2>8, OldName, AddedEntry
  <2> HIDE DEF new
  <2>10. DOMAIN new = 1..(n + 1) /\ \A i \in 1..n : new[i] = stored[i]
    BY <1>1, <2>4, <2>7, <2>9, OneMore DEF Merges
  <2>11. new[n + 1] = more
    BY <1>1, <2>1, <2>4, <2>5, <2>7, <2>9, OneMore DEF Merges, Put
  <2> DEFINE goal == Append(stored, more)
  <2> HIDE DEF more
  <2>12. goal \in Seq(Entry) /\ Lengthens(goal, stored, more)
    BY <1>2, <2>6, AppendedList, OneElement
  <2> HIDE DEF goal
  <2>13. DOMAIN goal = 1..(n + 1) /\ goal[n + 1] = more /\ \A i \in 1..n : goal[i] = stored[i]
    BY <2>12 DEF Lengthens, n
  <2>14. \A i \in 1..(n + 1) : new[i] = goal[i]
    BY <2>4, <2>10, <2>11, <2>13, OneMore
  <2>15. new = goal
    BY <2>9, <2>10, <2>12, <2>13, <2>14, SameList
  <2> QED  BY <1>3, <2>1, <2>15 DEF goal, new, stored, more, Restores
<1> QED  BY <1>5, <1>6

LEMMA EntryRestored ==
    ASSUME NEW many \in BOOLEAN, NEW list \in Seq(Header), NEW entry \in Entry,
           ~HasName(toV2Headers(list, many), entry.name),
           entry.values # <<>>, many \/ Len(entry.values) = 1
    PROVE  Restores(list, entry, many)
<1> DEFINE x == entry.name
           E(values) == [name |-> x, values |-> values]
           S == Text \ {""}
           P == {l \in Seq(S) : l # <<>> /\ (many \/ Len(l) = 1) => Restores(list, E(l), many)}
<1>1. x \in S /\ entry.values \in Seq(S) /\ entry = E(entry.values)
  BY DEF Entry, Values
<1>2. <<>> \in P
  BY EmptyList
<1>3. ASSUME NEW l \in Seq(S), NEW v \in S, l \in P
      PROVE  Append(l, v) \in P
  <2> SUFFICES ASSUME many \/ Len(Append(l, v)) = 1
               PROVE  Restores(list, E(Append(l, v)), many)
    <3>1. Append(l, v) \in Seq(S)
      BY OneElement
    <3> HIDE DEF E, S
    <3> QED  BY <3>1
  <2>1. l = <<>> \/ many
    <3>1. Len(Append(l, v)) = Len(l) + 1 /\ Len(l) \in Nat
      <4> HIDE DEF S
      <4> QED  BY AppendedList, Indices DEF Lengthens
    <3> HIDE DEF S, P
    <3> QED  BY <3>1, LengthZero
  <2>2. l = <<>> \/ (many /\ Restores(list, E(l), many))
    <3> HIDE DEF E
    <3> QED  BY <1>3, <2>1
  <2>3. l \in Values /\ x \in Text \ {""} /\ v \in Text \ {""}
    BY <1>1 DEF Values
  <2> QED  BY <2>2, <2>3, OneMoreValue
<1>4. entry.values \in P
  <2> HIDE DEF P, S
  <2> QED  BY <1>1, <1>2, <1>3, ListInduction
<1> QED  BY <1>1, <1>4

\* Whatever is stored is stored again when the form that shows it is saved.
LEMMA RoundTrip ==
    ASSUME NEW many \in BOOLEAN, NEW stored \in Seq(Entry), Proper(stored, many)
    PROVE  toV2Headers(toHeaders(stored), many) = stored
<1> DEFINE Right(l) == toV2Headers(toHeaders(l), many) = l
           P == {l \in Seq(Entry) : Proper(l, many) => Right(l)}
<1>1. <<>> \in P
  <2>1. Right(<<>>)
    BY ShownFold, V2Fold
  <2> HIDE DEF Right
  <2> QED  BY <2>1, EmptyList
<1>2. ASSUME NEW l \in Seq(Entry), NEW e \in Entry, l \in P
      PROVE  Append(l, e) \in P
  <2> DEFINE new == Append(l, e)
             n == Len(l)
  <2>1. new \in Seq(Entry)
    BY OneElement
  <2> SUFFICES ASSUME Proper(new, many)
               PROVE  Right(new)
    <3> HIDE DEF Right
    <3> QED  BY <2>1
  <2>2. n \in Nat /\ DOMAIN l = 1..n /\ Lengthens(new, l, e)
    BY AppendedList, Indices
  <2> HIDE DEF new, n
  <2>3. /\ DOMAIN new = 1..(n + 1) /\ new[n + 1] = e
        /\ \A i \in 1..n : new[i] = l[i] /\ i \in 1..(n + 1) /\ i # n + 1
    BY <2>2, OneMore DEF Lengthens, n
  <2>4. n + 1 \in 1..(n + 1)
    BY <2>2, OneMore
  <2>5. Proper(l, many)
    BY <2>2, <2>3 DEF Proper
  <2>6. ~HasName(l, e.name)
    BY <2>2, <2>3, <2>4 DEF Proper, HasName
  <2>7. e.values # <<>> /\ (many \/ Len(e.values) = 1)
    BY <2>3, <2>4 DEF Proper
  <2>8. toV2Headers(toHeaders(l), many) = l
    BY <1>2, <2>5
  <2>9. toHeaders(l) \in Seq(Header)
    BY ShownType
  <2>10. Restores(toHeaders(l), e, many)
    BY <2>6, <2>7, <2>8, <2>9, EntryRestored
  <2>11. toHeaders(new) = toHeaders(l) \o Shown(e)
    BY ShownFold DEF new
  <2> QED  BY <2>8, <2>10, <2>11 DEF Restores, new
<1>3. stored \in P
  <2> HIDE DEF P
  <2> QED  BY <1>1, <1>2, ListInduction
<1> QED  BY <1>3

\* What a transport with headers stores: [host, mode] are those of the network.
WithHeaders(type, path, h, mode, headers) ==
    [type |-> type, path |-> path, host |-> h, headers |-> headers, mode |-> mode,
     serviceName |-> "", authority |-> "", multiMode |-> FALSE]

LEMMA StoredForm ==
    ASSUME NEW n \in {"tcp", "ws", "httpupgrade", "xhttp"}, NEW t, n = "tcp" => t.type = "http"
    PROVE  StoredTransport(n, t) =
             WithHeaders(IF n = "tcp" THEN "http" ELSE "none", t.path,
                         IF n = "tcp" THEN "" ELSE t.host,
                         IF n = "xhttp" THEN t.mode ELSE "auto", toV2Headers(t.headers, n = "tcp"))
<1>1. CASE n = "tcp"
  BY <1>1 DEF StoredTransport, StoredTcp, DefaultTransport, WithHeaders
<1>2. CASE n \in {"ws", "httpupgrade"}
  BY <1>2 DEF StoredTransport, StoredWs, StoredHTTPUpgrade, DefaultTransport, WithHeaders
<1>3. CASE n = "xhttp"
  BY <1>3 DEF StoredTransport, StoredWs, StoredXHTTP, DefaultTransport, WithHeaders
<1> QED  BY <1>1, <1>2, <1>3

HeadersAs(s, headers) == [s EXCEPT !.headers = headers]

LEMMA HeadersOnly ==
    ASSUME NEW S, NEW w \in S,
           NEW s \in [type: S, path: S, host: S, headers: S, mode: S,
                      serviceName: S, authority: S, multiMode: BOOLEAN]
    PROVE  HeadersAs(s, w) =
             [type |-> s.type, path |-> s.path, host |-> s.host, headers |-> w, mode |-> s.mode,
              serviceName |-> s.serviceName, authority |-> s.authority, multiMode |-> s.multiMode]
BY DEF HeadersAs

LEMMA OpenedForm ==
    ASSUME NEW type, NEW path, NEW h, NEW mode, NEW headers
    PROVE  OpenedTransport(WithHeaders(type, path, h, mode, headers)) =
             WithHeaders(type, path, h, mode, toHeaders(headers))
<1> DEFINE s == WithHeaders(type, path, h, mode, headers)
           w == toHeaders(headers)
           S == {type, path, h, mode, headers, w, ""}
<1>1. s.headers = headers /\ s \in [type: S, path: S, host: S, headers: S, mode: S,
                                   serviceName: S, authority: S, multiMode: BOOLEAN]
  BY DEF WithHeaders
<1>2. OpenedTransport(s) = HeadersAs(s, w)
  BY <1>1, Zenon DEF OpenedTransport, HeadersAs
<1>3. HeadersAs(s, w) =
        [type |-> s.type, path |-> s.path, host |-> s.host, headers |-> w, mode |-> s.mode,
         serviceName |-> s.serviceName, authority |-> s.authority, multiMode |-> s.multiMode]
  <2>1. w \in S
    OBVIOUS
  <2> HIDE DEF s, S, w
  <2> QED  BY <1>1, <2>1, HeadersOnly
<1>4. HeadersAs(s, w) = WithHeaders(type, path, h, mode, w)
  <2> HIDE DEF w
  <2> QED  BY <1>3 DEF WithHeaders
<1> QED  BY <1>2, <1>4

LEMMA StoredAgain ==
    ASSUME NEW n \in {"tcp", "ws", "httpupgrade", "xhttp"}, NEW t, n = "tcp" => t.type = "http",
           t.headers \in Seq(Header)
    PROVE  LET stored == StoredTransport(n, t)
           IN  /\ stored.headers = toV2Headers(t.headers, n = "tcp")
               /\ StoredTransport(n, OpenedTransport(stored)) = stored
<1> DEFINE many == n = "tcp"
           type == IF n = "tcp" THEN "http" ELSE "none"
           h == IF n = "tcp" THEN "" ELSE t.host
           mode == IF n = "xhttp" THEN t.mode ELSE "auto"
           headers == toV2Headers(t.headers, many)
           stored == WithHeaders(type, t.path, h, mode, headers)
           opened == WithHeaders(type, t.path, h, mode, toHeaders(headers))
<1>1. StoredTransport(n, t) = stored
  BY StoredForm
<1>2. many \in BOOLEAN
  OBVIOUS
<1>3. stored.headers = headers
  BY DEF WithHeaders
<1>4. OpenedTransport(stored) = opened
  <2> HIDE DEF type, h, mode, headers
  <2> QED  BY OpenedForm
<1>5. toV2Headers(toHeaders(headers), many) = headers
  <2> HIDE DEF many
  <2> QED  BY <1>2, V2Entries, V2Values, RoundTrip
<1>6. /\ opened.type = type /\ opened.path = t.path /\ opened.host = h /\ opened.mode = mode
      /\ opened.headers = toHeaders(headers)
  BY DEF WithHeaders
<1>7. StoredTransport(n, opened) =
        WithHeaders(type, opened.path, IF n = "tcp" THEN "" ELSE opened.host,
                    IF n = "xhttp" THEN opened.mode ELSE "auto", toV2Headers(opened.headers, many))
  <2>1. n = "tcp" => opened.type = "http"
    BY <1>6
  <2> HIDE DEF opened
  <2> QED  BY <2>1, StoredForm
<1>8. (IF n = "tcp" THEN "" ELSE opened.host) = h /\ (IF n = "xhttp" THEN opened.mode ELSE "auto") = mode
  BY <1>6
<1>9. StoredTransport(n, opened) = stored
  <2> HIDE DEF opened, many, type, h, mode, headers
  <2> QED  BY <1>5, <1>6, <1>7, <1>8 DEF stored
<1> HIDE DEF stored, opened
<1> QED  BY <1>1, <1>3, <1>4, <1>9

\* The headers of every form survive its save on every transport that has them.
THEOREM HeadersRoundTrip == Spec => []HeadersSurvive
<1>1. IInv => HeadersSurvive
  <2> SUFFICES ASSUME IInv, Exists(row), "headers" \in FieldsOf(row.network), NEW f \in Form
               PROVE  LET t == [f.t EXCEPT !.type = "http"]
                          stored == StoredTransport(row.network, t)
                          again == StoredTransport(row.network, OpenedTransport(stored))
                      IN  /\ again = stored
                          /\ \A i \in DOMAIN t.headers :
                               LET name == t.headers[i].name
                                   all == Entered(t.headers, name)
                               IN  name # "" =>
                                     StoredValues(stored.headers, name) =
                                        IF row.network = "tcp" \/ all = <<>> THEN all
                                        ELSE <<Last(all)>>
    BY Zenon DEF HeadersSurvive
  <2> DEFINE n == row.network
             t == [f.t EXCEPT !.type = "http"]
             stored == StoredTransport(n, t)
             many == n = "tcp"
  <2>1. n \in {"tcp", "ws", "httpupgrade", "xhttp"}
    <3>1. row \in Inbound
      BY ExistingRow DEF IInv, TypeOK
    <3>2. n \in Networks
      BY <3>1, EditorAssumption DEF Inbound, Fields
    <3>3. "headers" \notin FieldsOf("grpc") /\ "headers" \notin FieldsOf("kcp")
      BY DEF FieldsOf
    <3> QED  BY <3>2, <3>3 DEF Networks
  <2>2. t.type = "http" /\ t.headers \in Seq(Header)
    <3>1. f.t \in Transport
      BY FormAssumption
    <3> QED  BY <3>1 DEF Transport, Header
  <2> HIDE DEF n, t
  <2>3. stored.headers = toV2Headers(t.headers, many) /\ StoredTransport(n, OpenedTransport(stored)) = stored
    BY <2>1, <2>2, StoredAgain
  <2>4. ASSUME NEW name, name # ""
        PROVE  StoredValues(toV2Headers(t.headers, many), name) = Kept(Entered(t.headers, name), many)
    <3>1. many \in BOOLEAN
      OBVIOUS
    <3> HIDE DEF many
    <3> QED  BY <2>2, <2>4, <3>1, V2Values
  <2>5. \A i \in DOMAIN t.headers :
          t.headers[i].name # "" =>
             StoredValues(stored.headers, t.headers[i].name) =
                IF n = "tcp" \/ Entered(t.headers, t.headers[i].name) = <<>>
                THEN Entered(t.headers, t.headers[i].name)
                ELSE <<Last(Entered(t.headers, t.headers[i].name))>>
    <3> HIDE DEF stored
    <3> QED  BY <2>3, <2>4, Zenon DEF Kept
  <2> QED  BY <2>3, <2>5, Zenon DEF n, t
<1> QED  BY <1>1, Invariant, PTL
=============================================================================
