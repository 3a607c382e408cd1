------------------------------- MODULE Tunnel -------------------------------
(***************************************************************************)
(* A tunnel of the panel: the AmneziaWG server of web/service/             *)
(* awg_service.go, and its twin wg_service.go.  The database holds the     *)
(* server and its clients, the kernel an interface with a peer for each    *)
(* client that is switched on.  Requests change the database and apply it: *)
(* they read the clients, write a configuration and load it.  A job stores *)
(* the counters of the peers and enforces quotas and expiries.  Nothing    *)
(* locks: a step is a query or a command, with what the code decides on    *)
(* its result.                                                             *)
(*                                                                         *)
(* A client stands for its key pair, so one that is deleted is not added   *)
(* again.  Its upload and download are one counter.                        *)
(***************************************************************************)
EXTENDS Naturals, FiniteSets

CONSTANTS
    Client,      \* key pairs
    Handler,     \* requests that can be under way at once
    Nets,        \* what a page posts as the server's addresses: its own and the pool
    DefaultNet,  \* those of a new server
    Quota,       \* per client: total_gb, 0 for none
    Renews,      \* per client: reset > 0
    Lifetime,    \* per client: its expiry when it is added
    MaxTraffic,  \* bound: units a client transfers
    MaxEvents,   \* bound: requests, expiries and faults
    MaxFaults    \* bound: commands that fail, crashes and reboots

ASSUME TunnelAssumption ==
    /\ IsFiniteSet(Client) /\ "job" \notin Handler
    /\ Nets \subseteq [own: Nat, pool: SUBSET Nat] /\ DefaultNet \in Nets
    /\ Quota \in [Client -> Nat] /\ Renews \in [Client -> BOOLEAN]
    /\ Lifetime \in [Client -> {"none", "delayed", "ahead"}]
    /\ MaxTraffic \in Nat /\ MaxEvents \in Nat /\ MaxFaults \in Nat

VARIABLES
    enabled,  \* AwgServer.Enable
    net,      \* AwgServer.IPv4Address and IPv4Pool, as host numbers
    db,       \* the clients' rows
    up,       \* the interface is up
    peers,    \* its peers
    counter,  \* their counters, 0 for who is no peer
    op,       \* what each request and the job will do next
    carried,  \* history: units a client transferred
    wiped,    \* history: clients whose stored counter was set to 0
    born,     \* history: clients that were ever added
    crossed,  \* history: two additions overlapped, or a deleted row came back
    moved,    \* history: the server was given other addresses
    solo,     \* history: the operation under way has been the only one
    settled,  \* history: the last operation that mattered was one, and applied
    events, faults

kernel == <<up, peers, counter>>
server == <<enabled, net, kernel>>
histories == <<wiped, born, crossed, moved>>
bounds == <<events, faults>>
vars == <<server, db, op, carried, histories, solo, settled, bounds>>

Proc == Handler \cup {"job"}
Units == 0 .. MaxTraffic

\* all is all_time, into which the same units may be counted after each reset.
Addr == UNION {n.pool : n \in Nets}
Row == [enable: BOOLEAN, addr: Addr, used: Units, all: Nat,
        expiry: {"none", "delayed", "ahead", "passed"}]
NoRow == [enable |-> FALSE]
HasRow(c) == db[c] # NoRow

\* at names the next step.  on is server.Enable as it was read, c and row are a
\* client and what will be stored of it; when all go, reset tells ResetToDefaults
\* from DeleteAllClients, and how what became of the interface; for a
\* configuration, on is the peers that were read; for the job, the peers, their
\* counters and the rows.
Idle == [at |-> "idle"]
Op == {Idle}
      \cup [at: {"boot", "server", "enable", "read", "down", "enforce"}]
      \cup [at: {"stop"}, reset: BOOLEAN]
      \cup [at: {"clear", "off"}, reset: BOOLEAN, how: {"untouched", "down", "failed"}]
      \cup [at: {"create"}, on: BOOLEAN, c: Client, row: Row]
      \cup [at: {"lookup", "save"}, c: Client, row: Row]
      \cup [at: {"drop"}, on: BOOLEAN, c: Client]
      \cup [at: {"load"}, on: SUBSET Client]
      \cup [at: {"clients"}, seen: SUBSET Client, counts: [Client -> Units]]
      \cup [at: {"count"}, seen: SUBSET Client, counts: [Client -> Units],
            rows: [Client -> Row \cup {NoRow}]]

TypeOK ==
    /\ enabled \in BOOLEAN /\ net \in Nets /\ up \in BOOLEAN /\ peers \in SUBSET Client
    /\ db \in [Client -> Row \cup {NoRow}]
    /\ counter \in [Client -> Units] /\ carried \in [Client -> Units]
    /\ op \in [Proc -> Op]
    /\ wiped \in SUBSET Client /\ born \in SUBSET Client
    /\ crossed \in BOOLEAN /\ moved \in BOOLEAN
    /\ solo \in BOOLEAN /\ settled \in BOOLEAN
    /\ events \in 0 .. MaxEvents /\ faults \in 0 .. MaxFaults

Init ==
    /\ enabled = FALSE /\ net = DefaultNet /\ up = FALSE /\ peers = {}
    /\ counter = [c \in Client |-> 0] /\ carried = [c \in Client |-> 0]
    /\ db = [c \in Client |-> NoRow]
    /\ op = [p \in Proc |-> Idle]
    /\ wiped = {} /\ born = {} /\ crossed = FALSE /\ moved = FALSE
    /\ solo = TRUE /\ settled = TRUE
    /\ events = 0 /\ faults = 0

-----------------------------------------------------------------------------
(* Operations.                                                             *)

Quiet == \A p \in Proc : op[p] = Idle

Begin(p, o) ==
    /\ op[p] = Idle
    /\ op' = [op EXCEPT ![p] = o] /\ solo' = Quiet /\ UNCHANGED settled

Go(p, o) == op' = [op EXCEPT ![p] = o] /\ UNCHANGED <<solo, settled>>

\* An operation ends: it applied what it did, could not, or had nothing to apply.
End(p) == op' = [op EXCEPT ![p] = Idle] /\ UNCHANGED solo
Applied(p) == End(p) /\ settled' = solo
NotApplied(p) == End(p) /\ settled' = FALSE
Unapplied(p) == End(p) /\ settled' = (settled /\ solo)

Counted == events < MaxEvents /\ events' = events + 1
Event == Counted /\ UNCHANGED faults
Fault == Counted /\ faults < MaxFaults /\ faults' = faults + 1

\* applyServerConfig, if the server is or was enabled.
Apply(p, on) == IF on THEN Go(p, [at |-> "read"]) ELSE Unapplied(p)

-----------------------------------------------------------------------------
(* applyServerConfig: the clients are read, the configuration is written   *)
(* and loaded.  Both write the same file, whose content only the load      *)
(* after it uses.                                                          *)

ReadClients(p) ==
    /\ op[p].at = "read"
    /\ Go(p, [at |-> "load", on |-> {c \in Client : db[c].enable}])
    /\ UNCHANGED <<server, db, carried, histories, bounds>>

\* awg syncconf keeps the counters of the peers it keeps.
SyncConfig(p) ==
    /\ op[p].at = "load" /\ up
    /\ peers' = op[p].on
    /\ counter' = [c \in Client |-> IF c \in peers' THEN counter[c] ELSE 0]
    /\ Applied(p)
    /\ UNCHANGED <<enabled, net, up, db, carried, histories, bounds>>

InterfaceUp(p) ==
    /\ up' = TRUE /\ peers' = op[p].on
    /\ counter' = [c \in Client |-> 0]
    /\ Applied(p)
    /\ UNCHANGED <<enabled, net, db, carried, histories>>

Start(p) == op[p].at = "load" /\ ~up /\ InterfaceUp(p) /\ UNCHANGED bounds

\* strip or syncconf failed: RestartInterface.
Restart(p) == op[p].at = "load" /\ up /\ Fault /\ InterfaceUp(p)

InterfaceDown == up' = FALSE /\ peers' = {} /\ counter' = [c \in Client |-> 0]

\* The configuration is not written, or awg-quick up fails after the interface
\* was taken down; the callers log it.
StartFails(p) ==
    /\ op[p].at = "load" /\ Fault
    /\ InterfaceDown \/ UNCHANGED kernel
    /\ NotApplied(p)
    /\ UNCHANGED <<enabled, net, db, carried, histories>>

-----------------------------------------------------------------------------
(* The server.                                                             *)

Stopping == [at |-> "down"]

toggleServer(p) ==
    /\ Event
    /\ \E on \in BOOLEAN :
         enabled' = on /\ Begin(p, IF on THEN [at |-> "read"] ELSE Stopping)
    /\ UNCHANGED <<net, kernel, db, carried, histories>>

Stop(p) ==
    /\ op[p].at = "down"
    /\ InterfaceDown /\ Applied(p)
    /\ UNCHANGED <<enabled, net, db, carried, histories, bounds>>

\* awg-quick down failed; the server stays disabled.
StopFails(p) ==
    /\ op[p].at = "down" /\ Fault
    /\ NotApplied(p)
    /\ UNCHANGED <<server, db, carried, histories>>

\* The addresses of the server and its pool.
Renumber(n) == net' = n /\ moved' = (moved \/ n # net)

\* A page posts the settings it was opened with, Enable among them, and the
\* addresses it was given.  Enable is stored, and nothing else done when it is off.
SaveServer(p) ==
    /\ Event
    /\ \E n \in Nets : Renumber(n)
    /\ \/ enabled' = TRUE /\ Begin(p, [at |-> "read"])
       \/ /\ enabled' = FALSE /\ op[p] = Idle
          /\ solo' = Quiet /\ settled' = (settled /\ Quiet /\ ~enabled)
          /\ UNCHANGED op
    /\ UNCHANGED <<kernel, db, carried, wiped, born, crossed>>

\* DeleteAllClients and ResetToDefaults: the interface goes down if the server
\* was enabled, then the clients go, then the server is disabled and, by a
\* reset, given its first addresses.
deleteAll(p) ==
    /\ Event
    /\ \E reset \in BOOLEAN :
         Begin(p, IF enabled THEN [at |-> "stop", reset |-> reset]
                             ELSE [at |-> "clear", reset |-> reset, how |-> "untouched"])
    /\ UNCHANGED <<server, db, carried, histories>>

\* Whether awg-quick down fails is not looked at.
DeleteAllStop(p) ==
    /\ op[p].at = "stop"
    /\ \/ InterfaceDown /\ UNCHANGED bounds
          /\ Go(p, [at |-> "clear", reset |-> op[p].reset, how |-> "down"])
       \/ UNCHANGED kernel /\ Fault
          /\ Go(p, [at |-> "clear", reset |-> op[p].reset, how |-> "failed"])
    /\ UNCHANGED <<enabled, net, db, carried, histories>>

DeleteAllRows(p) ==
    /\ op[p].at = "clear"
    /\ db' = [c \in Client |-> NoRow] /\ Go(p, [op[p] EXCEPT !.at = "off"])
    /\ UNCHANGED <<server, carried, histories, bounds>>

DisableServer(p) ==
    /\ op[p].at = "off"
    /\ enabled' = FALSE
    /\ IF op[p].reset THEN Renumber(DefaultNet) ELSE UNCHANGED <<net, moved>>
    /\ \/ op[p].how = "down" /\ Applied(p)
       \/ op[p].how = "untouched" /\ Unapplied(p)
       \/ op[p].how = "failed" /\ NotApplied(p)
    /\ UNCHANGED <<kernel, db, carried, wiped, born, crossed, bounds>>

\* No keys are generated for the reset: the server stays as it is.
ResetFails(p) ==
    /\ op[p].at = "off" /\ op[p].reset /\ Fault
    /\ NotApplied(p)
    /\ UNCHANGED <<server, db, carried, histories>>

\* StartIfEnabled, when the panel starts.
StartIfEnabled(p) ==
    /\ op[p].at = "boot"
    /\ Apply(p, enabled /\ ~up)
    /\ UNCHANGED <<server, db, carried, histories, bounds>>

-----------------------------------------------------------------------------
(* Clients.                                                                *)

Taken(rows) == {rows[c].addr : c \in {d \in Client : rows[d] # NoRow}}

\* The addresses a client can be given.
Free == net.pool \ {net.own}

\* Variant: the addresses of clients that are switched off count as free.
AllocateIPv4OverOff(rows, a) ==
    /\ a \in Free /\ \A c \in Client : rows[c].enable => rows[c].addr # a
    /\ \A b \in Free : b < a => \E c \in Client : rows[c].enable /\ rows[c].addr = b

\* Variant: the address of the server counts as free.
AllocateIPv4WithServer(rows, a) ==
    /\ a \in net.pool \ Taken(rows)
    /\ \A b \in net.pool : b < a => b \in Taken(rows)

\* a is the first address of the pool that neither the server nor a row has.
AllocateIPv4(rows, a) ==
    /\ a \in Free \ Taken(rows)
    /\ \A b \in Free : b < a => b \in Taken(rows)

Creating == \E p \in Proc : op[p].at = "create"

addClient(p) ==
    /\ Event
    /\ \E c \in Client \ born, a \in net.pool :
         /\ AllocateIPv4(db, a)
         /\ Begin(p, [at |-> "create", on |-> enabled, c |-> c,
                      row |-> [enable |-> TRUE, addr |-> a, used |-> 0, all |-> 0,
                               expiry |-> Lifetime[c]]])
         /\ born' = born \cup {c}
    /\ crossed' = (crossed \/ Creating)
    /\ UNCHANGED <<server, db, carried, wiped, moved>>

Create(p) ==
    /\ op[p].at = "create"
    /\ db' = [db EXCEPT ![op[p].c] = op[p].row]
    /\ Go(p, [at |-> IF op[p].on THEN "read" ELSE "enable"])
    /\ UNCHANGED <<server, carried, histories, bounds>>

AutoEnable(p) ==
    /\ op[p].at = "enable"
    /\ enabled' = TRUE /\ Go(p, [at |-> "read"])
    /\ UNCHANGED <<net, kernel, db, carried, histories, bounds>>

\* A page fetches a row and posts it whole with its own changes (lookup); a
\* toggle reads it in the same request (save).
openClient(p) ==
    /\ Event
    /\ \E c \in Client, on \in BOOLEAN, at \in {"lookup", "save"} :
         /\ HasRow(c)
         /\ Begin(p, [at |-> at, c |-> c, row |-> [db[c] EXCEPT !.enable = on]])
    /\ UNCHANGED <<server, db, carried, histories>>

UpdateClientByUUID(p) ==
    /\ op[p].at = "lookup"
    /\ IF HasRow(op[p].c) THEN Go(p, [op[p] EXCEPT !.at = "save"]) ELSE Unapplied(p)
    /\ UNCHANGED <<server, db, carried, histories, bounds>>

\* Save updates a row or, when there is none with its id, inserts it.
UpdateClient(p) ==
    /\ op[p].at = "save"
    /\ db' = [db EXCEPT ![op[p].c] = op[p].row]
    /\ crossed' = (crossed \/ ~HasRow(op[p].c))
    /\ Go(p, [at |-> "server"])
    /\ UNCHANGED <<server, carried, wiped, born, moved, bounds>>

\* Variant: a change of a client is left to the next configuration.
GetServerNotApplied(p) ==
    /\ op[p].at = "server" /\ Unapplied(p)
    /\ UNCHANGED <<server, db, carried, histories, bounds>>

GetServer(p) ==
    /\ op[p].at = "server" /\ Apply(p, enabled)
    /\ UNCHANGED <<server, db, carried, histories, bounds>>

deleteClient(p) ==
    /\ Event
    /\ \E c \in Client : HasRow(c) /\ Begin(p, [at |-> "drop", on |-> enabled, c |-> c])
    /\ UNCHANGED <<server, db, carried, histories>>

DeleteClient(p) ==
    /\ op[p].at = "drop"
    /\ db' = [db EXCEPT ![op[p].c] = NoRow]
    /\ Apply(p, op[p].on)
    /\ UNCHANGED <<server, carried, histories, bounds>>

ResetClientTraffic(c) ==
    /\ Event /\ HasRow(c)
    /\ db' = [db EXCEPT ![c].used = 0] /\ wiped' = wiped \cup {c}
    /\ UNCHANGED <<server, op, carried, born, crossed, moved, solo, settled>>

\* The periodic reset switches clients with a quota on; its second query, which
\* has no condition, is refused by the library, so that counters stay and
\* nothing is applied.
ResetAllClientTraffics ==
    LET again == {c \in Client : /\ HasRow(c) /\ ~db[c].enable /\ Quota[c] > 0
                                 /\ db[c].expiry \in {"none", "ahead"}}
    IN  /\ Event /\ again # {}
        /\ db' = [c \in Client |-> IF c \in again THEN [db[c] EXCEPT !.enable = TRUE] ELSE db[c]]
        /\ solo' = FALSE /\ settled' = FALSE
        /\ UNCHANGED <<server, op, carried, histories>>

-----------------------------------------------------------------------------
(* The traffic job.                                                        *)

UpdateTrafficStats(p) ==
    /\ p = "job" /\ enabled /\ up
    /\ Begin(p, [at |-> "clients", seen |-> peers, counts |-> counter])
    /\ UNCHANGED <<server, db, carried, histories, bounds>>

FindClients(p) ==
    /\ op[p].at = "clients"
    /\ Go(p, [at |-> "count", seen |-> op[p].seen, counts |-> op[p].counts, rows |-> db])
    /\ UNCHANGED <<server, db, carried, histories, bounds>>

\* Variant: a counter of the kernel is added as if it were what is new.
StoredWhole(now, was, n) == [now EXCEPT !.used = n, !.all = was.all + n]

\* The counter of a peer is stored as it is, and what is new of it in all_time;
\* was is the row as the job read it, now as it is.
Stored(now, was, n) ==
    IF n = was.used THEN now
    ELSE [now EXCEPT !.used = n, !.all = was.all + (IF n > was.used THEN n - was.used ELSE 0)]

Count(p) ==
    LET o == op[p]
    IN  /\ o.at = "count"
        /\ db' = [c \in Client |->
                    IF c \in o.seen /\ o.rows[c] # NoRow /\ HasRow(c)
                    THEN Stored(db[c], o.rows[c], o.counts[c]) ELSE db[c]]
        /\ Go(p, [at |-> "enforce"])
        /\ UNCHANGED <<server, carried, histories, bounds>>

autoRenew(c, r) ==
    IF Renews[c] /\ r.expiry = "passed"
    THEN [r EXCEPT !.expiry = "ahead", !.used = 0, !.enable = TRUE] ELSE r

adjustDelayedStart(r) ==
    IF r.enable /\ r.expiry = "delayed" /\ r.used > 0 THEN [r EXCEPT !.expiry = "ahead"] ELSE r

Exhausted(c, r) == (Quota[c] > 0 /\ r.used >= Quota[c]) \/ r.expiry = "passed"
disableInvalid(c, r) == IF r.enable /\ Exhausted(c, r) THEN [r EXCEPT !.enable = FALSE] ELSE r

\* Variant: only a client that comes back needs a new configuration.
ReconfigForRenewed(c, r) == ~r.enable /\ autoRenew(c, r).enable

\* A client comes back, or goes: renewed and disabled in one run, both.
Reconfig(c, r) ==
    LET renewed == autoRenew(c, r)
        adjusted == adjustDelayedStart(renewed)
    IN  renewed.enable # r.enable \/ disableInvalid(c, adjusted) # adjusted

\* Three statements that follow one another at once.
Enforce(p) ==
    /\ op[p].at = "enforce"
    /\ db' = [c \in Client |->
                IF HasRow(c) THEN disableInvalid(c, adjustDelayedStart(autoRenew(c, db[c])))
                             ELSE NoRow]
    /\ wiped' = wiped \cup {c \in Client : HasRow(c) /\ Renews[c] /\ db[c].expiry = "passed"}
    /\ Apply(p, \E c \in Client : HasRow(c) /\ Reconfig(c, db[c]))
    /\ UNCHANGED <<server, carried, born, crossed, moved, bounds>>

-----------------------------------------------------------------------------
(* The rest of the world.                                                  *)

Carry(c) ==
    /\ up /\ c \in peers /\ carried[c] < MaxTraffic
    /\ carried' = [carried EXCEPT ![c] = @ + 1]
    /\ counter' = [counter EXCEPT ![c] = @ + 1]
    /\ UNCHANGED <<enabled, net, up, peers, db, op, histories, solo, settled, bounds>>

Expire(c) ==
    /\ Event /\ HasRow(c) /\ db[c].expiry = "ahead"
    /\ db' = [db EXCEPT ![c].expiry = "passed"]
    /\ UNCHANGED <<server, op, carried, histories, solo, settled>>

\* The panel is killed, and the machine with it or not; then it starts.
Crash ==
    /\ Fault
    /\ op' = [p \in Proc |-> IF p = "job" THEN [at |-> "boot"] ELSE Idle]
    /\ solo' = TRUE
    /\ \/ InterfaceDown /\ settled' = FALSE
       \/ UNCHANGED kernel /\ settled' = (settled /\ Quiet)
    /\ UNCHANGED <<enabled, net, db, carried, histories>>

Step(p) ==
    \/ ReadClients(p) \/ SyncConfig(p) \/ Start(p) \/ Restart(p) \/ StartFails(p)
    \/ Stop(p) \/ StopFails(p) \/ StartIfEnabled(p)
    \/ DeleteAllStop(p) \/ DeleteAllRows(p) \/ DisableServer(p) \/ ResetFails(p)
    \/ Create(p) \/ AutoEnable(p) \/ UpdateClientByUUID(p) \/ UpdateClient(p)
    \/ GetServer(p) \/ DeleteClient(p)
    \/ FindClients(p) \/ Count(p) \/ Enforce(p)

Request(p) ==
    \/ toggleServer(p) \/ SaveServer(p) \/ deleteAll(p)
    \/ addClient(p) \/ openClient(p) \/ deleteClient(p)

Next ==
    \/ \E p \in Handler : Request(p)
    \/ \E p \in Proc : Step(p) \/ UpdateTrafficStats(p)
    \/ \E c \in Client : ResetClientTraffic(c) \/ Carry(c) \/ Expire(c)
    \/ ResetAllClientTraffics \/ Crash

\* The cron starts the job every ten seconds, and what runs goes on.
Spec == /\ Init /\ [][Next]_vars
        /\ WF_vars(UpdateTrafficStats("job") \/ Step("job"))

-----------------------------------------------------------------------------

\* Two clients share an address only if two additions overlapped, or a client was
\* deleted while a copy of its row was waiting to be stored: then the kernel
\* takes the traffic of one for the other's (AddClient, UpdateClient).
AddressesDiffer ==
    ~crossed => \A c, d \in Client :
        HasRow(c) /\ HasRow(d) /\ c # d => db[c].addr # db[d].addr

\* Until the server is given other addresses, every client has one of the pool that
\* is not the server's, a client whose row is stored again included (AllocateIPv4).
ServerApart == ~moved => \A c \in Client : HasRow(c) => db[c].addr \in Free

\* After an operation that ran alone and whose commands succeeded, the kernel has
\* exactly the clients that are switched on, and none when the server is disabled
\* (applyServerConfig and its callers).  A server disabled by a post of its
\* settings is not settled: SaveServer applies nothing then.
Settles ==
    settled /\ Quiet =>
        IF enabled THEN up /\ peers = {c \in Client : db[c].enable} ELSE ~up

\* No unit is counted twice in all_time, through restarts of the interface and
\* stale rows, until a counter is set back (UpdateTrafficStats).
NoOvercount ==
    \A c \in Client \ wiped : HasRow(c) => db[c].all <= carried[c]

\* A client whose quota or time is used up is cut off, once the panel is left
\* alone in a settled state (disableInvalidClients).
CutOff ==
    \A c \in Client :
        <>[](settled /\ enabled /\ HasRow(c) /\ Exhausted(c, db[c])) => <>[](c \notin peers)
=============================================================================
