# 3ax-ui: a TLA+ model of the panel

3ax-ui is a Go web panel that supervises an `xray-core` process, keeps the
clients of its inbounds in a SQLite database, accounts their traffic, cuts off
and renews them, and manages AmneziaWG and WireGuard servers beside it. What
can go wrong in it is mostly a matter of order: cron jobs, HTTP handlers, the
Telegram bot and signals all act on one process and one database, and there is
one mutex in the whole of it. Its pages show copies of that database, edit them
and post them back whole. This directory holds TLA+ modules of that
behaviour, TLC configurations that check them on small instances, and proofs
for TLAPS.

Tools: TLC with the community modules, and TLAPS (SMT = Z3, Zenon, LS4).

    tlc -config XraySupervise.cfg MCXrayService.tla
    tlc -config DatabaseImport.cfg PanelDatabase.tla
    tlc -config InboundEditor.cfg MCInboundEditor.tla
    tlapm PanelDatabaseProofs.tla

## 1. Inventory

Paths are relative to `src/`.

| component | state | operations | with whom | what is hard |
|---|---|---|---|---|
| xray supervision: `web/service/xray.go`, `xray/process.go`, `web/job/check_xray_running_job.go`, `web/web.go`, `main.go` | globals `p`, `lock`, `isNeedXrayRestart`, `isManuallyStopped`; the OS process; the crash check's `checkTime` | `RestartXray`, `StopXray`, `Process.Start/Stop`, the crash check (1 s), the restart job (30 s), start-up, `Server.Stop`, SIGHUP reload | everybody asks it for a restart; it reads the database | overlapping callers, a stop racing a restart, asynchronous fork, finalizer, shutdown |
| client traffic: `web/service/inbound.go`, `web/job/xray_traffic_job.go` | `inbounds.settings` (JSON), `client_traffics`, the core's users and counters | `AddTraffic` (count, renew, disable), client handlers, resets, `DelDepletedClients`, `UpdateInbound` | over the API with the core, with supervision through `SetToNeedRestart` | three copies of the truth, no transaction around most handlers, read-modify-write of JSON |
| xray API client: `xray/api.go` | connection | `AddUser`, `RemoveUser`, `AddInbound`, `DelInbound`, `GetTraffic` | the core | timeouts; "reset on read" counters |
| websocket hub: `web/websocket/hub.go`, `web/controller/websocket.go` | client set, three channels, per-client send buffer | register, unregister, broadcast, two pumps per client | jobs broadcast to it | bounded queues in a cycle, double removal |
| database import: `ImportDB` in `web/service/server.go` | database file, fallback file, open connection | stop, close, rename, rename, open, migrate, restart | supervision | a crash or an error between any two steps |
| AmneziaWG and WireGuard: `web/service/awg_service.go`, `wg_service.go`, `awg/`, `wg/` | server row, client rows, kernel peers | add, edit, toggle, traffic job, renew, disable, reset | kernel interface | the same life cycle as above, without shared code |
| address allocation: `shared/ipam/ipam.go` | none | `AllocateIPv4`, `AllocateIPv6` | tunnel services | integer widths, exhausted pools |
| client IP limit: `web/job/check_client_ip_job.go` | IPs seen per client, ban log | merge, trim, disconnect | supervision, fail2ban | ages and limits over several runs |
| LDAP sync: `web/job/ldap_sync_job.go` | none of its own | create, delete, enable clients | client handlers | partial failure in a batch |
| outbound test: `web/service/outbound.go` | `testSemaphore` | a temporary xray | `xray/process.go` | TryLock, clean-up |
| database start-up: `database/db.go` | `history_of_seeders` | migrations, password seeder | boot | crash before the record is written |
| front end, live data: `web/assets/js/websocket.js`, `web/html/index.html`, `web/html/inbounds.html` | socket, `reconnectAttempts`, timers, polling intervals, what is shown | `connect`, its callbacks, the fallbacks that poll | the hub, the HTTP API | no lock but the event loop: every `await` lets others in; nobody cancels an older request |
| front end, inbounds: `web/assets/js/model/inbound.js`, `outbound.js`, `dbinbound.js`, `web/html/modals/` | the page's copy of the rows, the draft of a dialog | choose protocol, network, security, flow, method; save; copy a link, read one | posts whole rows to the client handlers | choices that depend on each other in any order; stale copies; two formats of one link |
| login, settings, subscriptions, bot dialogue, log rotation, other pages | rows, sessions, files | sequential reads and writes | - | none of them concurrent by design |

What makes each part correct, in the order of importance:

1. *Supervision*: at most one xray that anybody can still reach; down means
   restarted unless stopped by hand; stopped by hand means stopped; a request
   for a restart has its effect; a panel that exits leaves nothing behind.
2. *Client traffic*: nothing is charged twice; each pass of the job leaves no
   exhausted or expired client enabled; the core admits exactly the clients the
   database entitles, or a restart is pending; expired clients with a renewal
   period come back; deleting and adding leave no orphans.
3. *Websocket hub*: no send on a closed channel, nobody waits for ever,
   a disconnected client disappears.
4. *Import*: after any crash or error there is a database that is the old or
   the new one, and the panel serves from it.
5. *Tunnels and addresses*: no address twice; a client that is disabled is
   not a peer; counters are not overwritten by stale copies.
6. *Live data*: one connection per page; a page that cannot connect polls; what it
   shows ends up as the server has it.
7. *Inbounds and links*: no order of choices stores a stream xray refuses; only a
   stale copy loses clients or counters; a link is read back as what it was meant to
   say.

## 2. Plan

| order | modules | status |
|---|---|---|
| 1 | `XrayService`, `MCXrayService`, `XrayServiceProofs` | done |
| 2 | `ClientTraffic`, `MCClientTraffic`, `ClientTrafficProofs`, `TrafficSyncProofs` | done; AddInbound, DelInbound and SetClientTelegramUserID left out |
| 3 | `WsHub`, `WsHubProofs` | done |
| 4 | `PanelDatabase`, `DatabaseSwap`, `PanelDatabaseProofs` | done |
| 5 | `Tunnel`, `MCTunnel`, `TunnelProofs`: the AmneziaWG service query by query, against the peers of the kernel | done; edits of quota and expiry left out |
| 6 | `PageClient`, `PageClientProofs`: the WebSocket client of a page and its fallbacks | done |
| 7 | `ShareLink`, `InboundEditor`, `MCInboundEditor`, `InboundEditorProofs`: links, stream settings and the dialogs over them | done; protocols without a stream left out |
| 8 | `Ipam`: `AllocateIPv6` with its integer widths against a reference definition (`AllocateIPv4` is in `Tunnel`) | left |
| 9 | `ClientIpLimit`: the merge and trim of `check_client_ip_job.go` over several runs | left |
| 10 | LDAP sync and the outbound test, on top of `ClientTraffic` and `XrayService` | left |

`ClientTraffic` composes with `XrayService` by abstraction: its `RestartXray`
is the two observable steps of one call that has the mutex, and the set of
calls that may overlap with it is what `XrayService` shows to be possible.

Abstract specifications: `DatabaseSwap` says what an import promises, and
`PanelDatabase` is proved to implement it. What a tunnel promises, "the
peers of the kernel are the enabled clients", is the invariant `Settles`. Section 6
lists the theorems and what stays with TLC.

`PageClient` and `WsHub` are the two ends of one connection: what `WsHub` does to a
client that leaves is the `Breaks` of `PageClient`, and the order in which the page
gets its copies is `PageClient`'s matter, so that `InboundEditor` lets a copy arrive
at any time (`Refresh`). `InboundEditor` extends `ShareLink`, whose operators have
no state.

## 3. Modules and the code

The map from each definition to its lines is in `PROJECT.json`. Operators called
"Variant" in a comment are plausible mistakes (a missing mutex, a dropped
guard); no specification uses them. They are there so that each property can
be seen to fail: put one in the place of the definition that follows it.

### XrayService

One mutex, four globals and the processes behind them.

| state | code |
|---|---|
| `p`, `lock`, `need`, `manual` | `p`, `lock`, `isNeedXrayRestart`, `isManuallyStopped` of `web/service/xray.go` |
| `os` | `cmd.Process` / `cmd.ProcessState` of `xray/process.go`: not there, forked later by the goroutine of `Start`, running, told to stop |
| `conf`, `live`, `want` | `p.GetConfig()`, the users the process admits after API calls, what `GetXrayConfig` would generate now |
| `checkTime` | `CheckXrayRunningJob.checkTime`; the code's int only matters as 0, 1, more |
| `pc`, `kind`, `snap` | per goroutine: its place in `RestartXray`, who called it, its `xrayConfig` |
| `phase` | `startTask` → serving → `Server.Stop` → cron stopped → program gone (`main.go`) |

`RestartXray` is cut where another goroutine can see the difference: waiting for
the mutex, `GetXrayConfig`, the decision with `Stop`, `NewProcess` with `Start`,
and the return. `Start` returns while its goroutine may not have forked yet; with
`EagerSpawn = TRUE` the fork is over first, which the version query between
the two makes likely but nothing ensures. `Finalize` is the finalizer of the
`Process` wrapper. A configuration is the set of clients it admits, which is
all that `Equals` and the API can disagree about here. External (modelled from
its use): the xray binary and the operating system.

### ClientTraffic

The clients of one inbound, in the three places where they live.

| state | code |
|---|---|
| `settings` | the `clients` of `inbounds.settings`: absent, switched off, switched on |
| `rows` | `client_traffics`: `enable`, `up + down`, `expiry_time`; `NoRow` |
| `inbOn` | `inbounds.enable` |
| `core`, `conf`, `ctr`, `seen` | the running xray: users admitted, configuration it was started with, traffic counters since the last query |
| `need` | `isNeedXrayRestart` |
| `job`, `rs`, `hd` | what the traffic job, a `RestartXray` and each handler have read and not yet written |
| `carried` | history only: what the core carried in all, for `NoOvercount` |

`AddTraffic` is one operator, in the order of the code: count, start delayed
clocks, renew (with `AddUser`), disable (with `RemoveUser`), close expired
inbounds (with `DelInbound`). SQLite has one writer at a time, so a transaction is
one step; whatever a handler reads before it is a step of its own, and
`DelInboundClient`, which has no transaction, is two, and `DelDepletedClients` reads
before its transaction and deletes the inbound if no client is left. An API call fails when
nothing answers, or (with `Flaky`) when it times out; the core then keeps what
it had. Of the two calls of an edit, removal and addition, each fails for itself. A page
saved with a client whose row is already there is rolled back as a whole (`Rejected`).
Time is in days, traffic in units, a quota or period of 0 is "none",
and a negative lifetime is one that starts at the first connection.

`RestartXray` here is the pair of steps of one call with the mutex; which calls
overlap is what `XrayService` is about. What `Start` and the fork may do wrong is
left to that module.

### WsHub

The hub of the websocket, its workers, and for each connection a handler that
becomes its `readPump`, and a `writePump`.

| state | code |
|---|---|
| `hub` | `Run` in its select, in `broadcastParallel`, returned |
| `clients`, `register`, `unregister`, `broadcast`, `ctx` | the fields of `Hub`; the third queue is only counted |
| `todo`, `dropping` | clients no worker has come to, clients whose worker is inside `Unregister` |
| `reader`, `writer`, `open` | the two goroutines and the network connection of each client |
| `send`, `closes` | messages in `client.Send`, and how often it was closed |

The "safe close" of `removeClient` receives first to see whether the channel is closed,
and a closed channel with messages in it looks open: closing it again would panic.
`closes` is 0 or 1, and that the close is never reached with 1 is a consequence of
the lookup in the map, which `HubInv` proves. `broadcastParallel` with few clients (one goroutine each)
and with many (a pool) differ in the number of workers only. `Burst` bounds how
many broadcasts the random select takes while an unregistration waits.

### PanelDatabase and DatabaseSwap

The database file, the two files an import puts beside it, and who is where in
`InitDB` and `ImportDB`.

| state | code |
|---|---|
| `files` | what `x-ui.db`, `x-ui.db.temp`, `x-ui.db.backup` hold: whose data, passwords in clear, hashed or hashed twice, the record of the seeder, a whole file or a part of one |
| `conn` | `database.db`: the file behind the connection, by its present path, unlinked, or closed |
| `upload` | `tempFile` of each import |
| `place` | where `main` and each import are, between system calls and transactions |
| `was`, `result` | `isUsersEmpty` of `InitDB`, the error `ImportDB` will return |
| `xray` | a process runs; which one is the business of `XrayService` |

Each system call and each transaction is a step; any step may fail and the panel
may be killed between any two. `os.Rename` replaces its target, an open file
follows its name when it is renamed and lives on when it is removed, and
SQLite refuses to write to a database file that was moved or removed: these
three facts are external, the rest is `db.go` and `server.go`. The deferred functions run
in their order on every return, in `RemoveFallback`, `RemoveTemp` and `Reply`.
The statements of `InitDB` are transactions of their own, so a crash may fall
between the hashed passwords and the record of it. Passwords are one value for
all users. The forced restart that is deferred to after the answer (`Reply`) may fail like any
other step, with xray down or as it was, and fails when there is no connection to generate
a configuration from. `MigrateDB`, which runs before xray is started and returns no
error, is left out: it fills in fields of the inbounds and removes traffic rows without a
client, and of a file only whose data it holds matters here.

`DatabaseSwap` has two variables: what the database holds, and what the import
has answered. `Commit` replaces the database, `Refuse` does not, `Lose` is a restore that
failed too (the code has an error message of its own for it), and only a panel
that is killed leaves it open. The mapping counts an import as not done
until its `InitDB` is over: until then the database is the one that would be
restored.

### Tunnel

One server of `awg_service.go`, its rows, and the interface of the kernel.
`wg_service.go` is the same code over other tables.

| state | code |
|---|---|
| `enabled`, `net`, `db` | `AwgServer.Enable`; `IPv4Address` and `IPv4Pool`; the rows of `AwgClient`: `enable`, address, `upload + download`, `all_time`, the expiry as none, delayed, ahead or passed |
| `up`, `peers`, `counter` | the interface, its peers and their counters, which a peer loses when it is removed or the interface goes down |
| `op` | what each request and the job will do next, with what it has read |
| `carried`, `wiped`, `born`, `crossed`, `moved`, `solo`, `settled` | history only: what a client transferred; whose counter was set back; which clients ever were; whether two additions overlapped or a deleted row came back; whether the server got other addresses; whether the operation under way runs alone, and whether the last one did and was applied |

A step is one query or one command, with what the code decides on its result:
`addClient` chooses the address and `Create` stores it, `openClient` to `UpdateClient`
read, enable and save, `ReadClients` to `SyncConfig` or `InterfaceUp` are
`applyServerConfig`. `UpdateTrafficStats` to `Enforce` is the job, three statements of
which follow one another at once. `SaveServer` stores `enable` and the addresses a page posts,
and applies nothing when `enable` is false, which leaves a running interface up. `deleteAll` is
`DeleteAllClients` or `ResetToDefaults`: take the interface down if the server is enabled
and ignore a failure (`DeleteAllStop`), delete the rows, store the server. A command may fail
(`Restart`, `StartFails`, `StopFails`, `DeleteAllStop`), and so may the generation of the
keys of a reset (`ResetFails`); the panel may be killed, and the machine with it.
The two configuration files are one
content that only the load after the write uses. A client stands for its key pair, so
a deleted one is not added again; both directions are one counter. Edits of a
quota or an expiry, IPv6 addresses and neighbour proxies are left out.
External: the kernel and the commands `awg`, `ip`.

### PageClient

One page in a browser, and the server as what it answers.

| state | code |
|---|---|
| `ws`, `isConnected`, `attempts`, `timers` | the newest socket's `readyState`, `isConnected`, `reconnectAttempts`, `setTimeout`s that have not fired (`websocket.js`) |
| `mounted`, `thrown` | `mounted()` has called `connect`; the constructor threw there, before any listener |
| `polls`, `refresh` | intervals of `index.html`, or sleeping refresh loops of `inbounds.html`, and its switch |
| `flight` | asynchronous handlers between two `await`s, with what they hold |
| `shown`, `ver`, `wire` | versions of the server's data: on the page, at the server, on the way |

A step is a task of the event loop. A browser fires "error" and "close" in one task when
a connection fails, so `onerrorThenClose` is one. The handler of a message about
inbounds awaits a request per tunnel before it shows what it holds, that of a status
does not: this is what lets an older answer come out last, and why `Converges` is a
property and not an invariant. Notifications, topics and contents are left out.

### ShareLink and InboundEditor

`ShareLink` has no state: it is the rules about what a protocol allows
(`canEnableTls` and its siblings), the stored form of a stream, the links of the four
protocols and `Outbound.fromLink`. Texts are opaque. A link is a record of parameters:
the browser's percent-encoding is not modelled, and neither is the Base64 of the
user part of Shadowsocks, which is written with the URL-safe alphabet and read with
`atob`. Headers are modelled value by value, because their conversion is what a
property is about.

`InboundEditor` follows one inbound from the dialog that adds it to its deletion.

| state | code |
|---|---|
| `row`, `cache` | the inbound in the database, and the page's `dbInbounds` |
| `dialog` | the open dialog of `inbound_modal.html` or `client_modal.html` with its draft: protocol, network, security, single-user method, clients with their flows, counter |
| `fresh`, `emptied`, `mixed` | history only: the row is as it was when the dialog was filled; a single-user method was chosen; a client was posted from the draft of another stream |
| `elsewhere` | how much another tab has edited |

Each choice in a form is an action with the watchers it triggers; what is posted
is stored in one step. A new inbound is VLESS, as `new Inbound()` makes it. Where reality is
impossible `streamNetworkChange` sets `inbound.reality`, which nothing reads, so the
security stays: the model does what the code does. A reset of traffic and the switch of the
list post the page's copy of the row whole, stale or not, and opening the dialog that
clones an inbound zeroes the counter in that copy. Adding in bulk, import
and export, protocols without a stream, KCP's own settings, fallbacks,
certificates, sockopt and final mask are left out.

## 4. Runs

Bounds are in the `.cfg` files. Distinct states are rounded.

| run | what it asks | bounds | states |
|---|---|---|---|
| `xray_supervise` | `StopStaysStopped` with everything the module can do, slow forks and finalizers included | 2 goroutines, 2 process slots, 2 clients, a crash, an error, 2 edits | 2.2 M |
| `xray_live` | `OneProcess`, `ProcessInv`; `Supervised` and `RequestLoadsConfig` under fairness | the same with 1 client, 1 edit, no shutdown, eager fork | 109 k |
| `xray_request` | finding: `RequestedRestartSyncs` | 2 edits, no crash, no error | - |
| `xray_shutdown` | finding: `ShutdownStopsXray` | nothing but shutdown and requests | - |
| `traffic_overlap` | types, `NoOvercount`, `EnforcedByTick` when the job, a restart and a handler overlap in any way | 2 clients, 7 of the 8 operations (adding a client is in `traffic_seq`), 2 days, 1 unit each, a lost transaction | 3.2 M |
| `traffic_seq` | `Synced`, `RowPerClient` when they follow one another in any order | 4 operations, a switch, the inbound's expiry, a crash, a lost transaction | 489 k |
| `traffic_live` | `DepletedCutOff`, `RenewedEventually` under fairness | 2 operations, a crash | 26 k |
| `ws_hub` | `HubInv`, `LeaversClosed`; `GoneLeaves`, `HubReturns` under fairness | 2 connections, queues of 1, 2 for unregister | 122 k |
| `database_import` | `NothingLost`, `ImportInv`, `HashedOnce`, `SuccessServes`, and `Atomic`: `PanelDatabase` implements `DatabaseSwap` | one import at a time, two failures or crashes | 3.8 k |
| `tunnel` | `AddressesDiffer`, `ServerApart`, `Settles`, `NoOvercount`; `CutOff` under fairness | 2 clients, 2 requests and the job at once, 3 addresses with 2 choices of the server's, 2 units, 3 requests, expiries or faults, 1 of them a fault | 2.5 M |
| `page_client` | types, `OneAttempt`, `NeverDark`; `Converges`, `IntervalsEnd` under fairness | 2 attempts, 2 polls, 2 handlers, 1 message, 2 changes, 3 faults | 167 k |
| `inbound_editor` | types, `TlsAllowed`, `FlowAllowed`, `LinksAgree`, `HeadersSurvive`, `NothingLost` | 2 clients, 5 protocols, 3 networks, 1 unit counted, 1 edit elsewhere, 17 ways to fill a form | 1.9 M |

Why these bounds are enough for the cases that matter:

- Two goroutines are one that holds the mutex and one that waits for it with a
  decision taken earlier; two slots are the process that is dropped and the one
  that replaces it. A third goroutine only waits longer.
- Two clients: one with a quota whose clock starts at its first connection, one
  with an expiry that is renewed. Three days let the second expire between two
  renewals and reach the instant `now = expiry`, where the code's `<` leaves the
  expiry where it was; where everything overlaps the expiry is a day earlier, so that two
  days do the same. `MaxTraffic = 1` already exhausts the quota of one.
- Queues of one are full after one message: each branch of each select blocks.
  The unregister queue has room for two: a client can be queued for removal by
  its own pump and by a worker of each broadcast that is taken while its removal
  waits, so that the run fills it and reaches `Clogged` as well as removals that
  go through.
- One import at a time, and again and again: the second one starts from whatever the
  first, a failure and a restart have left. Two at once share the paths of the
  temporary and the fallback file, and no lock keeps them apart. With
  `Import = {i1, i2}` TLC finds `NothingLost`, `HashedOnce` and `SuccessServes` violated
  without any failure at all: one import renames the other's upload, or removes
  the fallback that holds the only database. One failure is the case the code
  provides for, by restoring. The second makes the restore fail: `RemoveFallback`
  runs all the same and no database is left, so `NothingLost` speaks of one failure
  and `Atomic` has the answer "lost".
- A tunnel: two requests are one that has read and one that writes in between; with the
  job they are three. Three addresses, of which the server has one, let an addition fill
  the pool; a post that moves the server onto another of them is the case `moved` names.
  A client can use up a quota of one unit and carry another.
- A page: two attempts have a first, a last, and the state after the last; two handlers
  are one that overtakes the other. Three faults fail both attempts and cut the
  connection once more.
- An inbound: five protocols are the four with a stream and one without; three
  networks are one with everything (TCP), one with TLS but no reality and no flow
  (WebSocket), one with neither (KCP). `LinksAgree` goes over all six networks and every
  form whatever the row has. One edit elsewhere makes a copy stale.
- Every bound on failures (`MaxCrash`, `MaxError`, `MaxLost`) is of the scenario, not
  of the code. The theorems of section 6 hold for all of them.

The runs of `XrayService` and `WsHub` do not look for deadlock: a panel that has
exited, or a hub that has returned with every connection gone, has nothing
left to do. Those of `Tunnel`, `PageClient` and `InboundEditor` do not either: they stop
when their bounds are used up, or when the inbound that is followed is deleted. `ClientTraffic` is checked for deadlock: the panel can always do
something. The symmetry of `MCXrayService` (threads, slots and clients are not
told apart) and that of the clients in `MCInboundEditor` are used only by runs
without liveness properties.

What the runs show:

- Supervision: an xray that died comes back, and one stopped by hand stays
  stopped unless a restart is asked for. There is one exception, listed as a
  hazard: a crash check that was waiting for the mutex when the stop came undoes
  it, because it looked at `isManuallyStopped` before it waited
  (`web/job/check_xray_running_job.go:23`). `StopStaysStopped` therefore asks for a state
  in which no job waits (`JobsIdle`); that a check never takes the mutex from a stopped xray is
  false of the model as of the code.
- Hub: a worker that finds a client too slow blocks on the unregister queue when it is
  full, and the hub that empties the queue waits for the worker: nobody is removed or
  served until the hub is stopped (`web/websocket/hub.go:208`). The queue of the code holds
  100, and nothing bounds how many broadcasts the hub takes while removals wait.
  `GoneLeaves` and `HubReturns` therefore hold unless `Clogged`, and `HubReturns` adds that the hub ends
  when it is stopped, clogged or not.
- `OneProcess` needs the eager fork. Without it `Stop` finds nothing to stop in a
  process that has not been forked, and a second one is started beside it.
- Import: a file with a whole database outlives any one failure or crash, at any
  point. After a crash between the two renames that file is the fallback, and the
  panel that starts next does not look there: it creates an empty database.
  `Atomic` says the same by leaving a killed import open.
- `SuccessServes`: when success is answered the database is the new one and
  xray runs; the forced restart that follows the answer may still fail, and nobody hears of it.
- `HashedOnce` excludes failures. A crash between the hashing and the record of the
  seeder makes the next start hash the hashes, and nobody can log in any more.
- Traffic: `Synced` and `RowPerClient` are properties of jobs and handlers that do
  not overlap. Two handlers that read the settings before either writes lose one
  of the edits, and a row without a client or a client without a row is left.
  Nothing in the code excludes that. `NoOvercount` and `EnforcedByTick` hold
  even then.
- `Synced` is stated up to two things the code does and the model does with it: saving an
  inbound hands the core every client of its settings, exhausted and switched-off ones
  included (`web/service/inbound.go:593`), and a client switched off by hand is renewed
  and admitted when its period passes (`:1269`). An API that times out in the middle of
  an edit leaves the core behind, until a restart that may be dropped as `xray_request` shows.
- An import that fails between the closing of the database and its reopening leaves the panel
  without both database and xray (`web/service/server.go:1046`): the restart on return needs
  the database. `SuccessServes` allows it because the answer is an error.
- Tunnel: the histories name the races. Two additions that overlap do choose one
  address, and an edit that saves after a deletion brings the row back (`crossed`);
  `AddressesDiffer` says that nothing else does. `ServerApart` holds until the server gets
  another address or pool: nothing compares them with what the clients have. A failed
  application is not tried again by any job, so `Settles` and `CutOff` speak of operations
  that were applied and ran alone. A server that a post disables keeps its interface up
  (`web/service/awg_service.go:88`), and so does one whose `awg-quick down` fails; deleting
  all clients then finds the server disabled, or ignores the failure (`:511`), and the
  interface goes on serving clients of which no row is left. The next operation that
  applies something ends that.
- Page: the constructor of a socket that throws inside `mounted()` is heard by nobody
  (`thrown`). In every other order of events a page that has stopped trying polls.
  That an older handler shows its data after a newer one is possible and does not last
  where something goes on feeding the page: on the overview the status job or the polling.
  The inbounds page may stay stale, connected, when xray is down or the message is over 1 MB,
  since nothing is broadcast to it then; `Converges` asks for a loop that polls, or for broadcasts.
- Inbound: an edit in another tab or a tick of the job between opening a dialog and
  saving it is overwritten, and so it is by a reset of traffic or the switch of the list
  (`web/html/inbounds.html:2571`), which post the whole row as the page last saw it. `NothingLost`
  says that these posts of a stale copy (`PostsStale`), and what the user asked for, are
  all that drops a client or winds back a counter.
- `LinksAgree` says of three things that they do *not* survive: the mode of xhttp
  and the ECH list of VMess, which `fromVmessLink` does not find
  (`web/assets/js/model/outbound.js:928`), and an id or a password that is not plain text
  for a URL (`web/assets/js/model/inbound.js:1592`). Outside of them a link is read back as it was meant.

## 5. Fairness

- *XrayService*: the mutex is acquired under strong fairness, since a `sync.Mutex`
  in starvation mode hands over to whoever has waited a millisecond. The two
  cron jobs are under strong fairness because cron launches the next run in time
  whether or not others hold the mutex; steps inside `RestartXray`, a pending fork
  and the exit of a process that got SIGTERM are under weak fairness. Requests,
  stops, crashes, finalizers, shutdown: none.
- *ClientTraffic*: the traffic job and the two causes of a restart under strong
  fairness (a model with `Overlap = FALSE` disables and enables them again), what
  was begun is finished under weak fairness. Traffic, requests, crashes and the
  clock: none, so `RenewedEventually` speaks of an expiry that has passed.
- *WsHub*: the select of `Run` chooses at random among ready branches, hence strong
  fairness for the register queue and for the end of the context; the
  unregister queue needs only weak fairness because of `Burst` (and no fairness
  helps where the hub is `Clogged`). `Broadcast` is fair
  because the status task sends one every two seconds. Connecting, reading on
  the other side, stopping: not fair.

- *Tunnel*: the cron starts the job every ten seconds and what it has begun goes on. The two
  take turns, so that one weak fairness is enough. Requests, traffic, expiries, faults: none, so `CutOff` speaks of a
  panel that is left alone.
- *PageClient*: timers fire, the network reports what it did, a request is answered or
  fails, and the status job broadcasts to the overview every two seconds. Broadcasts to
  the inbounds page are not fair: the traffic job returns at once when xray is down
  (`web/job/xray_traffic_job.go:29`), the handlers of clients broadcast nothing, and the hub
  drops a message of over 1 MB (`web/websocket/hub.go:276`). Outages, edits and the user's switch: not fair.
- *InboundEditor* has no liveness: everything in it is somebody's choice.

## 6. Proofs

`tlapm` checks eight modules; nothing in them is assumed beyond the `ASSUME`s of
the module they extend, which ask for finite sets of clients, well-typed forms, natural bounds and a
`NoRow` that is no row, unless the last column says so.

| theorem | property | for every |
|---|---|---|
| `TypeCorrect` | types, in no run | goroutines, slots, clients, bounds |
| `ProcessCorrect` | `ProcessInv` | same |
| `AtMostOneProcess` | `OneProcess` | same, with `EagerSpawn` |
| `StopRespected` | `StopStaysStopped` | same, slow forks included; stops that no job is waiting to undo |
| `TrafficTypeCorrect` | `ClientTraffic!TypeOK` | clients, quotas, periods, lifetimes, handlers, bounds |
| `NothingOvercounted` | `NoOvercount` | same, whatever overlaps |
| `TickEnforces` | `EnforcedByTick` | same |
| `ClientsHaveRows` | `RowPerClient` | same, every handler and timeout, no overlap (`Overlap = FALSE`) |
| `CoreIsSynced` | `Synced` | same, no overlap, handlers of single clients and an API that answers (`SingleEdits`) |
| `WsTypeCorrect` | types, in no run | connections, capacities, workers |
| `HubCorrect` | `HubInv` | same |
| `LeaversAreClosed` | `LeaversClosed` | same |
| `DatabaseTypeCorrect` | types, in no run | imports at once, failures |
| `ImportKeepsFiles` | `ImportInv` | failures, one import at a time (`One`) |
| `ImportIsAtomic` | `Atomic` | same |
| `OneFailureLosesNothing` | `PanelDatabase!NothingLost` | same |
| `SuccessIsServed` | `SuccessServes` | same; up to the answer, since the restart after it may fail |
| `PasswordsHashedOnce` | `HashedOnce` | same, as long as nothing has failed |
| `Types` (`PageClientProofs`) | `PageClient!TypeOK` | attempts, polls, handlers, messages, faults |
| `SingleAttempt` | `OneAttempt` | same |
| `FallsBack` | `NeverDark` | same |
| `Types` (`InboundEditorProofs`) | `InboundEditor!TypeOK` | clients, protocols, networks, texts, forms |
| `TlsStaysAllowed` | `TlsAllowed` | same |
| `FlowsStayAllowed` | `FlowAllowed` | same |
| `LinksRoundTrip` | `LinksAgree` | same, with the three exceptions of section 4 |
| `OnlyStaleCopiesLose` | `InboundEditor!NothingLost` | same, resets and switches that post a stale row included |
| `HeadersRoundTrip` | `HeadersSurvive` | same, header lists of any length |
| `Types` (`TunnelProofs`) | types, in no run | clients, requests at once, addresses a page may post, quotas, bounds |
| `ServerStaysApart` | `ServerApart` | same |
| `AddressesStayDifferent` | `AddressesDiffer` | same |
| `NeverOvercounts` | `Tunnel!NoOvercount` | same |
| `KernelFollows` | `Settles` | same |

The four type invariants that are in no run are there for the others, which rest on them.
Inductive invariants, each checked by TLC first:

- `TypeOK /\ ProcessInv`. `OneProcess` alone is not inductive: a step that starts a
  process needs to know that nothing is alive (`StartAlone`); that holds because
  the deciding step stopped the current process and no other goroutine is between
  the two (`Mutex`), and because no fork is on its way (`SpawnAwaited`). `Mutex` is
  the only part that needs no eager fork. The run of TLC for `OneProcess` leaves
  out shutdown and reload; the theorem does not.
- `TrafficInv == TypeOK /\ NoOvercount`. The two need one another: the balance is
  what keeps the usage of a row within `MaxTraffic`, and the types are what makes
  its terms numbers. The lemmas on `Counted`, `Renewed` and `Disabled` say what each
  stage of `AddTraffic` does to the usage of a row, `AddTrafficRows` chains them.
  The handler that saves a row it read before (`ResetClientTraffic`) is no
  exception, because it saves it with the counter at zero.
- `TickEnforces` follows from `DisabledHolds`: what `disableInvalidClients` leaves
  enabled is neither exhausted nor expired, whatever renewal did before it.
- `SeqInv` (`TrafficSyncProofs`). `Synced` and `RowPerClient` speak of the moments
  when nothing is running, and are not inductive: `resetClientTraffic` adds the user
  to the core before it stores the row, and `addClient` and `delClient` end with a second
  transaction that saves the settings. `SeqInv` says that in between a handler is
  *ahead* of what it has stored: settings, rows and core agree once its last write
  is imagined done (`AheadSettings`, `AheadRows`), what it read is still so (`Reads`), and
  nobody else is at work (`OneAtATime`). TLC has checked it with two handlers of
  single clients, and with all handlers and timeouts.
  The hypotheses are needed: TLC refutes `Synced` as soon as a handler and the job
  overlap, and `RowPerClient` when two handlers do. Without overlaps, a timeout leaves the
  core behind until the restart it asks for; `UpdateInbound`, `DelDepletedClients` and the
  periodic reset leave it behind without asking (hazards in `PROJECT.json`), and the
  restart `resetAll` asks for is the one finding `xray_request` shows to be dropped. Renewal revives a client that was switched off, hence the
  periods in `SingleEdits`. None of this matters for `RowPerClient`, which is proved for all of them.
- `WsInv == TypeOK /\ HubInv`. That a `Send` is closed once needs all its parts: a
  client is queued for registration once (`QueuedOnce`), a queued client is not in
  the map and open (`QueuedIsNew`), a client in the map is open (`MemberOpen`), so
  that the lookup in the map before the close is enough.

- `InboundEditor`: `IInv` adds to `TypeOK` that the row, the page's copy and the draft of
  a dialog all have TLS and flows only where they may (`TlsEverywhere`, `FlowEverywhere`): what
  is stored was a draft, and a draft was a copy of what was stored. Of it
  `LinksRoundTrip` needs the types; the rest is two lemmas on links, `ParamLinkAgrees` and
  `VmessLinkAgrees`, transport by transport and parameter by parameter.
- `PageClient`: `IInv` is `OneAttempt`, what the client knows of its socket (`SocketInv`: no timer
  before the first one, `isConnected` means open), and `FallbackInv`: a closed
  socket without a timer has left an interval, which outlives its requests, or a
  loop, which is asleep or at its request. A connection that opens ends the intervals, and
  only then is there something else than a poll.
- `Tunnel`: four invariants, each over `Typed`. `AddrInv`: while nothing has crossed,
  the one client that is being added has an address no row has, and a copy of a row
  that waits to be stored has the address of its row (`Apart`); only clients that
  were added have either (`BornFirst`). `CountInv`: for every row of a client, in the
  database or in somebody's hands, either it belongs to the present interface, and
  what it has counted of the kernel's counter is not counted again, or it belongs to an earlier
  one, and the whole counter is still due (`Rested`); while the job holds a counter it
  read, the same for that counter (`Judged`). The kernel's counter goes back to 0 when an
  interface restarts, which is why there are two cases. `SettleInv`: for each step an operation that runs alone can
  be at, what of the database and the peers agrees (`Stage`), with what became of the interface
  when all clients are deleted (`how`). `NetInv`, over `AddrInv`: until the server moves, rows and
  copies of rows that wait to be stored have addresses of the pool that are not the server's.
- `OnlyStaleCopiesLose` adds `DraftKeeps`: a draft that was opened on a copy which is
  still the row (`fresh`), and that was not emptied, has every client of the row and its
  counter, whatever the dialog changed since. Then what `updateInbound` stores over the row
  loses nothing, and every other step that does is named in the property.
- `HeadersRoundTrip` needs no invariant but the types: it is about the folds `toHeaders` and
  `toV2Headers` over lists of any length. The induction theorems of the library
  cannot be used (they take an operator), so `NumberInduction` and `ListInduction` state
  induction for a set, "a set that has `<<>>` and is closed under `Append` has every
  list", from the well-foundedness of the numbers. `FoldExists` constructs the function that
  `FoldLeft` chooses; the lemmas `V2Fold`, `ShownFold` and `EnteredFold` draw from it what one
  more element adds. From there, `V2Values` says that every name is stored once with the
  right values (`Proper`), `EntryRestored` that an entry shown after a list is stored after what
  the list stores, and `RoundTrip` that both folds together are the identity.
- `TypeOK /\ ImportInv`. `ImportInv` says, place by place, which files and which
  connection an import may count on. It is inductive, and it is what the
  refinement needs: `SwapInitDB` and `SwapImportDB` map each step to a step of
  `DatabaseSwap` or to a stutter. The end of `InitDB` is the `Commit`, because the file at
  the path of the database is then the uploaded one; a restore is a `Refuse`,
  because the fallback is still there; a restore that fails is a `Lose`, and the
  invariant says that it takes two failures.
- `OneFailureLosesNothing` adds `AllSaved`: for each place, which of the three files is
  good as long as at most one thing has failed (`Safe`), and as long as nothing has
  (`Unharmed`). The second part is needed because the failure that uses up the
  bound happens in a state where nothing had failed before: that is where the
  old database must still be whole. After a crash between the renames, what the
  next import removes is the old database; it has validated its upload by then.

- `SuccessIsServed` adds `AllServing`: from the end of `InitDB` to the answer, each place says
  how much of "migrated, connected, xray asked" is done (`Serving`); only a crash undoes
  it, and a crash answers nothing.
- `PasswordsHashedOnce` adds `HashInv`: for each of the three files, the password
  and the record of the seeder in it agree (`Recorded`), so that hashing is skipped
  exactly when it was done. The seeder hashes and records in two writes; in between, the place
  of the one goroutine that seeds says which file is out of step.

Model-checked only: the liveness properties (`Supervised`, `RequestLoadsConfig`,
`DepletedCutOff`, `RenewedEventually`, `GoneLeaves`, `HubReturns`, `CutOff`, `Converges`,
`IntervalsEnd`), which are out of the prover's reach. Every invariant and every action
property of a passing run is a theorem.

## 7. Findings

| run | code | disagreement |
|---|---|---|
| `xray_request` | `web/service/xray.go:234` | a requested restart is dropped when the new configuration equals the one xray was started with, though API calls have changed what it admits since; the flag was cleared before the call (`web/web.go:307`) |
| `xray_shutdown` | `web/web.go:473` | `Server.Stop` stops xray before the cron jobs and handlers that start it; a `RestartXray` waiting for the mutex leaves an xray behind |

## 8. Not modelled

- `AddInbound`, `DelInbound` and the import of inbounds (single transactions on an
  inbound of their own), `SetClientTelegramUserID` and other edits of fields that
  neither the core nor the accounting reads.
- Traffic of inbounds and outbounds: counters nobody acts on except the
  periodic reset.
- What handlers and jobs do with the database while an import replaces it, the
  UUIDs given to AWG clients and the content of migrations (`MigrateDB`).
- `BroadcastToTopic`, which has no caller.
- The vendored part of the front end: the JSON editor with its linter (`web/assets/codemirror/`,
  with JSHint) and the URI parser. It is third-party code, and more than four fifths of
  the JavaScript lines of the repository; the panel's own logic is the rest.
- Of the panel's own JavaScript: the classes that only copy fields between a form and a
  stored object for protocols without a stream, and the helpers of `util/index.js`
  (sizes, cookies, random values, formats).
- `AllocateIPv6`, client IP limit, LDAP sync, the outbound test and the choice of a port in
  `tunnel_port.go`: left in the plan (section 2).
- Login, settings, subscriptions, the bot's dialogue, log rotation, downloads, menus,
  translations and middleware: sequential code or pure input and output that no property of
  the system depends on. `PROJECT.json` gives the reason for each.
- Hazards without a property are listed in `PROJECT.json` with the reason.
