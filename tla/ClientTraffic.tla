---------------------------- MODULE ClientTraffic ----------------------------
(***************************************************************************)
(* The life of the clients of one inbound: the accounting of their traffic *)
(* (job/xray_traffic_job.go and AddTraffic of service/inbound.go), the     *)
(* renewal and cut-off of expired and exhausted clients, the handlers of   *)
(* the panel that edit them, and the restarts of xray that rebuild its     *)
(* configuration from the database.                                        *)
(*                                                                         *)
(* A client lives in three places: the settings JSON of its inbound, its   *)
(* row of client_traffics, and the users of the running core, which is     *)
(* changed over the API in the middle of a database transaction.  SQLite   *)
(* serialises the writing transactions, so one is a single step here; what *)
(* a handler reads before its transaction is a step of its own.            *)
(***************************************************************************)
EXTENDS Integers, FiniteSets

CONSTANTS
    Client,        \* clients (emails) of the inbound
    Handler,       \* goroutines that serve requests of the panel
    NoRow,         \* no row in client_traffics
    Quota,         \* Quota[c]: total, 0 for no limit
    Period,        \* Period[c]: reset, days until the expiry is renewed, or 0
    Lifetime,      \* Lifetime[c]: expiryTime of a new row; 0 none, < 0 delayed
    InboundExpiry, \* expiry_time of the inbound, 0 for none
    Op,            \* the handlers in use
    Toggled,       \* clients whose enable switch is used, others stay on
    Overlap,       \* FALSE: a job or handler starts only when no other runs
    Flaky,         \* TRUE: any API call may time out
    MaxNow,        \* bound: the clock
    MaxTraffic,    \* bound: traffic carried for a client
    MaxCrash,      \* bound: crashes of xray
    MaxLost        \* bound: AddTraffic transactions that fail

AllOps == {"update", "add", "del", "reset", "resetAll", "periodic",
           "depleted", "inbound"}

ASSUME ClientTrafficAssumption ==
    /\ IsFiniteSet(Client)
    /\ Quota \in [Client -> Nat]
    /\ Period \in [Client -> Nat]
    /\ Lifetime \in [Client -> Int]
    /\ InboundExpiry \in Nat
    /\ Op \subseteq AllOps
    /\ Toggled \subseteq Client
    /\ Overlap \in BOOLEAN
    /\ Flaky \in BOOLEAN
    /\ MaxNow \in Nat \ {0}
    /\ MaxTraffic \in Nat
    /\ MaxCrash \in Nat
    /\ MaxLost \in Nat

ASSUME NoRowAssumption == NoRow \notin [on : BOOLEAN, used : Nat, exp : Int]

VARIABLES
    settings,  \* clients of the inbound's settings JSON: absent, off or on
    rows,      \* client_traffics: enable, up + down and expiry_time
    inbOn,     \* inbounds.enable
    core,      \* the running xray: up, has the inbound, admits the users
    conf,      \* the configuration the core was started with
    ctr, seen, \* the core's counters, and the clients that have one
    need,      \* isNeedXrayRestart
    now,       \* the clock, in days
    job,       \* XrayTrafficJob between GetTraffic and AddTraffic
    rs,        \* RestartXray between GetXrayConfig and its decision
    hd,        \* handlers between what they read and what they write
    carried,   \* history: traffic the core carried for each client
    crashes, lost  \* use of the bounds

dbVars   == <<settings, rows, inbOn>>
coreVars == <<core, conf, ctr, seen>>
vars == <<settings, rows, inbOn, core, conf, ctr, seen, need, now, job, rs, hd,
          carried, crashes, lost>>

Switch   == {"absent", "off", "on"}
Counters == [Client -> 0..MaxTraffic]
Config   == [inb : BOOLEAN, users : SUBSET Client]
Core     == [up : BOOLEAN, inb : BOOLEAN, users : SUBSET Client]
Row      == [on : BOOLEAN, used : 0..MaxTraffic, exp : Int]
Settings == [Client -> Switch]
Idle     == [op |-> "idle"]

Batch    == [op : {"commit"}, batch : Counters, online : SUBSET Client]
Decision == [op : {"decide"}, cfg : Config, force : BOOLEAN]

\* What a handler has read, by the operation that it is going to do.
UpdateRequest ==
    [op : {"update"}, c : Client, on : BOOLEAN, exp : Int,
     sett : Settings, inb : BOOLEAN]
AddRequest ==
    [op : {"add"}, c : Client, on : BOOLEAN, sett : Settings, inb : BOOLEAN]
DelRequest ==
    [op : {"del", "save"}, c : Client, sett : Settings, inb : BOOLEAN]
ResetRequest ==
    [op : {"reset"}, c : Client, row : Row, fail : BOOLEAN]
InboundRequest ==
    [op : {"inbound"}, sett : Settings, inb : BOOLEAN]
DepletedRequest ==
    [op : {"depleted"}, gone : SUBSET Client, at : 1..MaxNow,
     sett : Settings, inb : BOOLEAN]
Request ==
    {Idle} \cup UpdateRequest \cup AddRequest \cup DelRequest
           \cup ResetRequest \cup InboundRequest \cup DepletedRequest

TypeOK ==
    /\ settings \in Settings
    /\ rows \in [Client -> Row \cup {NoRow}]
    /\ inbOn \in BOOLEAN
    /\ core \in Core
    /\ conf \in Config
    /\ ctr \in Counters
    /\ seen \in SUBSET Client
    /\ need \in BOOLEAN
    /\ now \in 1..MaxNow
    /\ job \in {Idle} \cup Batch
    /\ rs \in {Idle} \cup Decision
    /\ hd \in [Handler -> Request]
    /\ carried \in Counters
    /\ crashes \in 0..MaxCrash
    /\ lost \in 0..MaxLost

-----------------------------------------------------------------------------
(* Helpers.                                                                *)

\* Without clients in its settings, the inbound itself has gone.
Present(s) == {c \in Client : s[c] # "absent"}
Rowed(r)   == {c \in Client : r[c] # NoRow}
Zero       == [c \in Client |-> 0]
NewRow(c, on) == [on |-> on, used |-> 0, exp |-> Lifetime[c]]

Expired(r)     == r.exp \in 1..now
DepletedAt(c, r, t) == (Quota[c] > 0 /\ r.used >= Quota[c]) \/ r.exp \in 1..t
Depleted(c, r) == DepletedAt(c, r, now)

\* The expiry moved on by whole periods while it is before now: an expiry of
\* exactly now stays where it is.
NextExpiry(e, d) == e + d * ((now - e + d - 1) \div d)

\* GetXrayConfig: an enabled inbound, without the clients that are switched
\* off in its settings or disabled in their row.
Entitled(s, r, i) ==
    {c \in Client : i /\ s[c] = "on" /\ (r[c] # NoRow => r[c].on)}
GenConfig(s, r, i) == [inb |-> i, users |-> Entitled(s, r, i)]

\* RemoveUser for R, then AddUser for A; the calls that F names time out.
\* Neither can be answered by a core that is down or has no such inbound;
\* removing a user who is not there is no failure, adding one who is there is.
Api(k, R, A, F) ==
    LET answers == k.up /\ k.inb
        kept    == IF answers THEN k.users \ (R \ F.remove) ELSE k.users
        added   == IF answers THEN A \ (F.add \cup kept) ELSE {}
    IN  [core |-> [k EXCEPT !.users = kept \cup added],
         fail |-> \/ ~answers /\ R \cup A # {}
                  \/ R \cap F.remove # {}
                  \/ added # A]

\* A removal and an addition fail each for itself.
AllAnswer == [remove |-> {}, add |-> {}]
Timeouts  == IF Flaky THEN [remove : SUBSET Client, add : SUBSET Client]
             ELSE {AllAnswer}

Quiet == job = Idle /\ rs = Idle /\ \A h \in Handler : hd[h] = Idle
MayStart == Overlap \/ Quiet

-----------------------------------------------------------------------------
(* AddTraffic: the database transaction and the API calls made inside it.  *)

\* addClientTraffic, with adjustTraffics: a first connection starts the clock
\* of a client whose expiry is negative.
Counted(c, batch, online) ==
    IF rows[c] = NoRow \/ c \notin online THEN rows[c]
    ELSE [rows[c] EXCEPT
            !.used = @ + batch[c],
            !.exp  = IF @ < 0 /\ settings[c] # "absent" THEN now - @ ELSE @]

\* Variant: only an enabled row is renewed.
DueIfOn(c, r) ==
    /\ r # NoRow /\ settings[c] # "absent" /\ r.on
    /\ Period[c] > 0 /\ Expired(r)

\* autoRenewClients looks at the rows alone, not at the switch in settings.
Due(c, r) ==
    r # NoRow /\ settings[c] # "absent" /\ Period[c] > 0 /\ Expired(r)
Renewed(c, r) ==
    IF Due(c, r)
    THEN [on |-> TRUE, used |-> 0, exp |-> NextExpiry(r.exp, Period[c])]
    ELSE r

\* Variant: the quota is forgotten.
InvalidIfExpired(c, r) == r # NoRow /\ r.on /\ Expired(r)

\* disableInvalidClients.
Invalid(c, r)  == r # NoRow /\ r.on /\ Depleted(c, r)
Disabled(c, r) == IF Invalid(c, r) THEN [r EXCEPT !.on = FALSE] ELSE r

\* AddTraffic in the order of the code, ending with disableInvalidInbounds.
AddTraffic(batch, online, F) ==
    LET counted == [c \in Client |-> Counted(c, batch, online)]
        renewed == [c \in Client |-> Renewed(c, counted[c])]
        revive  == {c \in Client : Due(c, counted[c]) /\ ~counted[c].on}
        cut     == {c \in Client : Invalid(c, renewed[c])}
        back    == Api(core, {}, revive, F)
        left    == Api(back.core, cut, {}, F)
        closing == inbOn /\ InboundExpiry \in 1..now
        deleted == closing /\ core.up /\ core.inb
    IN  [rows  |-> [c \in Client |-> Disabled(c, renewed[c])],
         inbOn |-> inbOn /\ ~closing,
         core  |-> IF deleted
                   THEN [left.core EXCEPT !.inb = FALSE, !.users = {}]
                   ELSE left.core,
         fail  |-> back.fail \/ left.fail \/ (closing /\ ~deleted)]

\* Variant: GetTraffic(false) leaves the counters as they are.
JobCollectKeeps ==
    /\ MayStart
    /\ job = Idle
    /\ core.up
    /\ job' = [op |-> "commit", batch |-> ctr, online |-> seen]
    /\ UNCHANGED <<dbVars, coreVars, need, now, rs, hd, carried, crashes, lost>>

\* XrayTrafficJob.Run every 10 s: GetTraffic(reset = true) ...
JobCollect ==
    /\ MayStart
    /\ job = Idle
    /\ core.up
    /\ job' = [op |-> "commit", batch |-> ctr, online |-> seen]
    /\ ctr' = Zero
    /\ UNCHANGED <<dbVars, core, conf, seen, need, now, rs, hd, carried,
                   crashes, lost>>

\* Variant: a batch that was committed is kept for another try.
JobCommitRetries ==
    /\ job # Idle
    /\ \E t \in {AddTraffic(job.batch, job.online, F) : F \in Timeouts} :
          /\ rows' = t.rows
          /\ inbOn' = t.inbOn
          /\ core' = t.core
          /\ need' = (need \/ t.fail)
    /\ UNCHANGED <<settings, conf, ctr, seen, now, job, rs, hd, carried, crashes,
                   lost>>

\* ... and AddTraffic, whose result asks for a restart.
JobCommit ==
    /\ job # Idle
    /\ \E t \in {AddTraffic(job.batch, job.online, F) : F \in Timeouts} :
          /\ rows' = t.rows
          /\ inbOn' = t.inbOn
          /\ core' = t.core
          /\ need' = (need \/ t.fail)
    /\ job' = Idle
    /\ UNCHANGED <<settings, conf, ctr, seen, now, rs, hd, carried, crashes,
                   lost>>

\* addInboundTraffic or addClientTraffic fails: rolled back, the batch is gone.
JobTxFails ==
    /\ job # Idle
    /\ lost < MaxLost
    /\ lost' = lost + 1
    /\ job' = Idle
    /\ UNCHANGED <<dbVars, coreVars, need, now, rs, hd, carried, crashes>>

-----------------------------------------------------------------------------
(* RestartXray (the module XrayService has its callers and its mutex).     *)

\* Variant: the inbounds are read before AddTraffic(nil, nil).
GetXrayConfigEarly(force) ==
    /\ rs = Idle
    /\ \E t \in {AddTraffic(Zero, {}, F) : F \in Timeouts} :
          /\ rows' = t.rows
          /\ inbOn' = t.inbOn
          /\ core' = t.core
          /\ rs' = [op |-> "decide", force |-> force,
                    cfg |-> GenConfig(settings, rows, inbOn)]
    /\ UNCHANGED <<settings, conf, ctr, seen, now, job, hd, carried, crashes,
                   lost>>

\* GetXrayConfig: AddTraffic(nil, nil), whose result is dropped, then the
\* inbounds are read.
GetXrayConfig(force) ==
    /\ rs = Idle
    /\ \E t \in {AddTraffic(Zero, {}, F) : F \in Timeouts} :
          /\ rows' = t.rows
          /\ inbOn' = t.inbOn
          /\ core' = t.core
          /\ rs' = [op |-> "decide", force |-> force,
                    cfg |-> GenConfig(settings, t.rows, t.inbOn)]
    /\ UNCHANGED <<settings, conf, ctr, seen, now, job, hd, carried, crashes,
                   lost>>

RestartNeeded  == MayStart /\ need /\ need' = FALSE /\ GetXrayConfig(FALSE)
RestartCrashed == MayStart /\ ~core.up /\ GetXrayConfig(FALSE) /\ UNCHANGED need
RestartForced  == MayStart /\ GetXrayConfig(TRUE) /\ UNCHANGED need

RestartXray ==
    /\ rs # Idle
    /\ IF core.up /\ ~rs.force /\ conf = rs.cfg /\ ~need
       THEN UNCHANGED coreVars
       ELSE /\ core' = [up |-> TRUE, inb |-> rs.cfg.inb, users |-> rs.cfg.users]
            /\ conf' = rs.cfg
            /\ ctr' = Zero
            /\ seen' = {}
    /\ rs' = Idle
    /\ UNCHANGED <<dbVars, need, now, job, hd, carried, crashes, lost>>

-----------------------------------------------------------------------------
(* The handlers of controller/inbound.go, with the service they call.      *)

Begin(h, op, request) ==
    /\ op \in Op
    /\ MayStart
    /\ hd[h] = Idle
    /\ hd' = [hd EXCEPT ![h] = request]
    /\ UNCHANGED <<dbVars, coreVars, need, now, job, rs, carried, crashes, lost>>

Finish(h) ==
    /\ hd' = [hd EXCEPT ![h] = Idle]
    /\ UNCHANGED <<conf, ctr, seen, now, job, rs, carried, crashes, lost>>

\* The inbound is read, and its settings and enable are written back whole.
SaveInbound(s, i) == settings' = s /\ inbOn' = i

\* The positions of the enable switch in the request of a handler.
Switches(c) == IF c \in Toggled THEN BOOLEAN ELSE {TRUE}

UpdateRead(h) ==
    \E c \in Present(settings) :
    \E e \in Switches(c) :
        Begin(h, "update",
              [op |-> "update", c |-> c, on |-> e,
               exp |-> IF rows[c] = NoRow THEN 0 ELSE rows[c].exp,
               sett |-> settings, inb |-> inbOn])

\* UpdateInboundClient: the SQL update touches no row when there is none.
UpdateInboundClient(h) ==
    /\ hd[h].op = "update"
    /\ LET r == hd[h]
           c == r.c
       IN  \E F \in Timeouts :
           LET api == Api(core, IF r.sett[c] = "on" THEN {c} ELSE {},
                          IF r.on THEN {c} ELSE {}, F)
           IN  /\ rows' = IF rows[c] = NoRow THEN rows
                          ELSE [rows EXCEPT ![c].on = r.on, ![c].exp = r.exp]
               /\ core' = api.core
               /\ need' = (need \/ api.fail)
               /\ SaveInbound([r.sett EXCEPT ![c] = IF r.on THEN "on" ELSE "off"],
                              r.inb)
    /\ Finish(h)

AddRead(h) ==
    \E c \in Client \ Present(settings) : \E e \in Switches(c) :
        /\ Present(settings) # {}
        /\ Begin(h, "add", [op |-> "add", c |-> c, on |-> e,
                            sett |-> settings, inb |-> inbOn])

\* Variant: AddInboundClient without AddClientStat.
AddInboundClientBare(h) ==
    /\ hd[h].op = "add"
    /\ LET r == hd[h]
       IN  \E F \in Timeouts :
           LET api == Api(core, {}, IF r.on THEN {r.c} ELSE {}, F)
           IN  /\ core' = api.core
               /\ need' = (need \/ api.fail)
               /\ SaveInbound([r.sett EXCEPT ![r.c] = IF r.on THEN "on" ELSE "off"],
                              r.inb)
    /\ UNCHANGED rows
    /\ Finish(h)

\* AddInboundClient: the error of AddClientStat, whose email is unique, is
\* dropped, so that a row that exists already stays.
AddInboundClient(h) ==
    /\ hd[h].op = "add"
    /\ LET r == hd[h]
           c == r.c
       IN  \E F \in Timeouts :
           LET api == Api(core, {}, IF r.on THEN {c} ELSE {}, F)
           IN  /\ rows' = IF rows[c] = NoRow
                          THEN [rows EXCEPT ![c] = NewRow(c, r.on)] ELSE rows
               /\ core' = api.core
               /\ need' = (need \/ api.fail)
               /\ SaveInbound([r.sett EXCEPT ![c] = IF r.on THEN "on" ELSE "off"],
                              r.inb)
    /\ Finish(h)

DelRead(h) ==
    \E c \in Present(settings) :
        /\ Present(settings) # {c}
        /\ Begin(h, "del", [op |-> "del", c |-> c,
                            sett |-> settings, inb |-> inbOn])

\* DelInboundClient has no transaction: the row goes first, the core is told
\* when the client was enabled in both places ...
DelStat(h) ==
    /\ hd[h].op = "del"
    /\ LET r == hd[h]
           c == r.c
       IN  IF rows[c] = NoRow
           THEN Finish(h) /\ UNCHANGED <<rows, core, need>>
           ELSE \E F \in Timeouts :
                LET gone == IF r.sett[c] = "on" /\ rows[c].on THEN {c} ELSE {}
                    api  == Api(core, gone, {}, F)
                IN  /\ rows' = [rows EXCEPT ![c] = NoRow]
                    /\ core' = api.core
                    /\ need' = (need \/ api.fail)
                    /\ hd' = [hd EXCEPT ![h].op = "save"]
                    /\ UNCHANGED <<conf, ctr, seen, now, job, rs, carried,
                                   crashes, lost>>
    /\ UNCHANGED <<settings, inbOn>>

\* ... and the settings are saved last.
DelSave(h) ==
    /\ hd[h].op = "save"
    /\ SaveInbound([hd[h].sett EXCEPT ![hd[h].c] = "absent"], hd[h].inb)
    /\ Finish(h)
    /\ UNCHANGED <<rows, core, need>>

\* ResetClientTraffic reads the row and tells the core ...
ResetRead(h) ==
    /\ "reset" \in Op
    /\ MayStart
    /\ hd[h] = Idle
    /\ \E c \in Rowed(rows), F \in Timeouts :
          LET back == IF ~rows[c].on /\ settings[c] = "on" THEN {c} ELSE {}
              api  == Api(core, {}, back, F)
          IN  /\ core' = api.core
              /\ hd' = [hd EXCEPT ![h] = [op |-> "reset", c |-> c,
                                          row |-> rows[c], fail |-> api.fail]]
    /\ UNCHANGED <<dbVars, conf, ctr, seen, need, now, job, rs, carried, crashes,
                   lost>>

\* ... then saves the whole row, inserting it again if it has gone.
ResetClientTraffic(h) ==
    /\ hd[h].op = "reset"
    /\ rows' = [rows EXCEPT ![hd[h].c] =
                   [hd[h].row EXCEPT !.on = TRUE, !.used = 0]]
    /\ need' = (need \/ hd[h].fail)
    /\ Finish(h)
    /\ UNCHANGED <<settings, inbOn, core>>

\* ResetAllClientTraffics: one statement and no API call.  The handler of the
\* panel asks for a restart, PeriodicTrafficResetJob does not.
ResetAllClientTraffics(h) ==
    /\ MayStart
    /\ hd[h] = Idle
    /\ \/ "resetAll" \in Op /\ need' = TRUE
       \/ "periodic" \in Op /\ need' = need
    /\ rows' = [c \in Client |->
                   IF rows[c] = NoRow THEN NoRow
                   ELSE [rows[c] EXCEPT !.on = TRUE, !.used = 0]]
    /\ UNCHANGED <<settings, inbOn, coreVars, now, job, rs, hd, carried, crashes,
                   lost>>

\* DelDepletedClients collects the rows that are depleted and will not be
\* renewed, and reads their inbound ...
DepletedRead(h) ==
    LET gone == {c \in Rowed(rows) : Period[c] = 0 /\ Depleted(c, rows[c])}
    IN  /\ gone # {} => Present(settings) # {}
        /\ Begin(h, "depleted", [op |-> "depleted", gone |-> gone, at |-> now,
                                 sett |-> settings, inb |-> inbOn])

\* ... writes back the clients that remain, or deletes an inbound that has none,
\* with all its rows; the rows that are depleted by now go last.  Only
\* DelInbound tells the core, and its wish for a restart is dropped.
DelDepletedClients(h) ==
    /\ hd[h].op = "depleted"
    /\ LET r      == hd[h]
           late   == {c \in Rowed(rows) :
                        Period[c] = 0 /\ DepletedAt(c, rows[c], r.at)}
           remain == [c \in Client |->
                        IF c \in r.gone THEN "absent" ELSE r.sett[c]]
           last   == r.gone # {} /\ Present(remain) = {}
       IN  /\ rows' = [c \in Client |->
                         IF last \/ c \in late THEN NoRow ELSE rows[c]]
           /\ IF r.gone = {} THEN UNCHANGED <<settings, inbOn>>
              ELSE SaveInbound(remain, r.inb /\ ~last)
           /\ core' = IF last /\ inbOn
                      THEN [core EXCEPT !.inb = FALSE, !.users = {}] ELSE core
    /\ UNCHANGED need
    /\ Finish(h)

\* The inbound's page is opened, and sent back with the clients it showed.
InboundRead(h) ==
    /\ Present(settings) # {}
    /\ Begin(h, "inbound", [op |-> "inbound", sett |-> settings, inb |-> inbOn])

\* A page is not stored when its inbound has gone, nor when it brings back a
\* client whose email has a row: AddClientStat fails, and all is rolled back.
Rejected(s) ==
    \/ Present(settings) = {}
    \/ \E c \in Present(s) \ Present(settings) : rows[c] # NoRow

\* UpdateInbound: updateClientTraffics compares the page with the settings;
\* the core gets the inbound anew, with every client of the page.
UpdateInbound(h) ==
    /\ hd[h].op = "inbound"
    /\ LET s == hd[h].sett
           i == hd[h].inb
       IN  \/ Rejected(s) /\ UNCHANGED <<dbVars, core, need>>
           \/ /\ ~Rejected(s)
              /\ \E fails \in IF Flaky THEN BOOLEAN ELSE {FALSE} :
                 LET added == i /\ core.up /\ ~fails
                 IN  /\ rows' = [c \in Client |->
                           IF c \in Present(settings) \ Present(s) THEN NoRow
                           ELSE IF c \in Present(s) \ Present(settings)
                           THEN NewRow(c, s[c] = "on") ELSE rows[c]]
                     /\ core' = [core EXCEPT !.inb = added,
                                    !.users = IF added THEN Present(s) ELSE {}]
                     /\ need' = (need \/ (i /\ ~added))
                     /\ SaveInbound(s, i)
    /\ Finish(h)

-----------------------------------------------------------------------------
(* The world: traffic, the clock, crashes.                                 *)

Carry(c) ==
    /\ c \in core.users
    /\ carried[c] < MaxTraffic
    /\ ctr' = [ctr EXCEPT ![c] = @ + 1]
    /\ seen' = seen \cup {c}
    /\ carried' = [carried EXCEPT ![c] = @ + 1]
    /\ UNCHANGED <<dbVars, core, conf, need, now, job, rs, hd, crashes, lost>>

Tick ==
    /\ now < MaxNow
    /\ now' = now + 1
    /\ UNCHANGED <<dbVars, coreVars, need, job, rs, hd, carried, crashes, lost>>

Crash ==
    /\ core.up
    /\ crashes < MaxCrash
    /\ crashes' = crashes + 1
    /\ core' = [up |-> FALSE, inb |-> FALSE, users |-> {}]
    /\ ctr' = Zero
    /\ seen' = {}
    /\ UNCHANGED <<dbVars, conf, need, now, job, rs, hd, carried, lost>>

-----------------------------------------------------------------------------

Init ==
    /\ settings \in Settings
    /\ Present(settings) # {}
    /\ \A c \in Client \ Toggled : settings[c] # "off"
    /\ rows = [c \in Client |-> IF settings[c] = "absent" THEN NoRow
                                ELSE NewRow(c, settings[c] = "on")]
    /\ inbOn = TRUE
    /\ conf = GenConfig(settings, rows, TRUE)
    /\ core = [up |-> TRUE, inb |-> TRUE, users |-> conf.users]
    /\ ctr = Zero
    /\ seen = {}
    /\ need = FALSE
    /\ now = 1
    /\ job = Idle
    /\ rs = Idle
    /\ hd = [h \in Handler |-> Idle]
    /\ carried = Zero
    /\ crashes = 0
    /\ lost = 0

HandlerWrites(h) ==
    \/ UpdateInboundClient(h) \/ AddInboundClient(h)
    \/ DelStat(h) \/ DelSave(h)
    \/ ResetClientTraffic(h) \/ UpdateInbound(h) \/ DelDepletedClients(h)

Next ==
    \/ JobCollect \/ JobCommit \/ JobTxFails
    \/ RestartNeeded \/ RestartCrashed \/ RestartForced \/ RestartXray
    \/ \E h \in Handler :
          \/ UpdateRead(h) \/ AddRead(h) \/ DelRead(h) \/ ResetRead(h)
          \/ InboundRead(h) \/ DepletedRead(h) \/ HandlerWrites(h)
          \/ ResetAllClientTraffics(h)
    \/ \E c \in Client : Carry(c)
    \/ Tick \/ Crash

\* Cron goes on launching its jobs, and goroutines go on.  Traffic, requests,
\* crashes and failed transactions are not fair, and neither is the clock.
Fairness ==
    /\ SF_vars(JobCollect)
    /\ WF_vars(JobCommit)
    /\ SF_vars(RestartNeeded)
    /\ SF_vars(RestartCrashed)
    /\ WF_vars(RestartXray)
    /\ \A h \in Handler : WF_vars(HandlerWrites(h))

Spec == Init /\ [][Next]_vars
FairSpec == Spec /\ Fairness

-----------------------------------------------------------------------------
(* Properties.                                                             *)

\* No byte is charged twice: what a row, a batch on its way and the core's
\* counter hold together was carried, whatever overlaps, resets and crashes.
NoOvercount ==
    \A c \in Client :
        ctr[c] + (IF job = Idle THEN 0 ELSE job.batch[c])
               + (IF rows[c] = NoRow THEN 0 ELSE rows[c].used) <= carried[c]

\* Each transaction of the traffic job leaves no enabled row that is exhausted
\* or expired: counting, renewing and cutting off happen in the right order.
EnforcedByTick ==
    [][job # Idle /\ job' = Idle /\ lost' = lost =>
          \A c \in Client : (rows'[c] # NoRow /\ rows'[c].on)
                               => ~Depleted(c, rows'[c])]_vars

\* A request, a tick of the job or a restart, whichever of them come one after
\* another, leaves a running core that admits exactly the clients a restart
\* would admit, or a restart asked for.
Synced ==
    Quiet /\ core.up /\ ~need =>
        core.users = Entitled(settings, rows, inbOn)

\* Clients have a row exactly when they are in the settings.
RowPerClient == Quiet => Present(settings) = Rowed(rows)

Served(c) == c \in core.users

\* An exhausted or expired client loses its connection in the end, unless it
\* is renewed, reset or edited.
DepletedCutOff ==
    \A c \in Client :
        (Served(c) /\ rows[c] # NoRow /\ Depleted(c, rows[c]))
            ~> (~Served(c) \/ rows[c] = NoRow \/ ~Depleted(c, rows[c]))

\* A client with a renewal period that expired is served again.
RenewedEventually ==
    \A c \in Client :
        (/\ Period[c] > 0 /\ settings[c] = "on" /\ inbOn
         /\ rows[c] # NoRow /\ rows[c].exp \in 1..(now - 1))
            ~> (Served(c) \/ settings[c] # "on" \/ rows[c] = NoRow \/ ~inbOn)
==============================================================================
