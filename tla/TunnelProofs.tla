---------------------------- MODULE TunnelProofs ----------------------------
(***************************************************************************)
(* Proofs about Tunnel, for any number of clients, requests and addresses. *)
(***************************************************************************)
EXTENDS Tunnel, TLAPS

-----------------------------------------------------------------------------
(* Types.                                                                  *)

Rows == [Client -> Row \cup {NoRow}]

\* What a request does the job never does, and the other way around.
JobSteps == {"clients", "count", "enforce"}
Roles == \A p \in Proc : op[p].at \in JobSteps => p = "job"

Typed == TypeOK /\ Roles /\ \A c \in Client : counter[c] <= carried[c]

\* What became of the interface when all clients go.
Hows == {"untouched", "down", "failed"}

\* The forms of an operation.
LEMMA OpForms ==
    /\ Idle \in Op
    /\ \A at \in {"boot", "server", "enable", "read", "down", "enforce"} : [at |-> at] \in Op
    /\ \A reset \in BOOLEAN : [at |-> "stop", reset |-> reset] \in Op
    /\ \A at \in {"clear", "off"}, reset \in BOOLEAN, how \in Hows :
         [at |-> at, reset |-> reset, how |-> how] \in Op
    /\ \A on \in BOOLEAN, c \in Client, row \in Row :
         [at |-> "create", on |-> on, c |-> c, row |-> row] \in Op
    /\ \A at \in {"lookup", "save"}, c \in Client, row \in Row :
         [at |-> at, c |-> c, row |-> row] \in Op
    /\ \A on \in BOOLEAN, c \in Client : [at |-> "drop", on |-> on, c |-> c] \in Op
    /\ \A on \in SUBSET Client : [at |-> "load", on |-> on] \in Op
    /\ \A seen \in SUBSET Client, counts \in [Client -> Units] :
         [at |-> "clients", seen |-> seen, counts |-> counts] \in Op
    /\ \A seen \in SUBSET Client, counts \in [Client -> Units], rows \in Rows :
         [at |-> "count", seen |-> seen, counts |-> counts, rows |-> rows] \in Op
  BY DEF Op, Idle, Rows, Hows

\* What is known of an operation from the name of its next step.
LEMMA OpFields ==
    ASSUME NEW o \in Op
    PROVE  /\ o.at \in {"create", "lookup", "save"} => o.c \in Client /\ o.row \in Row
           /\ o.at = "drop" => o.c \in Client
           /\ o.at \in {"create", "drop"} => o.on \in BOOLEAN
           /\ o.at \in {"stop", "clear", "off"} => o.reset \in BOOLEAN
           /\ o.at \in {"clear", "off"} => o.how \in Hows
           /\ o.at \in {"clear", "off"} =>
                \A at : [o EXCEPT !.at = at] = [at |-> at, reset |-> o.reset, how |-> o.how]
           /\ o.at = "load" => o.on \in SUBSET Client
           /\ o.at \in {"clients", "count"} => /\ o.seen \in SUBSET Client
                                               /\ o.counts \in [Client -> Units]
           /\ o.at = "count" => o.rows \in Rows
           /\ o.at \in {"lookup", "save"} =>
                \A at : [o EXCEPT !.at = at] = [at |-> at, c |-> o.c, row |-> o.row]
  BY DEF Op, Idle, Rows, Hows

\* A row whose counters, switch or expiry are set is a row, of the same address.
LEMMA RowSet ==
    ASSUME NEW r \in Row
    PROVE  /\ \A on \in BOOLEAN : /\ [r EXCEPT !.enable = on] \in Row
                                  /\ [r EXCEPT !.enable = on].addr = r.addr
                                  /\ [r EXCEPT !.enable = on].used = r.used
                                  /\ [r EXCEPT !.enable = on].all = r.all
           /\ [r EXCEPT !.used = 0] \in Row
           /\ [r EXCEPT !.used = 0].addr = r.addr
           /\ [r EXCEPT !.used = 0].enable = r.enable
           /\ [r EXCEPT !.expiry = "passed"] \in Row
           /\ [r EXCEPT !.expiry = "passed"].addr = r.addr
           /\ [r EXCEPT !.expiry = "passed"].used = r.used
           /\ [r EXCEPT !.expiry = "passed"].all = r.all
           /\ [r EXCEPT !.expiry = "passed"].enable = r.enable
  BY TunnelAssumption DEF Row, Units

\* Stored keeps the row but for its counters.
LEMMA StoredRow ==
    ASSUME NEW now \in Row, NEW was \in Row, NEW n \in Units
    PROVE  /\ Stored(now, was, n) \in Row
           /\ Stored(now, was, n).addr = now.addr
           /\ Stored(now, was, n).enable = now.enable
           /\ \/ Stored(now, was, n) = now
              \/ /\ Stored(now, was, n).used = n
                 /\ Stored(now, was, n).all =
                      was.all + (IF n > was.used THEN n - was.used ELSE 0)
  <1> DEFINE m == IF n > was.used THEN n - was.used ELSE 0
             sum == was.all + m
  <1>1. sum \in Nat
    <2>1. was.all \in Nat /\ was.used \in Nat /\ n \in Nat
      BY TunnelAssumption DEF Row, Units
    <2> QED BY <2>1
  <1>2. Stored(now, was, n) = IF n = was.used THEN now ELSE [now EXCEPT !.used = n, !.all = sum]
    BY DEF Stored
  <1>3. sum = was.all + (IF n > was.used THEN n - was.used ELSE 0)
    OBVIOUS
  <1> HIDE DEF sum
  <1>4. /\ [now EXCEPT !.used = n, !.all = sum] \in Row
        /\ [now EXCEPT !.used = n, !.all = sum].addr = now.addr
        /\ [now EXCEPT !.used = n, !.all = sum].enable = now.enable
        /\ [now EXCEPT !.used = n, !.all = sum].used = n
        /\ [now EXCEPT !.used = n, !.all = sum].all = sum
    BY <1>1 DEF Row
  <1> QED BY <1>2, <1>3, <1>4

Enforced(c, r) == disableInvalid(c, adjustDelayedStart(autoRenew(c, r)))

\* Enforcing keeps the address and, unless the client is renewed, the counters;
\* without Reconfig it keeps the switch.
LEMMA EnforcedRow ==
    ASSUME NEW c \in Client, NEW r \in Row
    PROVE  /\ Enforced(c, r) \in Row
           /\ Enforced(c, r).addr = r.addr
           /\ ~(Renews[c] /\ r.expiry = "passed") =>
                Enforced(c, r).used = r.used /\ Enforced(c, r).all = r.all
           /\ ~Reconfig(c, r) => Enforced(c, r).enable = r.enable
  <1> DEFINE a == autoRenew(c, r)
             b == adjustDelayedStart(a)
  <1>1. /\ a \in Row /\ a.addr = r.addr
        /\ ~(Renews[c] /\ r.expiry = "passed") => a = r
    <2>1. 0 \in Units
      BY TunnelAssumption DEF Units
    <2>2. CASE Renews[c] /\ r.expiry = "passed"
      <3>1. a = [r EXCEPT !.expiry = "ahead", !.used = 0, !.enable = TRUE]
        BY <2>2 DEF autoRenew
      <3>2. /\ [r EXCEPT !.expiry = "ahead", !.used = 0, !.enable = TRUE] \in Row
            /\ [r EXCEPT !.expiry = "ahead", !.used = 0, !.enable = TRUE].addr = r.addr
        BY <2>1 DEF Row
      <3> QED BY <2>2, <3>1, <3>2
    <2>3. CASE ~(Renews[c] /\ r.expiry = "passed")
      BY <2>3 DEF autoRenew
    <2> QED BY <2>2, <2>3
  <1>2. b \in Row /\ b.addr = a.addr /\ b.used = a.used /\ b.all = a.all /\ b.enable = a.enable
    <2> HIDE DEF a
    <2> QED BY <1>1 DEF Row, adjustDelayedStart
  <1>3. /\ disableInvalid(c, b) \in Row /\ disableInvalid(c, b).addr = b.addr
        /\ disableInvalid(c, b).used = b.used /\ disableInvalid(c, b).all = b.all
    <2> HIDE DEF b
    <2> QED BY <1>2 DEF Row, disableInvalid
  <1>4. ~Reconfig(c, r) => Enforced(c, r).enable = r.enable
    <2>1. ~Reconfig(c, r) => disableInvalid(c, b) = b /\ a.enable = r.enable
      BY DEF Reconfig
    <2>2. Enforced(c, r) = disableInvalid(c, b)
      BY DEF Enforced
    <2> HIDE DEF a, b
    <2> QED BY <1>2, <2>1, <2>2
  <1>5. Enforced(c, r) = disableInvalid(c, b)
    BY DEF Enforced
  <1> HIDE DEF a, b
  <1> QED BY <1>1, <1>2, <1>3, <1>4, <1>5

LEMMA OpSet ==
    ASSUME Typed, NEW p \in Proc, NEW o \in Op, op' = [op EXCEPT ![p] = o],
           o.at \in JobSteps => p = "job"
    PROVE  op' \in [Proc -> Op] /\ Roles'
  BY DEF Typed, TypeOK, Roles

\* The interface keeps the counters of some peers and sets the rest back.
Kept == \A c \in Client : counter'[c] = counter[c] \/ counter'[c] = 0

LEMMA KeptTypes ==
    ASSUME Typed, Kept, counter' \in [Client -> Nat], UNCHANGED carried
    PROVE  counter' \in [Client -> Units] /\ \A c \in Client : counter'[c] <= carried'[c]
  BY TunnelAssumption DEF Typed, TypeOK, Kept, Units

\* A step of an operation keeps the types.
LEMMA StepTypes ==
    ASSUME Typed, NEW p \in Proc, Step(p)
    PROVE  Typed'
  <1> USE DEF Applied, NotApplied, Unapplied, End, Go, Apply, Stopping
  <1>t. /\ enabled \in BOOLEAN /\ net \in Nets /\ up \in BOOLEAN /\ peers \in SUBSET Client
        /\ db \in Rows /\ op[p] \in Op
        /\ counter \in [Client -> Units] /\ carried \in [Client -> Units]
        /\ wiped \in SUBSET Client /\ born \in SUBSET Client
        /\ crossed \in BOOLEAN /\ moved \in BOOLEAN /\ solo \in BOOLEAN /\ settled \in BOOLEAN
        /\ events \in 0 .. MaxEvents /\ faults \in 0 .. MaxFaults
        /\ \A c \in Client : counter[c] <= carried[c]
    BY DEF Typed, TypeOK, Rows
  <1>m. MaxEvents \in Nat /\ MaxFaults \in Nat /\ DefaultNet \in Nets
    BY TunnelAssumption
  <1>f. /\ op[p].at \in {"create", "lookup", "save"} => op[p].c \in Client /\ op[p].row \in Row
        /\ op[p].at = "drop" => op[p].c \in Client
        /\ op[p].at \in {"create", "drop"} => op[p].on \in BOOLEAN
        /\ op[p].at \in {"stop", "clear", "off"} => op[p].reset \in BOOLEAN
        /\ op[p].at \in {"clear", "off"} =>
             /\ op[p].how \in Hows
             /\ [op[p] EXCEPT !.at = "off"] = [at |-> "off", reset |-> op[p].reset, how |-> op[p].how]
        /\ op[p].at = "load" => op[p].on \in SUBSET Client
        /\ op[p].at \in {"clients", "count"} =>
             op[p].seen \in SUBSET Client /\ op[p].counts \in [Client -> Units]
        /\ op[p].at = "count" => op[p].rows \in Rows
        /\ op[p].at \in {"lookup", "save"} =>
             \A at : [op[p] EXCEPT !.at = at] = [at |-> at, c |-> op[p].c, row |-> op[p].row]
    BY <1>t, OpFields
  <1>i. /\ Idle \in Op /\ Idle.at \notin JobSteps
        /\ [at |-> "read"] \in Op
    BY OpForms DEF Idle, JobSteps
  <1>1. \E o \in Op : op' = [op EXCEPT ![p] = o] /\ (o.at \in JobSteps => p = "job")
    <2>1. CASE ReadClients(p)
      <3>1. [at |-> "load", on |-> {c \in Client : db[c].enable}] \in Op
        BY OpForms
      <3> QED BY <2>1, <3>1 DEF ReadClients, JobSteps
    <2>2. CASE \/ SyncConfig(p) \/ Start(p) \/ Restart(p) \/ StartFails(p)
               \/ Stop(p) \/ StopFails(p)
      BY <2>2, <1>i DEF SyncConfig, Start, Restart, StartFails, Stop, StopFails, InterfaceUp
    <2>3. CASE StartIfEnabled(p) \/ GetServer(p) \/ DeleteClient(p)
      BY <2>3, <1>i DEF StartIfEnabled, GetServer, DeleteClient, JobSteps
    <2>4. CASE DeleteAllStop(p) \/ DeleteAllRows(p) \/ DisableServer(p) \/ ResetFails(p)
      <3>1. op[p].at = "stop" => /\ [at |-> "clear", reset |-> op[p].reset, how |-> "down"] \in Op
                                 /\ [at |-> "clear", reset |-> op[p].reset, how |-> "failed"] \in Op
        BY <1>f, OpForms DEF Hows
      <3>2. op[p].at = "clear" => [at |-> "off", reset |-> op[p].reset, how |-> op[p].how] \in Op
        BY <1>f, OpForms
      <3> QED BY <2>4, <1>i, <1>f, <3>1, <3>2
           DEF DeleteAllStop, DeleteAllRows, DisableServer, ResetFails, JobSteps
    <2>5. CASE Create(p)
      <3>1. [at |-> "enable"] \in Op
        BY OpForms
      <3> QED BY <2>5, <1>i, <3>1 DEF Create, JobSteps
    <2>6. CASE AutoEnable(p)
      BY <2>6, <1>i DEF AutoEnable, JobSteps
    <2>7. CASE UpdateClientByUUID(p)
      <3>1. [op[p] EXCEPT !.at = "save"] = [at |-> "save", c |-> op[p].c, row |-> op[p].row]
        BY <2>7, <1>f DEF UpdateClientByUUID
      <3>2. [at |-> "save", c |-> op[p].c, row |-> op[p].row] \in Op
        BY <2>7, <1>f, OpForms DEF UpdateClientByUUID
      <3> QED BY <2>7, <1>i, <3>1, <3>2 DEF UpdateClientByUUID, JobSteps
    <2>8. CASE UpdateClient(p)
      <3>1. [at |-> "server"] \in Op
        BY OpForms
      <3> QED BY <2>8, <3>1 DEF UpdateClient, JobSteps
    <2>9. CASE FindClients(p)
      <3>1. [at |-> "count", seen |-> op[p].seen, counts |-> op[p].counts, rows |-> db] \in Op
        BY <2>9, <1>t, <1>f, OpForms DEF FindClients
      <3>2. p = "job"
        BY <2>9 DEF FindClients, Typed, Roles, JobSteps
      <3> QED BY <2>9, <3>1, <3>2 DEF FindClients
    <2>10. CASE Count(p)
      <3>1. [at |-> "enforce"] \in Op
        BY OpForms
      <3>2. p = "job"
        BY <2>10 DEF Count, Typed, Roles, JobSteps
      <3> QED BY <2>10, <3>1, <3>2 DEF Count
    <2>11. CASE Enforce(p)
      BY <2>11, <1>i DEF Enforce, JobSteps
    <2> QED BY <2>1, <2>2, <2>3, <2>4, <2>5, <2>6, <2>7, <2>8, <2>9, <2>10, <2>11 DEF Step
  <1>2. op' \in [Proc -> Op] /\ Roles'
    BY <1>1, OpSet
  <1>3. db' \in Rows
    <2>1. CASE Create(p) \/ UpdateClient(p)
      BY <2>1, <1>t, <1>f DEF Create, UpdateClient, Rows
    <2>2. CASE DeleteClient(p) \/ DeleteAllRows(p)
      BY <2>2, <1>t, <1>f DEF DeleteClient, DeleteAllRows, Rows
    <2>3. CASE Count(p)
      <3>1. ASSUME NEW c \in Client, op[p].rows[c] # NoRow, HasRow(c)
            PROVE  Stored(db[c], op[p].rows[c], op[p].counts[c]) \in Row
        <4>1. op[p].rows[c] \in Row /\ db[c] \in Row /\ op[p].counts[c] \in Units
          BY <2>3, <1>t, <1>f, <3>1 DEF Count, HasRow, Rows
        <4> QED BY <4>1, StoredRow
      <3> QED BY <2>3, <1>t, <3>1 DEF Count, Rows
    <2>4. CASE Enforce(p)
      <3>1. ASSUME NEW c \in Client, HasRow(c) PROVE Enforced(c, db[c]) \in Row
        <4>1. db[c] \in Row
          BY <1>t, <3>1 DEF HasRow, Rows
        <4> QED BY <4>1, EnforcedRow
      <3> QED BY <2>4, <3>1 DEF Enforce, Enforced, Rows
    <2>5. CASE UNCHANGED db
      BY <2>5, <1>t
    <2> QED BY <2>1, <2>2, <2>3, <2>4, <2>5
         DEF Step, ReadClients, SyncConfig, Start, Restart, StartFails, InterfaceUp, Stop,
             StopFails, StartIfEnabled, AutoEnable, UpdateClientByUUID, GetServer, FindClients,
             DeleteAllStop, DisableServer, ResetFails
  <1>4. counter' \in [Client -> Units] /\ \A c \in Client : counter'[c] <= carried'[c]
    <2>1. Kept /\ counter' \in [Client -> Nat] /\ UNCHANGED carried
      BY <1>t DEF Kept, Units, Step, ReadClients, SyncConfig, Start, Restart, StartFails,
         InterfaceUp, InterfaceDown, Stop, StopFails, StartIfEnabled, AutoEnable,
         UpdateClientByUUID, GetServer, FindClients, Create, UpdateClient, DeleteClient,
         DeleteAllStop, DeleteAllRows, DisableServer, Renumber, ResetFails, Count, Enforce,
         server, kernel
    <2> QED BY <2>1, KeptTypes
  <1>5. /\ enabled' \in BOOLEAN /\ net' \in Nets /\ up' \in BOOLEAN /\ peers' \in SUBSET Client
        /\ UNCHANGED <<carried, born>> /\ wiped' \in SUBSET Client
        /\ settled' \in BOOLEAN /\ crossed' \in BOOLEAN /\ moved' \in BOOLEAN /\ UNCHANGED solo
    <2>1. CASE DisableServer(p)
      <3>1. /\ enabled' = FALSE /\ settled' \in BOOLEAN
            /\ UNCHANGED <<up, peers, carried, wiped, born, crossed, solo>>
        BY <1>t, <2>1 DEF DisableServer, kernel
      <3>2. \/ UNCHANGED <<net, moved>>
            \/ net' = DefaultNet /\ moved' = (moved \/ DefaultNet # net)
        BY <2>1 DEF DisableServer, Renumber
      <3> QED BY <1>t, <1>m, <3>1, <3>2
    <2>2. CASE ~DisableServer(p)
      BY <1>t, <1>f, <2>2 DEF Step, ReadClients, SyncConfig, Start, Restart, StartFails,
         InterfaceUp, InterfaceDown, Stop, StopFails, StartIfEnabled, AutoEnable,
         UpdateClientByUUID, GetServer, FindClients, Create, UpdateClient, DeleteClient,
         DeleteAllStop, DeleteAllRows, ResetFails, Count, Enforce, server, kernel, histories
    <2> QED BY <2>1, <2>2
  <1>6. events' \in 0 .. MaxEvents /\ faults' \in 0 .. MaxFaults
    BY <1>t, <1>m DEF Step, ReadClients, SyncConfig, Start, Restart, StartFails,
       InterfaceUp, InterfaceDown, Stop, StopFails, StartIfEnabled, AutoEnable,
       UpdateClientByUUID, GetServer, FindClients, Create, UpdateClient, DeleteClient,
       DeleteAllStop, DeleteAllRows, DisableServer, Renumber, ResetFails, Count, Enforce,
       bounds, Fault, Counted
  <1> QED BY <1>t, <1>2, <1>3, <1>4, <1>5, <1>6 DEF Typed, TypeOK, Rows

\* A request that begins keeps the types.
LEMMA RequestTypes ==
    ASSUME Typed, NEW p \in Proc, p # "job", Request(p)
    PROVE  Typed'
  <1>t. /\ enabled \in BOOLEAN /\ db \in Rows /\ net \in Nets /\ moved \in BOOLEAN
        /\ born \in SUBSET Client /\ crossed \in BOOLEAN /\ settled \in BOOLEAN
        /\ events \in 0 .. MaxEvents
    BY DEF Typed, TypeOK, Rows
  <1>m. MaxEvents \in Nat /\ 0 \in Units
    BY TunnelAssumption DEF Units
  <1>1. /\ \/ \E o \in Op : op' = [op EXCEPT ![p] = o] /\ o.at \notin JobSteps
           \/ UNCHANGED op
        /\ born' \in SUBSET Client /\ crossed' \in BOOLEAN
    <2> USE DEF Begin, JobSteps, Stopping
    <2>1. CASE toggleServer(p)
      <3>1. [at |-> "read"] \in Op /\ [at |-> "down"] \in Op
        BY OpForms
      <3> QED BY <2>1, <1>t, <3>1 DEF toggleServer, histories
    <2>2. CASE SaveServer(p)
      <3>1. [at |-> "read"] \in Op
        BY OpForms
      <3> QED BY <2>2, <1>t, <3>1 DEF SaveServer
    <2>3. CASE deleteAll(p)
      <3>1. \A reset \in BOOLEAN :
              /\ [at |-> "stop", reset |-> reset] \in Op
              /\ [at |-> "clear", reset |-> reset, how |-> "untouched"] \in Op
        BY OpForms DEF Hows
      <3> QED BY <2>3, <1>t, <3>1 DEF deleteAll, histories
    <2>4. CASE addClient(p)
      <3>1. PICK c \in Client \ born, a \in net.pool :
              /\ AllocateIPv4(db, a)
              /\ Begin(p, [at |-> "create", on |-> enabled, c |-> c,
                           row |-> [enable |-> TRUE, addr |-> a, used |-> 0, all |-> 0,
                                    expiry |-> Lifetime[c]]])
              /\ born' = born \cup {c}
        BY <2>4 DEF addClient
      <3> DEFINE row == [enable |-> TRUE, addr |-> a, used |-> 0, all |-> 0,
                         expiry |-> Lifetime[c]]
      <3>2. row \in Row
        <4>1. a \in Addr
          BY <1>t, <3>1 DEF AllocateIPv4, Free, Addr
        <4>2. Lifetime[c] \in {"none", "delayed", "ahead"}
          BY TunnelAssumption
        <4> QED BY <1>m, <4>1, <4>2 DEF Row
      <3> HIDE DEF row
      <3>3. [at |-> "create", on |-> enabled, c |-> c, row |-> row] \in Op
        BY <1>t, <3>2, OpForms
      <3>4. op' = [op EXCEPT ![p] = [at |-> "create", on |-> enabled, c |-> c, row |-> row]]
        BY <3>1 DEF row
      <3>5. crossed' \in BOOLEAN
        BY <2>4, <1>t DEF addClient, Creating
      <3> QED BY <1>t, <3>1, <3>3, <3>4, <3>5
    <2>5. CASE openClient(p)
      <3>1. PICK c \in Client, on \in BOOLEAN, at \in {"lookup", "save"} :
              /\ HasRow(c)
              /\ op' = [op EXCEPT ![p] = [at |-> at, c |-> c, row |-> [db[c] EXCEPT !.enable = on]]]
        BY <2>5 DEF openClient
      <3>2. [db[c] EXCEPT !.enable = on] \in Row
        BY <1>t, <3>1, RowSet DEF HasRow, Rows
      <3>3. [at |-> at, c |-> c, row |-> [db[c] EXCEPT !.enable = on]] \in Op
        BY <3>2, OpForms
      <3> DEFINE o == [at |-> at, c |-> c, row |-> [db[c] EXCEPT !.enable = on]]
      <3>4. o \in Op /\ o.at \notin JobSteps /\ op' = [op EXCEPT ![p] = o]
        BY <3>1, <3>3 DEF JobSteps
      <3>5. UNCHANGED <<born, crossed>>
        BY <2>5 DEF openClient, histories
      <3> HIDE DEF o
      <3> QED BY <1>t, <3>4, <3>5
    <2>6. CASE deleteClient(p)
      <3>1. PICK c \in Client :
              op' = [op EXCEPT ![p] = [at |-> "drop", on |-> enabled, c |-> c]]
        BY <2>6 DEF deleteClient
      <3>2. [at |-> "drop", on |-> enabled, c |-> c] \in Op
        BY <1>t, OpForms
      <3> QED BY <2>6, <1>t, <3>1, <3>2 DEF deleteClient, histories
    <2> QED BY <2>1, <2>2, <2>3, <2>4, <2>5, <2>6 DEF Request
  <1>2. op' \in [Proc -> Op] /\ Roles'
    BY <1>1, OpSet DEF Typed, TypeOK, Roles
  <1>3. /\ UNCHANGED <<up, peers, counter, db, carried, wiped, faults>>
        /\ enabled' \in BOOLEAN /\ net' \in Nets /\ moved' \in BOOLEAN
        /\ solo' = Quiet /\ settled' \in BOOLEAN
    BY <1>t DEF Request, toggleServer, SaveServer, Renumber, deleteAll, addClient, openClient,
       deleteClient, Begin, Event, histories, server, kernel, Quiet
  <1>4. events' \in 0 .. MaxEvents
    BY <1>t, <1>m DEF Request, toggleServer, SaveServer, Renumber, deleteAll, addClient,
       openClient,
       deleteClient, Event, Counted
  <1>5. solo' \in BOOLEAN
    BY <1>3 DEF Quiet
  <1> QED BY <1>1, <1>2, <1>3, <1>4, <1>5 DEF Typed, TypeOK

\* So do the other steps.
LEMMA OtherTypes ==
    ASSUME Typed,
           \/ \E p \in Proc : UpdateTrafficStats(p)
           \/ \E c \in Client : ResetClientTraffic(c) \/ Carry(c) \/ Expire(c)
           \/ ResetAllClientTraffics \/ Crash
    PROVE  Typed'
  <1>t. /\ enabled \in BOOLEAN /\ net \in Nets /\ up \in BOOLEAN /\ peers \in SUBSET Client
        /\ db \in Rows /\ op \in [Proc -> Op]
        /\ counter \in [Client -> Units] /\ carried \in [Client -> Units]
        /\ wiped \in SUBSET Client /\ born \in SUBSET Client
        /\ crossed \in BOOLEAN /\ moved \in BOOLEAN /\ solo \in BOOLEAN /\ settled \in BOOLEAN
        /\ events \in 0 .. MaxEvents /\ faults \in 0 .. MaxFaults
        /\ \A c \in Client : counter[c] <= carried[c]
    BY DEF Typed, TypeOK, Rows
  <1>m. MaxEvents \in Nat /\ MaxFaults \in Nat /\ MaxTraffic \in Nat /\ "job" \in Proc
    BY TunnelAssumption DEF Proc
  <1>r. \A c \in Client : HasRow(c) => db[c] \in Row
    BY <1>t DEF HasRow, Rows
  <1>1. ASSUME NEW p \in Proc, UpdateTrafficStats(p) PROVE Typed'
    <2>1. [at |-> "clients", seen |-> peers, counts |-> counter] \in Op
      BY <1>t, OpForms
    <2>2. op' = [op EXCEPT ![p] = [at |-> "clients", seen |-> peers, counts |-> counter]]
      BY <1>1 DEF UpdateTrafficStats, Begin
    <2>3. op' \in [Proc -> Op] /\ Roles'
      BY <1>1, <2>1, <2>2, OpSet DEF UpdateTrafficStats
    <2>4. solo' \in BOOLEAN /\ UNCHANGED <<server, db, carried, histories, settled, bounds>>
      BY <1>1 DEF UpdateTrafficStats, Begin, Quiet
    <2> QED BY <1>t, <2>3, <2>4 DEF Typed, TypeOK, Rows, server, kernel, histories, bounds
  <1>2. ASSUME NEW c \in Client, ResetClientTraffic(c) PROVE Typed'
    <2>1. [db[c] EXCEPT !.used = 0] \in Row
      BY <1>2, <1>r, RowSet DEF ResetClientTraffic
    <2>2. db' \in Rows
      BY <1>t, <1>2, <2>1 DEF ResetClientTraffic, Rows
    <2> QED BY <1>t, <1>m, <1>2, <2>2
         DEF Typed, TypeOK, Rows, Roles, ResetClientTraffic, server, kernel, Event, Counted
  <1>3. ASSUME NEW c \in Client, Carry(c) PROVE Typed'
    <2>1. counter' \in [Client -> Units] /\ carried' \in [Client -> Units]
          /\ \A d \in Client : counter'[d] <= carried'[d]
      BY <1>t, <1>m, <1>3 DEF Carry, Units
    <2> QED BY <1>t, <1>3, <2>1 DEF Typed, TypeOK, Rows, Roles, Carry, histories, bounds
  <1>4. ASSUME NEW c \in Client, Expire(c) PROVE Typed'
    <2>1. [db[c] EXCEPT !.expiry = "passed"] \in Row
      BY <1>4, <1>r, RowSet DEF Expire
    <2>2. db' \in Rows
      BY <1>t, <1>4, <2>1 DEF Expire, Rows
    <2> QED BY <1>t, <1>m, <1>4, <2>2
         DEF Typed, TypeOK, Rows, Roles, Expire, server, kernel, histories, Event, Counted
  <1>5. ASSUME ResetAllClientTraffics PROVE Typed'
    <2>1. \A c \in Client : HasRow(c) => [db[c] EXCEPT !.enable = TRUE] \in Row
      BY <1>r, RowSet
    <2>2. db' \in Rows
      BY <1>t, <1>5, <2>1 DEF ResetAllClientTraffics, Rows
    <2>3. /\ UNCHANGED <<server, op, carried, histories, faults>>
          /\ solo' = FALSE /\ settled' = FALSE
      BY <1>5 DEF ResetAllClientTraffics, Event
    <2>4. events' \in 0 .. MaxEvents
      BY <1>t, <1>m, <1>5 DEF ResetAllClientTraffics, Event, Counted
    <2> QED BY <1>t, <2>2, <2>3, <2>4 DEF Typed, TypeOK, Rows, Roles, server, kernel, histories
  <1>6. ASSUME Crash PROVE Typed'
    <2>1. [at |-> "boot"] \in Op /\ Idle \in Op
      BY OpForms
    <2>2. op' \in [Proc -> Op] /\ Roles'
      BY <1>6, <2>1 DEF Crash, Roles, JobSteps, Idle
    <2>3. up' \in BOOLEAN /\ peers' \in SUBSET Client /\ settled' \in BOOLEAN
      BY <1>t, <1>6 DEF Crash, InterfaceDown, kernel, Quiet
    <2>4. Kept /\ counter' \in [Client -> Nat] /\ UNCHANGED carried
      BY <1>t, <1>6 DEF Crash, InterfaceDown, kernel, Kept, Units
    <2>5. counter' \in [Client -> Units] /\ \A c \in Client : counter'[c] <= carried'[c]
      BY <2>4, KeptTypes
    <2>6. events' \in 0 .. MaxEvents /\ faults' \in 0 .. MaxFaults
      BY <1>t, <1>m, <1>6 DEF Crash, Fault, Counted
    <2> QED BY <1>t, <1>6, <2>2, <2>3, <2>4, <2>5, <2>6
         DEF Typed, TypeOK, Rows, Crash, histories
  <1> QED BY <1>1, <1>2, <1>3, <1>4, <1>5, <1>6

LEMMA TypedInit == Init => Typed
  <1> SUFFICES ASSUME Init PROVE Typed
    OBVIOUS
  <1>1. MaxTraffic \in Nat /\ MaxEvents \in Nat /\ MaxFaults \in Nat /\ DefaultNet \in Nets
    BY TunnelAssumption
  <1>2. Idle \in Op
    BY OpForms
  <1>3. op \in [Proc -> Op] /\ Roles
    BY <1>2 DEF Init, Roles, JobSteps, Idle
  <1>4. /\ counter \in [Client -> Units] /\ carried \in [Client -> Units]
        /\ \A c \in Client : counter[c] <= carried[c]
    BY <1>1 DEF Init, Units
  <1>5. /\ db \in Rows /\ events \in 0 .. MaxEvents /\ faults \in 0 .. MaxFaults
    BY <1>1 DEF Init, Rows
  <1>6. /\ wiped \in SUBSET Client /\ born \in SUBSET Client /\ peers \in SUBSET Client
        /\ up \in BOOLEAN /\ enabled \in BOOLEAN /\ net \in Nets
        /\ crossed \in BOOLEAN /\ moved \in BOOLEAN /\ solo \in BOOLEAN /\ settled \in BOOLEAN
    BY <1>1 DEF Init
  <1> QED BY <1>3, <1>4, <1>5, <1>6 DEF Typed, TypeOK, Rows

LEMMA TypedNext == Typed /\ [Next]_vars => Typed'
  <1> SUFFICES ASSUME Typed, [Next]_vars PROVE Typed'
    OBVIOUS
  <1>1. CASE \E p \in Handler : Request(p)
    <2>1. \A p \in Handler : p \in Proc /\ p # "job"
      BY TunnelAssumption DEF Proc
    <2> QED BY <1>1, <2>1, RequestTypes
  <1>2. CASE \E p \in Proc : Step(p)
    BY <1>2, StepTypes
  <1>3. CASE \/ \E p \in Proc : UpdateTrafficStats(p)
             \/ \E c \in Client : ResetClientTraffic(c) \/ Carry(c) \/ Expire(c)
             \/ ResetAllClientTraffics \/ Crash
    BY <1>3, OtherTypes
  <1>4. CASE UNCHANGED vars
    BY <1>4 DEF vars, server, kernel, histories, bounds, Typed, TypeOK, Roles
  <1> QED BY <1>1, <1>2, <1>3, <1>4 DEF Next

\* Type correctness, of what the operations under way hold too.
THEOREM Types == Spec => []TypeOK
  <1>1. Spec => []Typed
    BY TypedInit, TypedNext, PTL DEF Spec
  <1>2. Typed => TypeOK
    BY DEF Typed
  <1> QED BY <1>1, <1>2, PTL

-----------------------------------------------------------------------------
(* Addresses.                                                              *)

Copying == {"lookup", "save"}
Holding == {"create"} \cup Copying

\* Only clients that were added have a row, in the database or under way.
BornFirst ==
    /\ \A c \in Client : HasRow(c) => c \in born
    /\ \A p \in Proc : op[p].at \in Holding => op[p].c \in born

\* What keeps the addresses apart while nothing crossed: the only client that is
\* being added has an address no row has, and no row and no copy of its own; a
\* copy has the address of its row, as long as that is there.
Apart ==
    /\ AddressesDiffer
    /\ \A p, q \in Proc : op[p].at = "create" /\ op[q].at = "create" => p = q
    /\ \A p \in Proc : op[p].at = "create" =>
         /\ ~HasRow(op[p].c)
         /\ \A c \in Client : HasRow(c) => db[c].addr # op[p].row.addr
         /\ \A q \in Proc : op[q].at \in Copying => op[q].c # op[p].c
    /\ \A p \in Proc : op[p].at \in Copying /\ HasRow(op[p].c) =>
         op[p].row.addr = db[op[p].c].addr

AddrInv == Typed /\ BornFirst /\ (~crossed => Apart)

\* Rows are lost at most and keep their addresses; operations drop what they
\* hold at most.
Loses ==
    /\ \A c \in Client : db'[c] # NoRow => HasRow(c) /\ db'[c].addr = db[c].addr
    /\ \A p \in Proc : op'[p].at \in Holding =>
         /\ op[p].at \in Holding /\ (op'[p].at = "create" <=> op[p].at = "create")
         /\ op'[p].c = op[p].c /\ op'[p].row = op[p].row

LEMMA LosesApart ==
    ASSUME AddrInv, Typed', Loses, UNCHANGED <<born, crossed>>
    PROVE  AddrInv'
  <1>1. \A p \in Proc : op[p].at \in Holding => op[p].c \in Client
    BY OpFields DEF AddrInv, Typed, TypeOK, Holding, Copying
  <1>2. BornFirst'
    BY DEF AddrInv, BornFirst, Loses, HasRow
  <1>3. ASSUME ~crossed' PROVE Apart'
    <2>1. ~crossed /\ Apart
      BY <1>3 DEF AddrInv
    <2>2. AddressesDiffer'
      BY <2>1 DEF Apart, AddressesDiffer, Loses, HasRow
    <2>3. \A p, q \in Proc : op'[p].at = "create" /\ op'[q].at = "create" => p = q
      BY <2>1 DEF Apart, Loses, Holding
    <2>4. ASSUME NEW p \in Proc, op'[p].at = "create"
          PROVE  /\ ~HasRow(op[p].c)'
                 /\ \A c \in Client : HasRow(c)' => db'[c].addr # op'[p].row.addr
                 /\ \A q \in Proc : op'[q].at \in Copying => op'[q].c # op'[p].c
      <3>1. op[p].at = "create" /\ op'[p].c = op[p].c /\ op'[p].row = op[p].row
        BY <2>4 DEF Loses, Holding
      <3>2. ~HasRow(op[p].c)'
        BY <1>1, <2>1, <3>1 DEF Apart, Loses, HasRow, Holding
      <3>3. \A c \in Client : HasRow(c)' => db'[c].addr # op'[p].row.addr
        BY <2>1, <3>1 DEF Apart, Loses, HasRow
      <3>4. \A q \in Proc : op'[q].at \in Copying => op'[q].c # op'[p].c
        BY <2>1, <3>1 DEF Apart, Loses, Holding, Copying
      <3> QED BY <3>2, <3>3, <3>4
    <2>5. ASSUME NEW p \in Proc, op'[p].at \in Copying, HasRow(op[p].c)'
          PROVE  op'[p].row.addr = db'[op'[p].c].addr
      <3>1. op[p].at \in Copying /\ op'[p].c = op[p].c /\ op'[p].row = op[p].row
        BY <2>5 DEF Loses, Holding, Copying
      <3>2. HasRow(op[p].c) /\ db'[op[p].c].addr = db[op[p].c].addr
        BY <1>1, <2>5, <3>1 DEF Loses, HasRow, Holding
      <3> QED BY <2>1, <3>1, <3>2 DEF Apart
    <2> QED BY <2>2, <2>3, <2>4, <2>5 DEF Apart, HasRow
  <1> QED BY <1>2, <1>3 DEF AddrInv

\* A client's row is stored for the first time: its address is free.
LEMMA CreateApart ==
    ASSUME AddrInv, Typed', NEW p \in Proc, Create(p)
    PROVE  AddrInv'
  <1> DEFINE x == op[p].c
  <1>1. /\ op[p].at = "create" /\ x \in Client /\ op[p].row \in Row /\ x \in born
        /\ op \in [Proc -> Op] /\ db \in Rows
    BY OpFields DEF Create, AddrInv, Typed, TypeOK, BornFirst, Holding, Rows
  <1>2. /\ db'[x] = op[p].row /\ \A c \in Client : c # x => db'[c] = db[c]
        /\ op'[p].at \notin Holding /\ \A q \in Proc : q # p => op'[q] = op[q]
        /\ UNCHANGED <<born, crossed>>
    BY <1>1 DEF Create, Go, Rows, Holding, Copying, histories
  <1>3. BornFirst'
    BY <1>1, <1>2 DEF AddrInv, BornFirst, HasRow
  <1>4. ASSUME ~crossed' PROVE Apart'
    <2>1. Apart
      BY <1>2, <1>4 DEF AddrInv
    <2>2. AddressesDiffer'
      <3>1. ASSUME NEW c \in Client, HasRow(c), c # x PROVE db[c].addr # op[p].row.addr
        BY <1>1, <2>1, <3>1 DEF Apart
      <3> QED BY <1>2, <1>4, <2>1, <3>1 DEF Apart, AddressesDiffer, HasRow
    <2>3. \A q \in Proc : op'[q].at # "create"
      BY <1>1, <1>2, <2>1 DEF Apart, Holding
    <2>4. ASSUME NEW q \in Proc, op'[q].at \in Copying, HasRow(op[q].c)'
          PROVE  op'[q].row.addr = db'[op'[q].c].addr
      <3>1. q # p /\ op'[q] = op[q] /\ op[q].c # x
        BY <1>1, <1>2, <2>1, <2>4 DEF Apart, Holding
      <3>2. op[q].c \in Client
        BY <1>1, <2>4, <3>1, OpFields DEF Copying
      <3> QED BY <1>2, <2>1, <2>4, <3>1, <3>2 DEF Apart, HasRow
    <2> QED BY <2>2, <2>3, <2>4 DEF Apart
  <1> QED BY <1>3, <1>4 DEF AddrInv

\* A copy is stored over its row, or brings it back: then something crossed.
LEMMA UpdateApart ==
    ASSUME AddrInv, Typed', NEW p \in Proc, UpdateClient(p)
    PROVE  AddrInv'
  <1> DEFINE x == op[p].c
  <1>1. /\ op[p].at = "save" /\ x \in Client /\ op[p].row \in Row /\ x \in born
        /\ op \in [Proc -> Op] /\ db \in Rows
    BY OpFields DEF UpdateClient, AddrInv, Typed, TypeOK, BornFirst, Holding, Copying, Rows
  <1>2. /\ db'[x] = op[p].row /\ \A c \in Client : c # x => db'[c] = db[c]
        /\ op'[p].at \notin Holding /\ \A q \in Proc : q # p => op'[q] = op[q]
        /\ UNCHANGED born /\ crossed' = (crossed \/ ~HasRow(x))
    BY <1>1 DEF UpdateClient, Go, Rows, Holding, Copying
  <1>3. BornFirst'
    BY <1>1, <1>2 DEF AddrInv, BornFirst, HasRow
  <1>4. ASSUME ~crossed' PROVE Apart'
    <2>1. ~crossed /\ HasRow(x) /\ Apart
      BY <1>2, <1>4 DEF AddrInv
    <2>2. \A c \in Client : HasRow(c)' => HasRow(c) /\ db'[c].addr = db[c].addr
      <3>1. db'[x].addr = db[x].addr
        BY <1>1, <1>2, <2>1 DEF Apart, Copying
      <3> QED BY <1>2, <2>1, <3>1 DEF HasRow
    <2>3. AddressesDiffer'
      BY <2>1, <2>2 DEF Apart, AddressesDiffer
    <2>4. \A q, r \in Proc : op'[q].at = "create" /\ op'[r].at = "create" => q = r
      BY <1>2, <2>1 DEF Apart, Holding
    <2>5. ASSUME NEW q \in Proc, op'[q].at = "create"
          PROVE  /\ ~HasRow(op[q].c)'
                 /\ \A c \in Client : HasRow(c)' => db'[c].addr # op'[q].row.addr
                 /\ \A r \in Proc : op'[r].at \in Copying => op'[r].c # op'[q].c
      <3>1. q # p /\ op'[q] = op[q] /\ op[q].c \in Client
        BY <1>1, <1>2, <2>5, OpFields DEF Holding
      <3>2. op[q].c # x
        BY <1>1, <2>1, <2>5, <3>1 DEF Apart, Copying
      <3>3. ~HasRow(op[q].c)'
        BY <1>2, <2>1, <2>5, <3>1, <3>2 DEF Apart, HasRow
      <3>4. \A c \in Client : HasRow(c)' => db'[c].addr # op'[q].row.addr
        BY <2>1, <2>2, <2>5, <3>1 DEF Apart
      <3>5. \A r \in Proc : op'[r].at \in Copying => op'[r].c # op'[q].c
        BY <1>2, <2>1, <2>5, <3>1 DEF Apart, Holding
      <3> QED BY <3>3, <3>4, <3>5
    <2>6. ASSUME NEW q \in Proc, op'[q].at \in Copying, HasRow(op[q].c)'
          PROVE  op'[q].row.addr = db'[op'[q].c].addr
      <3>1. q # p /\ op'[q] = op[q] /\ op[q].c \in Client
        BY <1>1, <1>2, <2>6, OpFields DEF Holding, Copying
      <3>2. HasRow(op[q].c) /\ db'[op[q].c].addr = db[op[q].c].addr
        BY <2>2, <2>6, <3>1 DEF HasRow
      <3> QED BY <2>1, <2>6, <3>1, <3>2 DEF Apart
    <2> QED BY <2>3, <2>4, <2>5, <2>6 DEF Apart
  <1> QED BY <1>3, <1>4 DEF AddrInv

\* The address of a new client is chosen when nobody else is being added.
LEMMA AddApart ==
    ASSUME AddrInv, Typed', NEW p \in Proc, addClient(p)
    PROVE  AddrInv'
  <1>1. PICK x \in Client \ born, a \in net.pool :
          /\ AllocateIPv4(db, a)
          /\ op[p] = Idle
          /\ op' = [op EXCEPT ![p] = [at |-> "create", on |-> enabled, c |-> x,
                      row |-> [enable |-> TRUE, addr |-> a, used |-> 0, all |-> 0,
                               expiry |-> Lifetime[x]]]]
          /\ born' = born \cup {x}
    BY DEF addClient, Begin
  <1>2. /\ op'[p].at = "create" /\ op'[p].c = x /\ op'[p].row.addr = a
        /\ \A q \in Proc : q # p => op'[q] = op[q]
        /\ UNCHANGED db /\ crossed' = (crossed \/ Creating)
    BY <1>1 DEF addClient, AddrInv, Typed, TypeOK
  <1>3. \A q \in Proc : op[q].at \in Holding => q # p /\ op[q].c \in born
    BY <1>1 DEF AddrInv, BornFirst, Idle, Holding, Copying
  <1>4. BornFirst'
    BY <1>1, <1>2, <1>3 DEF AddrInv, BornFirst, HasRow
  <1>5. ASSUME ~crossed' PROVE Apart'
    <2>1. ~crossed /\ Apart /\ \A q \in Proc : op[q].at # "create"
      BY <1>2, <1>5 DEF AddrInv, Creating
    <2>2. AddressesDiffer'
      BY <1>2, <2>1 DEF Apart, AddressesDiffer, HasRow
    <2>3. \A q, r \in Proc : op'[q].at = "create" /\ op'[r].at = "create" => q = r
      BY <1>2, <2>1
    <2>4. \A q \in Proc : op'[q].at = "create" => q = p
      BY <1>2, <2>1
    <2>5. /\ ~HasRow(x)'
          /\ \A c \in Client : HasRow(c)' => db'[c].addr # a
          /\ \A r \in Proc : op'[r].at \in Copying => op'[r].c # x
      <3>1. ~HasRow(x)'
        BY <1>1, <1>2 DEF AddrInv, BornFirst, HasRow
      <3>2. \A c \in Client : HasRow(c)' => db'[c].addr # a
        BY <1>1, <1>2 DEF AllocateIPv4, Taken, HasRow
      <3>3. \A r \in Proc : op'[r].at \in Copying => op'[r].c # x
        BY <1>2, <1>3, <1>1 DEF Copying, Holding
      <3> QED BY <3>1, <3>2, <3>3
    <2>6. \A q \in Proc : op'[q].at \in Copying /\ HasRow(op[q].c)' =>
            op'[q].row.addr = db'[op'[q].c].addr
      BY <1>2, <2>1 DEF Apart, HasRow, Copying
    <2> QED BY <1>2, <2>2, <2>3, <2>4, <2>5, <2>6 DEF Apart, HasRow
  <1> QED BY <1>4, <1>5 DEF AddrInv

\* A page copies a row.
LEMMA OpenApart ==
    ASSUME AddrInv, Typed', NEW p \in Proc, openClient(p)
    PROVE  AddrInv'
  <1>1. PICK x \in Client, on \in BOOLEAN, at \in Copying :
          /\ HasRow(x) /\ op[p] = Idle
          /\ op' = [op EXCEPT ![p] = [at |-> at, c |-> x, row |-> [db[x] EXCEPT !.enable = on]]]
    BY DEF openClient, Begin, Copying
  <1>2. /\ op'[p].at \in Copying /\ op'[p].c = x /\ op'[p].row.addr = db[x].addr
        /\ \A q \in Proc : q # p => op'[q] = op[q]
        /\ UNCHANGED <<db, born, crossed>>
    <2>1. op'[p] = [at |-> at, c |-> x, row |-> [db[x] EXCEPT !.enable = on]]
      BY <1>1 DEF AddrInv, Typed, TypeOK
    <2>2. [db[x] EXCEPT !.enable = on].addr = db[x].addr
      BY <1>1, RowSet DEF HasRow, AddrInv, Typed, TypeOK
    <2> QED BY <1>1, <2>1, <2>2 DEF openClient, histories, AddrInv, Typed, TypeOK
  <1>3. BornFirst'
    BY <1>1, <1>2 DEF AddrInv, BornFirst, HasRow
  <1>4. ASSUME ~crossed' PROVE Apart'
    <2>1. Apart
      BY <1>2, <1>4 DEF AddrInv
    <2>2. AddressesDiffer'
      BY <1>2, <2>1 DEF Apart, AddressesDiffer, HasRow
    <2>3. \A q \in Proc : op'[q].at = "create" => q # p /\ op'[q] = op[q]
      BY <1>2 DEF Copying
    <2>4. \A q, r \in Proc : op'[q].at = "create" /\ op'[r].at = "create" => q = r
      BY <2>1, <2>3 DEF Apart
    <2>5. \A q \in Proc : op'[q].at = "create" =>
            /\ ~HasRow(op[q].c)' /\ \A c \in Client : HasRow(c)' => db'[c].addr # op'[q].row.addr
            /\ \A r \in Proc : op'[r].at \in Copying => op'[r].c # op'[q].c
      BY <1>1, <1>2, <2>1, <2>3 DEF Apart, HasRow
    <2>6. \A q \in Proc : op'[q].at \in Copying /\ HasRow(op[q].c)' =>
            op'[q].row.addr = db'[op'[q].c].addr
      BY <1>2, <2>1 DEF Apart, HasRow
    <2> QED BY <2>2, <2>4, <2>5, <2>6 DEF Apart
  <1> QED BY <1>3, <1>4 DEF AddrInv

\* Every other step loses rows and copies at most.
LEMMA OthersLose ==
    ASSUME Typed,
           \/ \E p \in Handler : /\ Request(p)
                                 /\ ~addClient(p) /\ ~openClient(p)
           \/ \E p \in Proc : \/ Step(p) /\ ~Create(p) /\ ~UpdateClient(p)
                              \/ UpdateTrafficStats(p)
           \/ \E c \in Client : ResetClientTraffic(c) \/ Carry(c) \/ Expire(c)
           \/ ResetAllClientTraffics \/ Crash
    PROVE  Loses /\ UNCHANGED <<born, crossed>>
  <1>t. op \in [Proc -> Op] /\ db \in Rows /\ \A c \in Client : HasRow(c) => db[c] \in Row
    BY DEF Typed, TypeOK, Rows, HasRow
  <1>1. ASSUME NEW p \in Proc, NEW o, op' = [op EXCEPT ![p] = o], o.at \notin Holding
        PROVE  \A q \in Proc : op'[q].at \in Holding => op'[q] = op[q]
    BY <1>t, <1>1
  <1>2. ASSUME NEW p \in Handler, Request(p), ~addClient(p), ~openClient(p)
        PROVE  Loses /\ UNCHANGED <<born, crossed>>
    <2>1. UNCHANGED <<db, born, crossed>>
      BY <1>2 DEF Request, toggleServer, SaveServer, Renumber, deleteAll, deleteClient, server,
         kernel, histories
    <2>2. p \in Proc
      BY DEF Proc
    <2>3. \A q \in Proc : op'[q].at \in Holding => op'[q] = op[q]
      BY <1>t, <1>1, <1>2, <2>2 DEF Request, toggleServer, SaveServer, Renumber, deleteAll,
         deleteClient, Begin,
         Stopping, Holding, Copying
    <2> QED BY <2>1, <2>3 DEF Loses, HasRow
  <1>3. ASSUME NEW p \in Proc, Step(p), ~Create(p), ~UpdateClient(p)
        PROVE  Loses /\ UNCHANGED <<born, crossed>>
    <2>1. UNCHANGED <<born, crossed>>
      BY <1>3 DEF Step, ReadClients, SyncConfig, Start, Restart, StartFails, InterfaceUp, Stop,
         StopFails, StartIfEnabled, AutoEnable, UpdateClientByUUID, GetServer, FindClients,
         DeleteClient, DeleteAllStop, DeleteAllRows, DisableServer, Renumber, ResetFails,
         Count, Enforce, histories
    <2>2. ASSUME ~UpdateClientByUUID(p)
          PROVE  \A q \in Proc : op'[q].at \in Holding => op'[q] = op[q]
      <3>1. op[p].at = "clear" =>
              [op[p] EXCEPT !.at = "off"] = [at |-> "off", reset |-> op[p].reset, how |-> op[p].how]
        BY <1>t, OpFields
      <3>2. \E o : op' = [op EXCEPT ![p] = o] /\ o.at \notin Holding
        BY <1>3, <2>2, <3>1
           DEF Step, ReadClients, SyncConfig, Start, Restart, StartFails, InterfaceUp, Stop,
           StopFails, StartIfEnabled, AutoEnable, GetServer, FindClients,
           DeleteClient, DeleteAllStop, DeleteAllRows, DisableServer, Renumber, ResetFails,
           Count, Enforce,
           Applied, NotApplied, Unapplied, End, Go, Apply, Idle, Holding, Copying
      <3> QED BY <1>1, <3>2
    <2>3. ASSUME UpdateClientByUUID(p)
          PROVE  \A q \in Proc : op'[q].at \in Holding =>
                   /\ op[q].at \in Holding /\ (op'[q].at = "create" <=> op[q].at = "create")
                   /\ op'[q].c = op[q].c /\ op'[q].row = op[q].row
      <3>1. op[p].at = "lookup"
            /\ [op[p] EXCEPT !.at = "save"] = [at |-> "save", c |-> op[p].c, row |-> op[p].row]
        BY <1>t, <2>3, OpFields DEF UpdateClientByUUID
      <3>2. \/ op' = [op EXCEPT ![p] = [at |-> "save", c |-> op[p].c, row |-> op[p].row]]
            \/ op' = [op EXCEPT ![p] = Idle]
        BY <2>3, <3>1 DEF UpdateClientByUUID, Go, Unapplied, End
      <3>3. op[p].at \in Holding /\ op[p].at # "create" /\ Idle.at \notin Holding
        BY <3>1 DEF Holding, Copying, Idle
      <3>4. \A q \in Proc : q # p => op'[q] = op[q]
        BY <1>t, <3>2
      <3>5. \/ op'[p] = [at |-> "save", c |-> op[p].c, row |-> op[p].row]
            \/ op'[p] = Idle
        BY <1>t, <3>2
      <3> QED BY <3>3, <3>4, <3>5
    <2>4. \A c \in Client : db'[c] # NoRow => HasRow(c) /\ db'[c].addr = db[c].addr
      <3>1. CASE DeleteClient(p) \/ DeleteAllRows(p)
        BY <1>t, <3>1 DEF DeleteClient, DeleteAllRows, HasRow, Rows
      <3>2. CASE Count(p)
        <4>1. ASSUME NEW c \in Client, op[p].rows[c] # NoRow, HasRow(c)
              PROVE  Stored(db[c], op[p].rows[c], op[p].counts[c]).addr = db[c].addr
          <5>1. op[p].rows[c] \in Row /\ db[c] \in Row /\ op[p].counts[c] \in Units
            BY <1>t, <3>2, <4>1, OpFields DEF Count, Rows
          <5> QED BY <5>1, StoredRow
        <4>2. \A c \in Client :
                db'[c] = IF c \in op[p].seen /\ op[p].rows[c] # NoRow /\ HasRow(c)
                         THEN Stored(db[c], op[p].rows[c], op[p].counts[c]) ELSE db[c]
          BY <3>2 DEF Count
        <4> QED BY <4>1, <4>2 DEF HasRow
      <3>3. CASE Enforce(p)
        <4>1. \A c \in Client : HasRow(c) => Enforced(c, db[c]).addr = db[c].addr
          BY <1>t, EnforcedRow
        <4>2. \A c \in Client : db'[c] = IF HasRow(c) THEN Enforced(c, db[c]) ELSE NoRow
          BY <3>3 DEF Enforce, Enforced
        <4> QED BY <4>1, <4>2 DEF HasRow
      <3>4. CASE UNCHANGED db
        BY <3>4 DEF HasRow
      <3> QED BY <1>3, <3>1, <3>2, <3>3, <3>4
           DEF Step, ReadClients, SyncConfig, Start, Restart, StartFails, InterfaceUp, Stop,
           StopFails, StartIfEnabled, AutoEnable, UpdateClientByUUID, GetServer, FindClients,
           DeleteAllStop, DisableServer, ResetFails
    <2> QED BY <2>1, <2>2, <2>3, <2>4 DEF Loses
  <1>4. ASSUME NEW p \in Proc, UpdateTrafficStats(p)
        PROVE  Loses /\ UNCHANGED <<born, crossed>>
    <2>1. UNCHANGED <<db, born, crossed>>
      BY <1>4 DEF UpdateTrafficStats, histories
    <2>2. op'[p].at \notin Holding /\ \A q \in Proc : q # p => op'[q] = op[q]
      BY <1>t, <1>4 DEF UpdateTrafficStats, Begin, Holding, Copying
    <2>3. \A q \in Proc : op'[q].at \in Holding => op'[q] = op[q]
      BY <2>2
    <2> QED BY <2>1, <2>3 DEF Loses, HasRow
  <1>5. ASSUME NEW x \in Client, ResetClientTraffic(x) \/ Carry(x) \/ Expire(x)
        PROVE  Loses /\ UNCHANGED <<born, crossed>>
    <2>1. UNCHANGED <<op, born, crossed>>
      BY <1>5 DEF ResetClientTraffic, Carry, Expire, histories
    <2>2. \A c \in Client : db'[c] # NoRow => HasRow(c) /\ db'[c].addr = db[c].addr
      <3>1. \A c \in Client : HasRow(c) =>
              /\ [db[c] EXCEPT !.used = 0].addr = db[c].addr
              /\ [db[c] EXCEPT !.expiry = "passed"].addr = db[c].addr
        BY <1>t, RowSet
      <3>2. CASE ResetClientTraffic(x)
        <4>1. HasRow(x) /\ db' = [db EXCEPT ![x] = [db[x] EXCEPT !.used = 0]]
          BY <3>2 DEF ResetClientTraffic
        <4> QED BY <1>t, <3>1, <4>1 DEF HasRow, Rows
      <3>3. CASE Expire(x)
        <4>1. HasRow(x) /\ db' = [db EXCEPT ![x] = [db[x] EXCEPT !.expiry = "passed"]]
          BY <3>3 DEF Expire
        <4> QED BY <1>t, <3>1, <4>1 DEF HasRow, Rows
      <3>4. CASE Carry(x)
        BY <3>4 DEF Carry, HasRow
      <3> QED BY <1>5, <3>2, <3>3, <3>4
    <2> QED BY <2>1, <2>2 DEF Loses
  <1>6. ASSUME ResetAllClientTraffics PROVE Loses /\ UNCHANGED <<born, crossed>>
    <2>1. \A c \in Client : \/ db'[c] = db[c]
                            \/ HasRow(c) /\ db'[c] = [db[c] EXCEPT !.enable = TRUE]
      BY <1>6 DEF ResetAllClientTraffics
    <2>2. \A c \in Client : HasRow(c) => [db[c] EXCEPT !.enable = TRUE].addr = db[c].addr
      BY <1>t, RowSet
    <2>3. \A c \in Client : db'[c] # NoRow => HasRow(c) /\ db'[c].addr = db[c].addr
      BY <2>1, <2>2 DEF HasRow
    <2> QED BY <1>6, <2>3 DEF ResetAllClientTraffics, histories, Loses
  <1>7. ASSUME Crash PROVE Loses /\ UNCHANGED <<born, crossed>>
    <2>1. UNCHANGED <<db, born, crossed>> /\ \A p \in Proc : op'[p].at \notin Holding
      BY <1>7 DEF Crash, histories, Holding, Copying, Idle
    <2> QED BY <2>1 DEF Loses, HasRow
  <1> QED BY <1>2, <1>3, <1>4, <1>5, <1>6, <1>7

LEMMA AddrInit == Init => AddrInv
  <1> SUFFICES ASSUME Init PROVE AddrInv
    OBVIOUS
  <1>1. /\ \A c \in Client : ~HasRow(c)
        /\ \A p \in Proc : op[p].at \notin Holding
    BY DEF Init, HasRow, Idle, Holding, Copying
  <1> QED BY <1>1, TypedInit DEF AddrInv, BornFirst, Apart, AddressesDiffer, Holding

LEMMA AddrNext == AddrInv /\ [Next]_vars => AddrInv'
  <1> SUFFICES ASSUME AddrInv, [Next]_vars PROVE AddrInv'
    OBVIOUS
  <1>1. Typed /\ Typed'
    BY TypedNext DEF AddrInv
  <1>2. CASE \E p \in Proc : Create(p) \/ UpdateClient(p) \/ addClient(p) \/ openClient(p)
    BY <1>1, <1>2, CreateApart, UpdateApart, AddApart, OpenApart
  <1>3. CASE UNCHANGED vars
    BY <1>1, <1>3 DEF vars, server, kernel, histories, AddrInv, BornFirst, Apart,
       AddressesDiffer, HasRow
  <1>4. CASE /\ Next
             /\ ~ \E p \in Proc : Create(p) \/ UpdateClient(p) \/ addClient(p) \/ openClient(p)
    <2>1. \A p \in Handler : p \in Proc
      BY DEF Proc
    <2>2. Loses /\ UNCHANGED <<born, crossed>>
      BY <1>1, <1>4, <2>1, OthersLose DEF Next
    <2> QED BY <1>1, <2>2, LosesApart
  <1> QED BY <1>2, <1>3, <1>4

\* Two clients share an address only after an addition overlapped another, or a
\* deleted row came back.
THEOREM AddressesStayDifferent == Spec => []AddressesDiffer
  <1>1. Spec => []AddrInv
    BY AddrInit, AddrNext, PTL DEF Spec
  <1>2. AddrInv => AddressesDiffer
    BY DEF AddrInv, Apart, AddressesDiffer
  <1> QED BY <1>1, <1>2, PTL

-----------------------------------------------------------------------------
(* The address of the server.                                              *)

\* Every row, in the database or on its way there, has an address of the pool
\* that is not the server's.
NetInv ==
    ~moved => /\ \A c \in Client : HasRow(c) => db[c].addr \in Free
              /\ \A p \in Proc : op[p].at \in Holding => op[p].row.addr \in Free

\* The addresses of the server change only with the history.
LEMMA NetKept ==
    ASSUME Typed, [Next]_vars, ~moved'
    PROVE  ~moved /\ UNCHANGED net
  <1>t. moved \in BOOLEAN
    BY DEF Typed, TypeOK
  <1>1. ASSUME NEW p \in Handler, Request(p) PROVE ~moved /\ UNCHANGED net
    BY <1>t, <1>1 DEF Request, toggleServer, SaveServer, Renumber, deleteAll, addClient,
       openClient,
       deleteClient, server, histories
  <1>2. ASSUME NEW p \in Proc, Step(p) \/ UpdateTrafficStats(p) PROVE ~moved /\ UNCHANGED net
    BY <1>t, <1>2 DEF Step, ReadClients, SyncConfig, Start, Restart, StartFails, InterfaceUp,
       Stop,
       StopFails, StartIfEnabled, AutoEnable, UpdateClientByUUID, GetServer, FindClients,
       Create, UpdateClient, DeleteClient, DeleteAllStop, DeleteAllRows, DisableServer,
       Renumber, ResetFails, Count, Enforce, UpdateTrafficStats, server, histories
  <1>3. CASE \/ \E c \in Client : ResetClientTraffic(c) \/ Carry(c) \/ Expire(c)
             \/ ResetAllClientTraffics \/ Crash
    BY <1>3 DEF ResetClientTraffic, Carry, Expire, ResetAllClientTraffics, Crash, server,
       histories
  <1>4. CASE UNCHANGED vars
    BY <1>4 DEF vars, server, histories
  <1> QED BY <1>1, <1>2, <1>3, <1>4 DEF Next

LEMMA NetNext == AddrInv /\ NetInv /\ [Next]_vars => NetInv'
  <1> SUFFICES ASSUME AddrInv, NetInv, [Next]_vars, ~moved'
               PROVE  /\ \A c \in Client : db'[c] # NoRow => db'[c].addr \in Free
                      /\ \A p \in Proc : op'[p].at \in Holding => op'[p].row.addr \in Free
    BY NetKept DEF AddrInv, NetInv, Free, HasRow
  <1>n. ~moved /\ UNCHANGED net
    BY NetKept DEF AddrInv
  <1>t. /\ op \in [Proc -> Op] /\ db \in Rows /\ Typed
        /\ \A c \in Client : HasRow(c) => db[c] \in Row /\ db[c].addr \in Free
        /\ \A p \in Proc : op[p].at \in Holding => op[p].row.addr \in Free
    BY <1>n DEF AddrInv, NetInv, Typed, TypeOK, Rows, HasRow
  <1>1. ASSUME NEW p \in Proc, Create(p) \/ UpdateClient(p)
        PROVE  /\ \A c \in Client : db'[c] # NoRow => db'[c].addr \in Free
               /\ \A q \in Proc : op'[q].at \in Holding => op'[q].row.addr \in Free
    <2>1. /\ op[p].at \in Holding /\ db' = [db EXCEPT ![op[p].c] = op[p].row]
          /\ \E at \in {"read", "enable", "server"} : op' = [op EXCEPT ![p] = [at |-> at]]
      BY <1>1 DEF Create, UpdateClient, Go, Holding, Copying
    <2>2. \A c \in Client : db'[c] = db[c] \/ db'[c] = op[p].row
      BY <1>t, <2>1 DEF Rows
    <2>3. \A q \in Proc : op'[q].at \in Holding => op'[q] = op[q]
      BY <1>t, <2>1 DEF Holding, Copying
    <2> QED BY <1>t, <2>1, <2>2, <2>3 DEF HasRow
  <1>2. ASSUME NEW p \in Proc, addClient(p)
        PROVE  /\ \A c \in Client : db'[c] # NoRow => db'[c].addr \in Free
               /\ \A q \in Proc : op'[q].at \in Holding => op'[q].row.addr \in Free
    <2>1. PICK c \in Client \ born, a \in net.pool :
            /\ AllocateIPv4(db, a)
            /\ op' = [op EXCEPT ![p] = [at |-> "create", on |-> enabled, c |-> c,
                        row |-> [enable |-> TRUE, addr |-> a, used |-> 0, all |-> 0,
                                 expiry |-> Lifetime[c]]]]
      BY <1>2 DEF addClient, Begin
    <2>2. a \in Free /\ UNCHANGED db
      BY <1>2, <2>1 DEF addClient, AllocateIPv4
    <2>3. op'[p].row.addr = a /\ \A q \in Proc : q # p => op'[q] = op[q]
      BY <1>t, <2>1
    <2> QED BY <1>t, <2>2, <2>3 DEF HasRow
  <1>3. ASSUME NEW p \in Proc, openClient(p)
        PROVE  /\ \A c \in Client : db'[c] # NoRow => db'[c].addr \in Free
               /\ \A q \in Proc : op'[q].at \in Holding => op'[q].row.addr \in Free
    <2>1. PICK c \in Client, on \in BOOLEAN, at \in Copying :
            /\ HasRow(c)
            /\ op' = [op EXCEPT ![p] = [at |-> at, c |-> c, row |-> [db[c] EXCEPT !.enable = on]]]
      BY <1>3 DEF openClient, Begin, Copying
    <2> DEFINE row == [db[c] EXCEPT !.enable = on]
    <2>2. op'[p] = [at |-> at, c |-> c, row |-> row]
      BY <1>t, <2>1
    <2>3. row.addr = db[c].addr
      BY <1>t, <2>1, RowSet
    <2>4. op'[p].row.addr = db[c].addr
      <3> HIDE DEF row
      <3> QED BY <2>2, <2>3
    <2>6. UNCHANGED db
      BY <1>3 DEF openClient
    <2>5. \A q \in Proc : q # p => op'[q] = op[q]
      BY <1>t, <2>1
    <2> QED BY <1>t, <2>1, <2>4, <2>5, <2>6 DEF HasRow
  <1>4. CASE UNCHANGED vars
    BY <1>t, <1>4 DEF vars, HasRow
  <1>5. CASE /\ Next
             /\ ~ \E p \in Proc : Create(p) \/ UpdateClient(p) \/ addClient(p) \/ openClient(p)
    <2>1. \A p \in Handler : p \in Proc
      BY DEF Proc
    <2>2. Loses
      BY <1>t, <1>5, <2>1, OthersLose DEF Next
    <2> QED BY <1>t, <2>2 DEF Loses
  <1> QED BY <1>1, <1>2, <1>3, <1>4, <1>5

\* Until the server is given other addresses, no client has its address or one
\* outside of the pool: neither a copy that is stored late nor an addition that
\* overlaps another brings one in.
THEOREM ServerStaysApart == Spec => []ServerApart
  <1>1. Init => NetInv
    BY DEF Init, NetInv, HasRow, Idle, Holding, Copying
  <1>2. Spec => [](AddrInv /\ NetInv)
    BY <1>1, AddrInit, AddrNext, NetNext, PTL DEF Spec
  <1>3. NetInv => ServerApart
    BY DEF NetInv, ServerApart
  <1> QED BY <1>2, <1>3, PTL

-----------------------------------------------------------------------------
(* Counters.  g is what a client transferred, k the counter of its peer, n *)
(* the one the job read; u and a are used and all of a row.  Either the    *)
(* row and n are of the present interface, or the row is of an earlier     *)
(* one, or both are.                                                       *)

Rested(g, k, u, a) == (u <= k /\ a + k <= g + u) \/ a + k <= g
Judged(g, k, n, u, a) ==
    \/ u <= n /\ n <= k /\ a + k <= g + u
    \/ n <= k /\ a + k <= g
    \/ a + k <= g /\ a + n + k <= g + u

\* What the counter of a peer and the job do to these.
LEMMA Arithmetic ==
    ASSUME NEW g \in Nat, NEW k \in Nat, NEW n \in Nat, NEW u \in Nat, NEW a \in Nat
    PROVE  /\ Rested(g, k, u, a) =>
                /\ a <= g /\ Rested(g + 1, k + 1, u, a) /\ Rested(g, 0, u, a)
                /\ Judged(g, k, k, u, a)
           /\ Judged(g, k, n, u, a) =>
                /\ Rested(g, k, u, a)
                /\ Judged(g + 1, k + 1, n, u, a) /\ Judged(g, 0, n, u, a)
                /\ Rested(g, k, n, a + (IF n > u THEN n - u ELSE 0))
  <1>1. Rested(g, k, u, a) =>
          /\ a <= g /\ Rested(g + 1, k + 1, u, a) /\ Rested(g, 0, u, a)
          /\ Judged(g, k, k, u, a)
    BY DEF Rested, Judged
  <1>2. Judged(g, k, n, u, a) =>
          /\ Rested(g, k, u, a)
          /\ Judged(g + 1, k + 1, n, u, a) /\ Judged(g, 0, n, u, a)
    BY DEF Rested, Judged
  <1>3. Judged(g, k, n, u, a) => Rested(g, k, n, a + (IF n > u THEN n - u ELSE 0))
    BY DEF Rested, Judged
  <1> QED BY <1>1, <1>2, <1>3

Active == op["job"].at \in {"clients", "count"}
Sound(c, u, a) ==
    IF Active THEN Judged(carried[c], counter[c], op["job"].counts[c], u, a)
              ELSE Rested(carried[c], counter[c], u, a)

\* Every row of a client, wherever it is held, is sound, and so is an empty one.
SoundRows(c) ==
    /\ Sound(c, 0, 0)
    /\ HasRow(c) => Sound(c, db[c].used, db[c].all)
    /\ \A p \in Proc : op[p].at \in Holding /\ op[p].c = c =>
         Sound(c, op[p].row.used, op[p].row.all)
    /\ op["job"].at = "count" /\ op["job"].rows[c] # NoRow =>
         Sound(c, op["job"].rows[c].used, op["job"].rows[c].all)

CountInv == Typed /\ \A c \in Client \ wiped : SoundRows(c)

\* The counters of a client go from sound to sound, whatever the row.
Safe(c) == \A u, a \in Nat : Sound(c, u, a) => Sound(c, u, a)'

\* They do when the counter stays, goes back to 0 or counts a unit, if the job
\* keeps what it read, reads it now or forgets it.
LEMMA SafeStep ==
    ASSUME Typed, Typed', NEW c \in Client,
           \/ counter'[c] = counter[c] /\ carried'[c] = carried[c]
           \/ counter'[c] = 0 /\ carried'[c] = carried[c]
           \/ counter'[c] = counter[c] + 1 /\ carried'[c] = carried[c] + 1,
           \/ Active /\ Active' /\ op'["job"].counts[c] = op["job"].counts[c]
           \/ Active' /\ ~Active /\ op'["job"].counts[c] = counter[c] /\ counter'[c] = counter[c]
              /\ carried'[c] = carried[c]
           \/ ~Active'
    PROVE  Safe(c)
  <1>1. /\ counter[c] \in Nat /\ carried[c] \in Nat
        /\ Active => op["job"].counts[c] \in Nat
    <2>1. counter[c] \in Units /\ carried[c] \in Units
      BY DEF Typed, TypeOK
    <2>2. op["job"] \in Op
      BY DEF Typed, TypeOK, Proc
    <2>3. Active => op["job"].counts[c] \in Units
      BY <2>2, OpFields DEF Active
    <2>4. Units \subseteq Nat
      BY TunnelAssumption DEF Units
    <2> QED BY <2>1, <2>3, <2>4
  <1>2. ASSUME NEW u \in Nat, NEW a \in Nat, Sound(c, u, a) PROVE Sound(c, u, a)'
    <2> DEFINE g == carried[c]
               k == counter[c]
               n == op["job"].counts[c]
    <2>1. Active => Judged(g, k, n, u, a) /\ n \in Nat
      BY <1>1, <1>2 DEF Sound
    <2>2. ~Active => Rested(g, k, u, a)
      BY <1>2 DEF Sound
    <2>3. g \in Nat /\ k \in Nat
      BY <1>1
    <2>4. Sound(c, u, a)' <=> IF Active' THEN Judged(g', k', n', u, a) ELSE Rested(g', k', u, a)
      BY DEF Sound
    <2>5. CASE Active /\ Active' /\ n' = n
      <3>1. Judged(g, k, n, u, a) /\ Judged(g + 1, k + 1, n, u, a) /\ Judged(g, 0, n, u, a)
        BY <2>1, <2>3, <2>5, Arithmetic
      <3> HIDE DEF g, k, n
      <3>2. \/ k' = k /\ g' = g
            \/ k' = 0 /\ g' = g
            \/ k' = k + 1 /\ g' = g + 1
        BY DEF g, k
      <3> QED BY <2>4, <2>5, <3>1, <3>2
    <2>6. CASE Active' /\ ~Active
      <3>1. Judged(g, k, k, u, a)
        BY <2>2, <2>3, <2>6, Arithmetic
      <3>2. n' = k /\ k' = k /\ g' = g
        BY <2>6
      <3> HIDE DEF g, k, n
      <3> QED BY <2>4, <2>6, <3>1, <3>2
    <2>7. CASE ~Active'
      <3>1. Rested(g, k, u, a)
        BY <2>1, <2>2, <2>3, Arithmetic
      <3>2. Rested(g + 1, k + 1, u, a) /\ Rested(g, 0, u, a)
        BY <2>3, <3>1, Arithmetic
      <3> HIDE DEF g, k, n
      <3>3. \/ k' = k /\ g' = g
            \/ k' = 0 /\ g' = g
            \/ k' = k + 1 /\ g' = g + 1
        BY DEF g, k
      <3> QED BY <2>4, <2>7, <3>1, <3>2, <3>3
    <2> QED BY <2>5, <2>6, <2>7
  <1> QED BY <1>2 DEF Safe

\* Step(p) leaves what the job has read alone, unless it is the job that
\* fetches the rows, or forgets.
LEMMA StepCounters ==
    ASSUME Typed, NEW p \in Proc, Step(p), NEW c \in Client
    PROVE  /\ counter'[c] = counter[c] \/ counter'[c] = 0
           /\ carried'[c] = carried[c]
           /\ \/ Active /\ Active' /\ op'["job"].counts[c] = op["job"].counts[c]
              \/ ~Active'
           /\ op'["job"].at = "count" => op'["job"] = op["job"] \/ op'["job"].rows = db
  <1>t. op \in [Proc -> Op] /\ counter \in [Client -> Units] /\ "job" \in Proc
    BY DEF Typed, TypeOK, Proc
  <1>1. carried'[c] = carried[c] /\ (counter'[c] = counter[c] \/ counter'[c] = 0)
    BY <1>t DEF Step, ReadClients, SyncConfig, Start, Restart, StartFails,
       InterfaceUp, InterfaceDown, Stop, StopFails, StartIfEnabled, AutoEnable,
       UpdateClientByUUID, GetServer, FindClients, Create, UpdateClient, DeleteClient,
       DeleteAllStop, DeleteAllRows, DisableServer, Renumber, ResetFails, Count, Enforce,
       server, kernel
  <1>2. CASE FindClients(p)
    <2>1. p = "job" /\ op[p].at = "clients"
      BY <1>2 DEF FindClients, Typed, Roles, JobSteps
    <2>2. op'["job"] = [at |-> "count", seen |-> op[p].seen, counts |-> op[p].counts, rows |-> db]
      BY <1>t, <1>2, <2>1 DEF FindClients, Go
    <2> QED BY <1>1, <2>1, <2>2 DEF Active
  <1>3. CASE p # "job"
    <2>1. op'["job"] = op["job"]
      BY <1>t, <1>3
         DEF Step, ReadClients, SyncConfig, Start, Restart, StartFails, InterfaceUp, Stop,
         StopFails, StartIfEnabled, AutoEnable, UpdateClientByUUID, GetServer, FindClients,
         Create, UpdateClient, DeleteClient, DeleteAllStop, DeleteAllRows, DisableServer,
         Renumber, ResetFails, Count, Enforce,
         Applied, NotApplied, Unapplied, End, Go, Apply
    <2> QED BY <1>1, <2>1 DEF Active
  <1>4. CASE p = "job" /\ ~FindClients(p)
    <2>1. CASE UpdateClientByUUID(p)
      <3>1. op[p] \in Op /\ op[p].at = "lookup"
        BY <1>t, <2>1 DEF UpdateClientByUUID
      <3>2. [op[p] EXCEPT !.at = "save"] = [at |-> "save", c |-> op[p].c, row |-> op[p].row]
        BY <3>1, OpFields
      <3>3. op'[p].at \in {"save", "idle"}
        BY <1>t, <2>1, <3>2 DEF UpdateClientByUUID, Go, Unapplied, End, Idle
      <3> QED BY <1>1, <1>4, <3>3 DEF Active
    <2>2. CASE ~UpdateClientByUUID(p)
      <3>1. op[p].at = "clear" =>
              [op[p] EXCEPT !.at = "off"] = [at |-> "off", reset |-> op[p].reset, how |-> op[p].how]
        BY <1>t, OpFields
      <3>2. op'[p].at \notin {"clients", "count"}
        BY <1>t, <1>4, <2>2, <3>1
           DEF Step, ReadClients, SyncConfig, Start, Restart, StartFails, InterfaceUp, Stop,
           StopFails, StartIfEnabled, AutoEnable, GetServer,
           Create, UpdateClient, DeleteClient, DeleteAllStop, DeleteAllRows, DisableServer,
           Renumber, ResetFails, Count, Enforce,
           Applied, NotApplied, Unapplied, End, Go, Apply, Idle
      <3> QED BY <1>1, <1>4, <3>2 DEF Active
    <2> QED BY <2>1, <2>2
  <1> QED BY <1>2, <1>3, <1>4

\* The counters of a row that is held before the step, or of a new one.
Known(c, u, a) ==
    \/ u = 0 /\ a = 0
    \/ HasRow(c) /\ u = db[c].used /\ a = db[c].all
    \/ \E p \in Proc : /\ op[p].at \in Holding /\ op[p].c = c
                       /\ u = op[p].row.used /\ a = op[p].row.all

\* Every row that is held after the step has such counters; the job keeps its
\* rows or has just fetched them.
Traced(c) ==
    /\ db'[c] # NoRow => Known(c, db'[c].used, db'[c].all)
    /\ \A p \in Proc : op'[p].at \in Holding /\ op'[p].c = c =>
         Known(c, op'[p].row.used, op'[p].row.all)
    /\ op'["job"].at = "count" => op'["job"] = op["job"] \/ op'["job"].rows = db

LEMMA TracedSound ==
    ASSUME Typed, Typed', NEW c \in Client, SoundRows(c), Safe(c), Traced(c)
    PROVE  SoundRows(c)'
  <1>n. \A r \in Row : r.used \in Nat /\ r.all \in Nat
    BY TunnelAssumption DEF Row, Units
  <1>t. /\ HasRow(c) => db[c] \in Row
        /\ \A p \in Proc : op[p].at \in Holding => op[p].row \in Row
        /\ op["job"].at = "count" /\ op["job"].rows[c] # NoRow => op["job"].rows[c] \in Row
    <2>1. op["job"] \in Op
      BY DEF Typed, TypeOK, Proc
    <2>2. op["job"].at = "count" => op["job"].rows \in Rows
      BY <2>1, OpFields
    <2> QED BY <2>2, OpFields DEF Typed, TypeOK, HasRow, Holding, Copying, Rows
  <1>1. \A u, a : Known(c, u, a) => Sound(c, u, a)' /\ u \in Nat /\ a \in Nat
    BY <1>n, <1>t DEF Known, SoundRows, Safe
  <1>2. ASSUME op'["job"].at = "count", op'["job"].rows[c] # NoRow
        PROVE  Sound(c, op["job"].rows[c].used, op["job"].rows[c].all)'
    <2>1. CASE op'["job"] = op["job"]
      <3>1. /\ Sound(c, op["job"].rows[c].used, op["job"].rows[c].all)
            /\ op["job"].rows[c].used \in Nat /\ op["job"].rows[c].all \in Nat
        BY <1>2, <1>n, <1>t, <2>1 DEF SoundRows
      <3> DEFINE u == op["job"].rows[c].used
                 a == op["job"].rows[c].all
      <3>2. Sound(c, op["job"].rows[c].used, op["job"].rows[c].all)' <=>
              IF Active' THEN Judged(carried[c]', counter[c]', op["job"].counts[c]', u, a)
                         ELSE Rested(carried[c]', counter[c]', u, a)
        BY <2>1 DEF Sound
      <3>3. Sound(c, u, a) /\ u \in Nat /\ a \in Nat
        BY <3>1
      <3> HIDE DEF u, a
      <3>4. \A x, y \in Nat : Sound(c, x, y) =>
              IF Active' THEN Judged(carried[c]', counter[c]', op["job"].counts[c]', x, y)
                         ELSE Rested(carried[c]', counter[c]', x, y)
        BY DEF Safe, Sound
      <3> QED BY <3>2, <3>3, <3>4
    <2>2. CASE op'["job"].rows = db
      <3>1. Known(c, op["job"].rows[c].used', op["job"].rows[c].all')
        BY <1>2, <2>2 DEF Known, HasRow
      <3>2. \A u, a : Known(c, u, a) =>
              IF Active' THEN Judged(carried[c]', counter[c]', op["job"].counts[c]', u, a)
                         ELSE Rested(carried[c]', counter[c]', u, a)
        BY <1>1 DEF Sound
      <3> QED BY <3>1, <3>2 DEF Sound
    <2> QED BY <1>2, <2>1, <2>2 DEF Traced
  <1>3. \A u, a : Known(c, u, a) =>
          IF Active' THEN Judged(carried[c]', counter[c]', op["job"].counts[c]', u, a)
                     ELSE Rested(carried[c]', counter[c]', u, a)
    BY <1>1 DEF Sound
  <1>4. Sound(c, 0, 0)'
    BY <1>3 DEF Known, Sound
  <1>5. HasRow(c)' => Sound(c, db[c].used, db[c].all)'
    BY <1>3 DEF Traced, Sound, HasRow
  <1>6. \A p \in Proc : op'[p].at \in Holding /\ op'[p].c = c =>
          Sound(c, op[p].row.used, op[p].row.all)'
    BY <1>3 DEF Traced, Sound
  <1> QED BY <1>2, <1>4, <1>5, <1>6 DEF SoundRows

\* Whatever is stored of a client whose counter nobody set back was held before,
\* but for what the job stores.
LEMMA DbTraced ==
    ASSUME AddrInv, [Next]_vars, ~Count("job"), NEW c \in Client \ wiped', db'[c] # NoRow
    PROVE  Known(c, db'[c].used, db'[c].all)
  <1>t. /\ op \in [Proc -> Op] /\ db \in Rows /\ \A d \in Client : HasRow(d) => db[d] \in Row
        /\ Roles
    BY DEF AddrInv, Typed, TypeOK, Rows, HasRow
  <1> SUFFICES ASSUME db'[c] # db[c] PROVE Known(c, db'[c].used, db'[c].all)
    BY DEF Known, HasRow
  <1>1. ASSUME NEW p \in Proc, Create(p) \/ UpdateClient(p)
        PROVE  Known(c, db'[c].used, db'[c].all)
    <2>1. op[p].at \in Holding /\ db' = [db EXCEPT ![op[p].c] = op[p].row]
      BY <1>1 DEF Create, UpdateClient, Holding, Copying
    <2>2. op[p].c = c /\ db'[c] = op[p].row
      BY <1>t, <2>1 DEF Rows
    <2> QED BY <2>1, <2>2 DEF Known
  <1>2. ASSUME NEW p \in Proc, DeleteClient(p) \/ DeleteAllRows(p) PROVE FALSE
    BY <1>2, <1>t DEF DeleteClient, DeleteAllRows, Rows
  <1>3. ASSUME NEW p \in Proc, Count(p) PROVE FALSE
    <2>1. p = "job"
      BY <1>t, <1>3 DEF Count, Roles, JobSteps
    <2> QED BY <1>3, <2>1
  <1>4. ASSUME NEW p \in Proc, Enforce(p) PROVE Known(c, db'[c].used, db'[c].all)
    <2>1. HasRow(c) /\ db'[c] = Enforced(c, db[c])
      BY <1>4 DEF Enforce, Enforced, HasRow
    <2>2. ~(Renews[c] /\ db[c].expiry = "passed")
      BY <1>4, <2>1 DEF Enforce
    <2>3. db'[c].used = db[c].used /\ db'[c].all = db[c].all
      BY <1>t, <2>1, <2>2, EnforcedRow
    <2> QED BY <2>1, <2>3 DEF Known
  <1>5. ASSUME NEW d \in Client, ResetClientTraffic(d) \/ Carry(d) \/ Expire(d)
        PROVE  Known(c, db'[c].used, db'[c].all)
    <2>1. ~ResetClientTraffic(d) \/ d # c
      BY <1>5 DEF ResetClientTraffic
    <2>2. Expire(d) /\ d = c
      BY <1>t, <1>5, <2>1 DEF ResetClientTraffic, Carry, Expire, Rows
    <2>3. HasRow(c) /\ db'[c] = [db[c] EXCEPT !.expiry = "passed"]
      BY <1>t, <2>2 DEF Expire, Rows
    <2> QED BY <1>t, <2>3, RowSet DEF Known
  <1>6. ASSUME ResetAllClientTraffics PROVE Known(c, db'[c].used, db'[c].all)
    <2>1. HasRow(c) /\ db'[c] = [db[c] EXCEPT !.enable = TRUE]
      BY <1>6 DEF ResetAllClientTraffics
    <2> QED BY <1>t, <2>1, RowSet DEF Known
  <1>7. \/ \E p \in Proc : \/ Create(p) \/ UpdateClient(p) \/ DeleteClient(p)
                           \/ DeleteAllRows(p) \/ Count(p) \/ Enforce(p)
        \/ \E d \in Client : ResetClientTraffic(d) \/ Carry(d) \/ Expire(d)
        \/ ResetAllClientTraffics
    BY DEF Next, vars, Request, toggleServer, SaveServer, Renumber, deleteAll, addClient,
       openClient,
       deleteClient, UpdateTrafficStats, Crash, Step, ReadClients, SyncConfig, Start, Restart,
       StartFails, InterfaceUp, Stop, StopFails, StartIfEnabled, AutoEnable,
       UpdateClientByUUID, GetServer, FindClients, DeleteAllStop, DisableServer, ResetFails
  <1> QED BY <1>1, <1>2, <1>3, <1>4, <1>5, <1>6, <1>7

\* Nor does an operation hold another row.
LEMMA OpTraced ==
    ASSUME AddrInv, [Next]_vars, NEW c \in Client,
           NEW p \in Proc, op'[p].at \in Holding, op'[p].c = c
    PROVE  Known(c, op'[p].row.used, op'[p].row.all)
  <1>t. op \in [Proc -> Op] /\ \A d \in Client : HasRow(d) => db[d] \in Row
    BY DEF AddrInv, Typed, TypeOK, HasRow
  <1>1. ASSUME op'[p] = op[p] PROVE Known(c, op'[p].row.used, op'[p].row.all)
    BY <1>1 DEF Known
  <1>2. ASSUME NEW q \in Proc, Create(q) \/ UpdateClient(q)
        PROVE  op'[p] = op[p]
    BY <1>t, <1>2 DEF Create, UpdateClient, Go, Holding, Copying
  <1>3. ASSUME NEW q \in Proc, addClient(q)
        PROVE  Known(c, op'[p].row.used, op'[p].row.all)
    <2>1. PICK x \in Client, a \in net.pool :
            op' = [op EXCEPT ![q] = [at |-> "create", on |-> enabled, c |-> x,
                     row |-> [enable |-> TRUE, addr |-> a, used |-> 0, all |-> 0,
                              expiry |-> Lifetime[x]]]]
      BY <1>3 DEF addClient, Begin
    <2>2. p = q => op'[p].row.used = 0 /\ op'[p].row.all = 0
      BY <1>t, <2>1
    <2>3. p # q => op'[p] = op[p]
      BY <1>t, <2>1
    <2> QED BY <1>1, <2>2, <2>3 DEF Known
  <1>4. ASSUME NEW q \in Proc, openClient(q)
        PROVE  Known(c, op'[p].row.used, op'[p].row.all)
    <2>1. PICK x \in Client, on \in BOOLEAN, at \in Copying :
            /\ HasRow(x)
            /\ op' = [op EXCEPT ![q] = [at |-> at, c |-> x, row |-> [db[x] EXCEPT !.enable = on]]]
      BY <1>4 DEF openClient, Begin, Copying
    <2>2. ASSUME p = q PROVE Known(c, op'[p].row.used, op'[p].row.all)
      <3>1. op'[p] = [at |-> at, c |-> x, row |-> [db[x] EXCEPT !.enable = on]]
        BY <1>t, <2>1, <2>2
      <3>2. x = c /\ op'[p].row = [db[x] EXCEPT !.enable = on]
        BY <3>1
      <3>3. op'[p].row.used = db[c].used /\ op'[p].row.all = db[c].all
        <4>1. db[x] \in Row
          BY <1>t, <2>1
        <4>2. /\ [db[x] EXCEPT !.enable = on].used = db[x].used
              /\ [db[x] EXCEPT !.enable = on].all = db[x].all
          BY <4>1, RowSet
        <4> QED BY <3>2, <4>2
      <3> QED BY <2>1, <3>2, <3>3 DEF Known
    <2>3. p # q => op'[p] = op[p]
      BY <1>t, <2>1
    <2> QED BY <1>1, <2>2, <2>3
  <1>5. CASE UNCHANGED vars
    BY <1>1, <1>5 DEF vars
  <1>6. CASE /\ Next
             /\ ~ \E q \in Proc : Create(q) \/ UpdateClient(q) \/ addClient(q) \/ openClient(q)
    <2>1. \A q \in Handler : q \in Proc
      BY DEF Proc
    <2>2. Loses
      BY <1>6, <2>1, OthersLose DEF Next, AddrInv
    <2>3. /\ op[p].at \in Holding /\ op[p].c = c
          /\ op'[p].row = op[p].row
      BY <2>2 DEF Loses
    <2> QED BY <2>3 DEF Known
  <1> QED BY <1>1, <1>2, <1>3, <1>4, <1>5, <1>6

\* The job stores what it read.
LEMMA CountSound ==
    ASSUME CountInv, Typed', Count("job"), NEW c \in Client \ wiped'
    PROVE  SoundRows(c)'
  <1> DEFINE o == op["job"]
             g == carried[c]
             k == counter[c]
             n == o.counts[c]
  <1>1. /\ op \in [Proc -> Op] /\ "job" \in Proc /\ o \in Op /\ o.at = "count"
        /\ counter \in [Client -> Units] /\ carried \in [Client -> Units] /\ db \in Rows
        /\ Roles
    BY DEF CountInv, Typed, TypeOK, Proc, Rows, Count
  <1>2. o.counts \in [Client -> Units] /\ o.rows \in Rows
    BY <1>1, OpFields
  <1>3. Units \subseteq Nat /\ \A r \in Row : r.used \in Nat /\ r.all \in Nat
    BY TunnelAssumption DEF Row, Units
  <1>4. /\ UNCHANGED <<counter, carried, wiped>> /\ op' = [op EXCEPT !["job"] = [at |-> "enforce"]]
        /\ \A d \in Client : db'[d] = IF d \in o.seen /\ o.rows[d] # NoRow /\ HasRow(d)
                                      THEN Stored(db[d], o.rows[d], o.counts[d]) ELSE db[d]
    BY DEF Count, Go, server, kernel, histories
  <1>5. /\ op'["job"].at = "enforce" /\ ~Active' /\ Active
        /\ \A p \in Proc : op'[p].at \in Holding => op'[p] = op[p]
    BY <1>1, <1>4 DEF Active, Holding, Copying
  <1>6. g \in Nat /\ k \in Nat /\ n \in Nat
    BY <1>1, <1>2, <1>3
  <1>7. ASSUME NEW u \in Nat, NEW a \in Nat, Sound(c, u, a)
        PROVE  /\ Rested(g, k, u, a)
               /\ Rested(g, k, n, a + (IF n > u THEN n - u ELSE 0))
    <2>1. Judged(g, k, n, u, a)
      BY <1>5, <1>7 DEF Sound
    <2> HIDE DEF g, k, n
    <2> QED BY <1>6, <2>1, Arithmetic
  <1>8. SoundRows(c)
    BY <1>4 DEF CountInv
  <1>9. \A u, a : Sound(c, u, a)' <=> Rested(g', k', u, a)
    BY <1>5 DEF Sound
  <1>10. g' = g /\ k' = k
    BY <1>4
  <1>11. Rested(g, k, 0, 0)
    BY <1>7, <1>8 DEF SoundRows
  <1>12. db'[c] # NoRow => Rested(g, k, db'[c].used, db'[c].all)
    <2>1. CASE HasRow(c) /\ db'[c] = db[c]
      BY <1>1, <1>3, <1>7, <1>8, <2>1 DEF SoundRows, HasRow, Rows
    <2>2. CASE o.rows[c] # NoRow /\ HasRow(c) /\ db'[c] = Stored(db[c], o.rows[c], n)
      <3>1. o.rows[c] \in Row /\ db[c] \in Row /\ n \in Units
        BY <1>1, <1>2, <2>2 DEF HasRow, Rows
      <3>2. CASE Stored(db[c], o.rows[c], n) = db[c]
        BY <2>1, <2>2, <3>2
      <3>3. CASE /\ Stored(db[c], o.rows[c], n).used = n
                 /\ Stored(db[c], o.rows[c], n).all =
                      o.rows[c].all + (IF n > o.rows[c].used THEN n - o.rows[c].used ELSE 0)
        <4>1. Sound(c, o.rows[c].used, o.rows[c].all)
          BY <1>1, <1>8, <2>2 DEF SoundRows
        <4>2. o.rows[c].used \in Nat /\ o.rows[c].all \in Nat
          BY <1>3, <3>1
        <4>3. Rested(g, k, n,
        o.rows[c].all + (IF n > o.rows[c].used THEN n - o.rows[c].used ELSE 0))
          BY <1>7, <4>1, <4>2
        <4> HIDE DEF n, g, k
        <4> QED BY <2>2, <3>3, <4>3
      <3> HIDE DEF n, o
      <3> QED BY <3>1, <3>2, <3>3, StoredRow
    <2>3. db'[c] # NoRow => \/ HasRow(c) /\ db'[c] = db[c]
                            \/ o.rows[c] # NoRow /\ HasRow(c) /\ db'[c] = Stored(db[c], o.rows[c], n)
      BY <1>4 DEF HasRow
    <2> QED BY <2>1, <2>2, <2>3
  <1>13. ASSUME NEW p \in Proc, op'[p].at \in Holding, op'[p].c = c
         PROVE  Rested(g, k, op'[p].row.used, op'[p].row.all)
    <2>1. op'[p] = op[p] /\ Sound(c, op[p].row.used, op[p].row.all)
      BY <1>5, <1>8, <1>13 DEF SoundRows
    <2>2. op[p].row \in Row
      BY <1>1, <1>13, <2>1, OpFields DEF Holding, Copying
    <2> QED BY <1>3, <1>7, <2>1, <2>2
  <1> HIDE DEF g, k
  <1>14. \A p \in Proc : op'[p].at \in Holding /\ op'[p].c = c =>
           Sound(c, op[p].row.used, op[p].row.all)'
    <2>1. \A p \in Proc : Sound(c, op[p].row.used, op[p].row.all)' <=>
                          Rested(g', k', op'[p].row.used, op'[p].row.all)
      BY <1>5 DEF Sound, g, k
    <2> QED BY <1>10, <1>13, <2>1
  <1>15. HasRow(c)' => Sound(c, db[c].used, db[c].all)'
    <2>1. Sound(c, db[c].used, db[c].all)' <=> Rested(g', k', db'[c].used, db'[c].all)
      BY <1>5 DEF Sound, g, k
    <2> QED BY <1>10, <1>12, <2>1 DEF HasRow
  <1>16. Sound(c, 0, 0)'
    BY <1>9, <1>10, <1>11
  <1> QED BY <1>5, <1>14, <1>15, <1>16 DEF SoundRows

LEMMA CountNext == AddrInv /\ CountInv /\ [Next]_vars => CountInv'
  <1> SUFFICES ASSUME AddrInv, CountInv, [Next]_vars, NEW c \in Client \ wiped'
               PROVE  SoundRows(c)'
    BY TypedNext DEF CountInv
  <1>1. Typed /\ Typed'
    BY TypedNext DEF CountInv
  <1>2. wiped \subseteq wiped'
    BY DEF Next, vars, Request, toggleServer, SaveServer, Renumber, deleteAll, addClient,
       openClient,
       deleteClient, UpdateTrafficStats, Crash, Step, ReadClients, SyncConfig, Start, Restart,
       StartFails, InterfaceUp, Stop, StopFails, StartIfEnabled, AutoEnable,
       UpdateClientByUUID, GetServer, FindClients, Create, UpdateClient, DeleteClient,
       DeleteAllStop, DeleteAllRows, DisableServer, Renumber, ResetFails, Count, Enforce,
       ResetClientTraffic, Carry, Expire,
       ResetAllClientTraffics, histories
  <1>3. SoundRows(c)
    BY <1>2 DEF CountInv
  <1>t. op \in [Proc -> Op] /\ "job" \in Proc /\ counter \in [Client -> Units]
        /\ carried \in [Client -> Units]
    BY <1>1 DEF Typed, TypeOK, Proc
  <1>4. CASE Count("job")
    BY <1>1, <1>4, CountSound
  <1>5. CASE ~Count("job")
    <2>1. /\ db'[c] # NoRow => Known(c, db'[c].used, db'[c].all)
          /\ \A p \in Proc : op'[p].at \in Holding /\ op'[p].c = c =>
               Known(c, op'[p].row.used, op'[p].row.all)
      BY <1>5, DbTraced, OpTraced
    <2>2. Safe(c) /\ (op'["job"].at = "count" => op'["job"] = op["job"] \/ op'["job"].rows = db)
      <3>1. ASSUME NEW p \in Handler, Request(p)
            PROVE  op'["job"] = op["job"] /\ UNCHANGED <<counter, carried>>
        <4>1. p # "job"
          BY TunnelAssumption
        <4> QED BY <1>t, <3>1, <4>1 DEF Request, toggleServer, SaveServer, Renumber, deleteAll,
        addClient,
                openClient, deleteClient, Begin, server, kernel
      <3>2. ASSUME op'["job"] = op["job"], UNCHANGED <<counter, carried>>
            PROVE  Safe(c) /\ (op'["job"].at = "count" =>
                                 op'["job"] = op["job"] \/ op'["job"].rows = db)
        BY <1>1, <3>2, SafeStep DEF Active
      <3>3. ASSUME NEW p \in Proc, Step(p)
            PROVE  Safe(c) /\ (op'["job"].at = "count" =>
                                 op'["job"] = op["job"] \/ op'["job"].rows = db)
        BY <1>1, <3>3, StepCounters, SafeStep
      <3>4. ASSUME NEW p \in Proc, UpdateTrafficStats(p)
            PROVE  Safe(c) /\ op'["job"].at # "count"
        <4>1. op["job"] = Idle /\ op'["job"] = [at |-> "clients", seen |-> peers, counts |-> counter]
              /\ UNCHANGED <<counter, carried>>
          BY <1>t, <3>4 DEF UpdateTrafficStats, Begin, server, kernel
        <4>2. Active' /\ ~Active /\ op'["job"].counts[c] = counter[c] /\ op'["job"].at # "count"
          BY <4>1 DEF Active, Idle
        <4> QED BY <1>1, <4>1, <4>2, SafeStep
      <3>5. ASSUME NEW d \in Client, Carry(d)
            PROVE  Safe(c) /\ op'["job"] = op["job"]
        <4>1. /\ UNCHANGED op
              /\ \/ counter'[c] = counter[c] /\ carried'[c] = carried[c]
                 \/ counter'[c] = counter[c] + 1 /\ carried'[c] = carried[c] + 1
          BY <1>t, <3>5 DEF Carry
        <4> QED BY <1>1, <4>1, SafeStep DEF Active
      <3>6. ASSUME NEW d \in Client, ResetClientTraffic(d) \/ Expire(d)
            PROVE  op'["job"] = op["job"] /\ UNCHANGED <<counter, carried>>
        BY <3>6 DEF ResetClientTraffic, Expire, server, kernel
      <3>7. ASSUME ResetAllClientTraffics
            PROVE  op'["job"] = op["job"] /\ UNCHANGED <<counter, carried>>
        BY <3>7 DEF ResetAllClientTraffics, server, kernel
      <3>8. ASSUME Crash PROVE Safe(c) /\ op'["job"].at # "count"
        <4>1. /\ op'["job"].at = "boot" /\ carried'[c] = carried[c]
              /\ counter'[c] = counter[c] \/ counter'[c] = 0
          BY <1>t, <3>8 DEF Crash, InterfaceDown, kernel
        <4> QED BY <1>1, <4>1, SafeStep DEF Active
      <3>9. CASE UNCHANGED vars
        BY <3>2, <3>9 DEF vars, server, kernel
      <3> QED BY <3>1, <3>2, <3>3, <3>4, <3>5, <3>6, <3>7, <3>8, <3>9 DEF Next
    <2> QED BY <1>1, <1>3, <2>1, <2>2, TracedSound DEF Traced
  <1> QED BY <1>4, <1>5

LEMMA CountInit == Init => CountInv
  <1> SUFFICES ASSUME Init, NEW c \in Client PROVE SoundRows(c)
    BY TypedInit DEF CountInv
  <1>1. /\ ~HasRow(c) /\ op["job"] = Idle /\ counter[c] = 0 /\ carried[c] = 0
        /\ \A p \in Proc : op[p].at \notin Holding
    BY DEF Init, HasRow, Idle, Holding, Copying, Proc
  <1>2. Sound(c, 0, 0)
    BY <1>1 DEF Sound, Active, Idle, Rested
  <1> QED BY <1>1, <1>2 DEF SoundRows, Idle

\* No unit is charged twice to a client, whatever interleaves with the job,
\* until somebody sets its counter back.
THEOREM NeverOvercounts == Spec => []NoOvercount
  <1>1. Spec => [](AddrInv /\ CountInv)
    BY AddrInit, CountInit, AddrNext, CountNext, PTL DEF Spec
  <1>2. CountInv => NoOvercount
    <2> SUFFICES ASSUME CountInv, NEW c \in Client \ wiped, HasRow(c)
                 PROVE  db[c].all <= carried[c]
      BY DEF NoOvercount
    <2>1. Sound(c, db[c].used, db[c].all) /\ db[c] \in Row /\ op["job"] \in Op
          /\ counter[c] \in Units /\ carried[c] \in Units
      BY DEF CountInv, SoundRows, Typed, TypeOK, HasRow, Proc
    <2>2. Units \subseteq Nat /\ db[c].used \in Nat /\ db[c].all \in Nat
      BY <2>1, TunnelAssumption DEF Row, Units
    <2>3. Active => op["job"].counts[c] \in Nat
      BY <2>1, <2>2, OpFields DEF Active
    <2> DEFINE g == carried[c]
               k == counter[c]
               u == db[c].used
               a == db[c].all
    <2>4. g \in Nat /\ k \in Nat /\ u \in Nat /\ a \in Nat
      BY <2>1, <2>2
    <2>5. Rested(g, k, u, a)
      BY <2>1, <2>3, <2>4, Arithmetic DEF Sound
    <2> HIDE DEF g, k, u, a
    <2>6. a <= g
      BY <2>4, <2>5, Arithmetic
    <2> QED BY <2>6 DEF a, g
  <1> QED BY <1>1, <1>2, PTL

-----------------------------------------------------------------------------
(* The kernel follows the database.                                        *)

On == {c \in Client : db[c].enable}
InStep == IF enabled THEN up /\ peers = On ELSE ~up

\* What is known at each step of an operation that is the only one.
Stage(o) ==
    /\ o.at \in {"create", "drop"} => o.on = enabled
    /\ o.at \in {"read", "load", "clients", "count", "enforce"} => enabled
    /\ o.at = "load" => o.on = On
    /\ o.at = "down" => ~enabled
    /\ o.at \in {"clear", "off"} => /\ o.how = "down" => ~up
                                    /\ o.how = "untouched" /\ settled => ~up
    /\ o.at \in {"create", "drop", "lookup", "save", "boot",
                 "clients", "count", "enforce"} => (settled => InStep)
    /\ o.at = "server" => (settled /\ ~enabled => ~up)

After(p) == IF op[p] = Idle THEN settled => InStep ELSE Stage(op[p])

Alone(p) == \A q \in Proc : q # p => op[q] = Idle

SettleInv ==
    /\ Quiet => (settled => InStep)
    /\ solo => \A p \in Proc : op[p] # Idle => Alone(p) /\ Stage(op[p])

\* How an operation that is not alone ends or goes on.
Crowded(p) == ~solo' /\ (op'[p] = Idle => ~settled')

LEMMA CrowdForms ==
    ASSUME Typed, NEW p \in Proc, ~solo
    PROVE  /\ Applied(p) \/ NotApplied(p) \/ Unapplied(p) => Crowded(p)
           /\ \A o : Go(p, o) /\ o.at # "idle" => Crowded(p)
           /\ \A on : Apply(p, on) => Crowded(p)
  <1>t. op \in [Proc -> Op] /\ solo \in BOOLEAN /\ settled \in BOOLEAN
    BY DEF Typed, TypeOK
  <1>1. Applied(p) \/ NotApplied(p) \/ Unapplied(p) => ~solo' /\ ~settled'
    BY <1>t DEF Applied, NotApplied, Unapplied, End
  <1>2. ASSUME NEW o, Go(p, o), o.at # "idle" PROVE Crowded(p)
    <2>1. op'[p] = o /\ ~solo'
      BY <1>t, <1>2 DEF Go
    <2>2. o # Idle
      BY <1>2 DEF Idle
    <2> QED BY <2>1, <2>2 DEF Crowded
  <1>3. ASSUME NEW on, Apply(p, on) PROVE Crowded(p)
    <2>1. Go(p, [at |-> "read"]) \/ Unapplied(p)
      BY <1>3 DEF Apply
    <2>2. [at |-> "read"].at # "idle"
      OBVIOUS
    <2> QED BY <1>1, <1>2, <2>1, <2>2 DEF Crowded
  <1> QED BY <1>1, <1>2, <1>3 DEF Crowded

\* A step of an operation that is not alone can only end unsettled.
LEMMA CrowdUnsettled ==
    ASSUME Typed, NEW p \in Proc, Step(p), ~solo
    PROVE  Crowded(p)
  <1>t. op \in [Proc -> Op]
    BY DEF Typed, TypeOK
  <1>1. CASE UpdateClientByUUID(p)
    <2>1. [op[p] EXCEPT !.at = "save"] = [at |-> "save", c |-> op[p].c, row |-> op[p].row]
      BY <1>t, <1>1, OpFields DEF UpdateClientByUUID
    <2>2. [op[p] EXCEPT !.at = "save"].at # "idle"
      BY <2>1
    <2>3. Go(p, [op[p] EXCEPT !.at = "save"]) \/ Unapplied(p)
      BY <1>1 DEF UpdateClientByUUID
    <2> QED BY <2>2, <2>3, CrowdForms
  <1>2. CASE ~UpdateClientByUUID(p)
    <2>1. CASE \/ SyncConfig(p) \/ Start(p) \/ Restart(p) \/ StartFails(p)
               \/ Stop(p) \/ StopFails(p) \/ DisableServer(p) \/ ResetFails(p)
      <3>1. Applied(p) \/ NotApplied(p) \/ Unapplied(p)
        BY <2>1 DEF SyncConfig, Start, Restart, StartFails, InterfaceUp, Stop, StopFails,
           DisableServer, ResetFails
      <3> QED BY <3>1, CrowdForms
    <2>2. CASE StartIfEnabled(p) \/ GetServer(p) \/ DeleteClient(p) \/ Enforce(p)
      <3>1. \E on : Apply(p, on)
        BY <2>2 DEF StartIfEnabled, GetServer, DeleteClient, Enforce
      <3> QED BY <3>1, CrowdForms
    <2>3. CASE ReadClients(p)
      <3> DEFINE o == [at |-> "load", on |-> {c \in Client : db[c].enable}]
      <3>1. Go(p, o) /\ o.at # "idle"
        BY <2>3 DEF ReadClients
      <3> QED BY <3>1, CrowdForms
    <2>4. CASE DeleteAllStop(p)
      <3>1. \E how : Go(p, [at |-> "clear", reset |-> op[p].reset, how |-> how])
        BY <2>4 DEF DeleteAllStop
      <3>2. \A how : [at |-> "clear", reset |-> op[p].reset, how |-> how].at # "idle"
        OBVIOUS
      <3> QED BY <3>1, <3>2, CrowdForms
    <2>7. CASE DeleteAllRows(p)
      <3>1. [op[p] EXCEPT !.at = "off"] = [at |-> "off", reset |-> op[p].reset, how |-> op[p].how]
        BY <1>t, <2>7, OpFields DEF DeleteAllRows
      <3>2. [op[p] EXCEPT !.at = "off"].at # "idle"
        BY <3>1
      <3> QED BY <2>7, <3>2, CrowdForms DEF DeleteAllRows
    <2>5. CASE Create(p) \/ AutoEnable(p) \/ UpdateClient(p) \/ Count(p)
      <3>1. \E at \in {"read", "enable", "server", "enforce"} : Go(p, [at |-> at])
        BY <2>5 DEF Create, AutoEnable, UpdateClient, Count
      <3>2. \A at \in {"read", "enable", "server", "enforce"} : [at |-> at].at # "idle"
        OBVIOUS
      <3> QED BY <3>1, <3>2, CrowdForms
    <2>6. CASE FindClients(p)
      <3> DEFINE o == [at |-> "count", seen |-> op[p].seen, counts |-> op[p].counts, rows |-> db]
      <3>1. Go(p, o) /\ o.at # "idle"
        BY <2>6 DEF FindClients
      <3> QED BY <3>1, CrowdForms
    <2> QED BY <1>2, <2>1, <2>2, <2>3, <2>4, <2>5, <2>6, <2>7 DEF Step
  <1> QED BY <1>1, <1>2

\* How an operation that is alone applies what it did, or has nothing to apply.
LEMMA ApplyAfter ==
    ASSUME Typed, NEW p \in Proc, NEW on \in BOOLEAN, Apply(p, on),
           on => enabled', ~on /\ settled => InStep'
    PROVE  After(p)'
  <1>t. op \in [Proc -> Op] /\ solo \in BOOLEAN /\ settled \in BOOLEAN
    BY DEF Typed, TypeOK
  <1>1. CASE on
    <2>1. op'[p] = [at |-> "read"] /\ enabled'
      BY <1>t, <1>1 DEF Apply, Go
    <2> QED BY <2>1 DEF After, Stage, Idle
  <1>2. CASE ~on
    <2>1. op'[p] = Idle /\ (settled' => settled)
      BY <1>t, <1>2 DEF Apply, Unapplied, End
    <2> QED BY <1>2, <2>1 DEF After
  <1> QED BY <1>1, <1>2

\* One that is alone keeps what is known, or ends in step.
LEMMA AloneAfter ==
    ASSUME Typed, NEW p \in Proc, Step(p), solo, Stage(op[p])
    PROVE  After(p)'
  <1>t. op \in [Proc -> Op] /\ db \in Rows /\ enabled \in BOOLEAN /\ op[p] \in Op
    BY DEF Typed, TypeOK, Rows
  <1>b. solo \in BOOLEAN /\ settled \in BOOLEAN
    BY DEF Typed, TypeOK
  <1> USE DEF Applied, NotApplied, Unapplied, End, Go, Idle, After, Stage
  <1>1. CASE ReadClients(p)
    <2>1. op'[p] = [at |-> "load", on |-> On] /\ enabled /\ UNCHANGED <<enabled, db>>
      BY <1>t, <1>1 DEF ReadClients, On, server, kernel
    <2>2. On' = On
      BY <2>1 DEF On
    <2> QED BY <2>1, <2>2
  <1>2. CASE SyncConfig(p) \/ Start(p) \/ Restart(p)
    <2>1. /\ op'[p] = Idle /\ enabled /\ UNCHANGED <<enabled, db>>
          /\ up' = TRUE /\ peers' = On
      <3>1. up \in BOOLEAN
        BY DEF Typed, TypeOK
      <3> QED BY <1>t, <1>2, <3>1 DEF SyncConfig, Start, Restart, InterfaceUp
    <2>2. On' = On
      BY <2>1 DEF On
    <2> QED BY <2>1, <2>2 DEF InStep
  <1>3. CASE StartFails(p) \/ StopFails(p) \/ ResetFails(p)
    BY <1>t, <1>3 DEF StartFails, StopFails, ResetFails
  <1>4. CASE Stop(p)
    BY <1>t, <1>4 DEF Stop, InterfaceDown, InStep
  <1>5. CASE DeleteAllStop(p) \/ DeleteAllRows(p)
    <2>1. CASE DeleteAllStop(p)
      <3>1. \/ /\ op'[p] = [at |-> "clear", reset |-> op[p].reset, how |-> "down"]
               /\ up' = FALSE
            \/ op'[p] = [at |-> "clear", reset |-> op[p].reset, how |-> "failed"]
        BY <1>t, <2>1 DEF DeleteAllStop, InterfaceDown
      <3> QED BY <3>1
    <2>2. CASE DeleteAllRows(p)
      <3>1. [op[p] EXCEPT !.at = "off"] = [at |-> "off", reset |-> op[p].reset, how |-> op[p].how]
        BY <1>t, <2>2, OpFields DEF DeleteAllRows
      <3>2. /\ op'[p] = [at |-> "off", reset |-> op[p].reset, how |-> op[p].how]
            /\ op[p].at = "clear" /\ UNCHANGED <<up, settled>>
        BY <1>t, <2>2, <3>1 DEF DeleteAllRows, server, kernel
      <3> QED BY <3>2
    <2> QED BY <1>5, <2>1, <2>2
  <1>6. CASE DisableServer(p)
    <2>1. /\ op'[p] = Idle /\ ~enabled' /\ up' = up
          /\ settled' => op[p].how = "down" \/ (op[p].how = "untouched" /\ settled)
      BY <1>t, <1>b, <1>6 DEF DisableServer, kernel
    <2>2. op[p].at = "off"
      BY <1>6 DEF DisableServer
    <2> QED BY <2>1, <2>2 DEF InStep
  <1>7. CASE StartIfEnabled(p)
    <2>1. UNCHANGED <<enabled, up, peers, db>> /\ (settled => InStep)
      BY <1>7 DEF StartIfEnabled, server, kernel
    <2>2. InStep' = InStep
      BY <2>1 DEF InStep, On
    <2>3. (enabled /\ ~up) \in BOOLEAN /\ Apply(p, enabled /\ ~up)
      BY <1>7 DEF StartIfEnabled
    <2> QED BY <2>1, <2>2, <2>3, ApplyAfter
  <1>8. CASE Create(p)
    BY <1>t, <1>8 DEF Create, server, kernel
  <1>9. CASE AutoEnable(p)
    BY <1>t, <1>9 DEF AutoEnable
  <1>10. CASE UpdateClientByUUID(p)
    <2>1. UNCHANGED <<enabled, up, peers, db>> /\ (settled => InStep)
      BY <1>10 DEF UpdateClientByUUID, server, kernel
    <2>2. InStep' = InStep
      BY <2>1 DEF InStep, On
    <2>3. [op[p] EXCEPT !.at = "save"] = [at |-> "save", c |-> op[p].c, row |-> op[p].row]
      BY <1>t, <1>10, OpFields DEF UpdateClientByUUID
    <2>4. \/ op'[p] = [at |-> "save", c |-> op[p].c, row |-> op[p].row] /\ settled' = settled
          \/ op'[p] = Idle /\ (settled' => settled)
      BY <1>t, <1>b, <1>10, <2>3 DEF UpdateClientByUUID
    <2> QED BY <2>1, <2>2, <2>4
  <1>11. CASE UpdateClient(p)
    BY <1>t, <1>11 DEF UpdateClient, InStep, server, kernel
  <1>12. CASE GetServer(p)
    <2>1. Apply(p, enabled) /\ UNCHANGED <<enabled, up>> /\ (settled /\ ~enabled => ~up)
      BY <1>12 DEF GetServer, server, kernel
    <2> QED BY <1>t, <2>1, ApplyAfter DEF InStep
  <1>13. CASE DeleteClient(p)
    <2>1. /\ Apply(p, op[p].on) /\ UNCHANGED <<enabled, up>> /\ op[p].on = enabled
          /\ (settled => InStep)
      BY <1>13 DEF DeleteClient, server, kernel
    <2> QED BY <1>t, <2>1, ApplyAfter DEF InStep
  <1>14. CASE FindClients(p)
    <2>1. UNCHANGED <<enabled, up, peers, db>> /\ enabled /\ (settled => InStep)
      BY <1>14 DEF FindClients, server, kernel
    <2>2. InStep' = InStep
      BY <2>1 DEF InStep, On
    <2> QED BY <1>t, <1>14, <2>1, <2>2 DEF FindClients
  <1>15. CASE Count(p)
    <2>1. UNCHANGED <<enabled, up, peers>> /\ enabled /\ (settled => InStep)
      BY <1>15 DEF Count, server, kernel
    <2>2. On' = On
      <3>1. ASSUME NEW c \in Client PROVE db'[c].enable = db[c].enable
        <4>1. CASE op[p].rows[c] # NoRow /\ HasRow(c)
          <5>1. op[p].rows[c] \in Row /\ db[c] \in Row /\ op[p].counts[c] \in Units
            BY <1>t, <1>15, <4>1, OpFields DEF Count, HasRow, Rows
          <5>2. Stored(db[c], op[p].rows[c], op[p].counts[c]).enable = db[c].enable
            BY <5>1, StoredRow
          <5> QED BY <1>15, <5>2 DEF Count
        <4>2. CASE ~(op[p].rows[c] # NoRow /\ HasRow(c))
          BY <1>15, <4>2 DEF Count
        <4> QED BY <4>1, <4>2
      <3> QED BY <3>1 DEF On
    <2>3. InStep' = InStep
      BY <2>1, <2>2 DEF InStep
    <2> QED BY <1>t, <1>15, <2>1, <2>3 DEF Count
  <1>16. CASE Enforce(p)
    <2>1. UNCHANGED <<enabled, up, peers>> /\ enabled /\ (settled => InStep)
      BY <1>16 DEF Enforce, server, kernel
    <2>2. CASE \E c \in Client : HasRow(c) /\ Reconfig(c, db[c])
      <3>1. Apply(p, TRUE)
        BY <1>16, <2>2 DEF Enforce, Apply
      <3> QED BY <2>1, <3>1, ApplyAfter
    <2>3. CASE ~ \E c \in Client : HasRow(c) /\ Reconfig(c, db[c])
      <3>1. ASSUME NEW c \in Client PROVE db'[c].enable = db[c].enable
        <4>1. CASE HasRow(c)
          <5>1. db[c] \in Row /\ ~Reconfig(c, db[c]) /\ db'[c] = Enforced(c, db[c])
            BY <1>t, <1>16, <2>3, <4>1 DEF Enforce, Enforced, HasRow, Rows
          <5> QED BY <5>1, EnforcedRow
        <4>2. CASE ~HasRow(c)
          BY <1>16, <4>2 DEF Enforce, HasRow
        <4> QED BY <4>1, <4>2
      <3>2. On' = On
        BY <3>1 DEF On
      <3>3. InStep' = InStep
        BY <2>1, <3>2 DEF InStep
      <3>4. op'[p] = Idle /\ (settled' => settled)
        BY <1>t, <1>b, <1>16, <2>3 DEF Enforce, Apply
      <3> QED BY <2>1, <3>3, <3>4
    <2> QED BY <2>2, <2>3
  <1> QED BY <1>1, <1>2, <1>3, <1>4, <1>5, <1>6, <1>7, <1>8, <1>9, <1>10, <1>11, <1>12,
         <1>13, <1>14, <1>15, <1>16 DEF Step

\* An operation begins: it is alone if there was none.
LEMMA BeginSettles ==
    ASSUME Typed, SettleInv, NEW p \in Proc, NEW o, Begin(p, o), o.at # "idle",
           Quiet /\ (settled => InStep) => Stage(op[p])'
    PROVE  SettleInv'
  <1>t. op \in [Proc -> Op] /\ solo \in BOOLEAN
    BY DEF Typed, TypeOK
  <1>1. /\ op'[p] = o /\ o # Idle /\ \A q \in Proc : q # p => op'[q] = op[q]
        /\ solo' = Quiet /\ settled' = settled
    BY <1>t DEF Begin, Idle
  <1>2. ~Quiet'
    BY <1>1 DEF Quiet
  <1>3. ASSUME solo', NEW q \in Proc, op'[q] # Idle PROVE Alone(q)' /\ Stage(op[q])'
    <2>1. Quiet /\ q = p
      BY <1>1, <1>3 DEF Quiet
    <2>2. Alone(p)'
      BY <1>1, <2>1 DEF Quiet, Alone
    <2>3. Stage(op[p])'
      BY <2>1 DEF SettleInv
    <2> QED BY <2>1, <2>2, <2>3
  <1> QED BY <1>2, <1>3 DEF SettleInv

LEMMA StepSettles ==
    ASSUME Typed, SettleInv, NEW p \in Proc, Step(p)
    PROVE  SettleInv'
  <1>t. op \in [Proc -> Op] /\ solo \in BOOLEAN
    BY DEF Typed, TypeOK
  <1>1. /\ op[p] # Idle /\ solo' = solo
        /\ \A q \in Proc : q # p => op'[q] = op[q]
    BY <1>t DEF Step, ReadClients, SyncConfig, Start, Restart, StartFails, InterfaceUp, Stop,
       StopFails, StartIfEnabled, AutoEnable, UpdateClientByUUID, GetServer, FindClients,
       Create, UpdateClient, DeleteClient, DeleteAllStop, DeleteAllRows, DisableServer,
       Renumber, ResetFails, Count, Enforce,
       Applied, NotApplied, Unapplied, End, Go, Apply, Idle
  <1>2. CASE solo
    <2>1. Alone(p) /\ After(p)'
      BY <1>1, <1>2, AloneAfter DEF SettleInv
    <2>2. \A q \in Proc : q # p => op'[q] = Idle
      BY <1>1, <2>1 DEF Alone
    <2>3. Quiet' => (settled' => InStep')
      BY <2>1 DEF Quiet, After
    <2>4. ASSUME NEW q \in Proc, op'[q] # Idle PROVE Alone(q)' /\ Stage(op[q])'
      BY <2>1, <2>2, <2>4 DEF Alone, After
    <2> QED BY <2>3, <2>4 DEF SettleInv
  <1>3. CASE ~solo
    <2>1. Crowded(p)
      BY <1>3, CrowdUnsettled
    <2> QED BY <2>1 DEF Crowded, SettleInv, Quiet
  <1> QED BY <1>2, <1>3

\* What a beginning operation is, and that nothing else has changed.
LEMMA BeginIs ==
    ASSUME Typed, NEW p \in Proc, NEW o, Begin(p, o)
    PROVE  op'[p] = o /\ settled' = settled
  BY DEF Typed, TypeOK, Begin

LEMMA RequestSettles ==
    ASSUME Typed, SettleInv, NEW p \in Proc, Request(p)
    PROVE  SettleInv'
  <1>t. enabled \in BOOLEAN
    BY DEF Typed, TypeOK
  <1>1. CASE toggleServer(p)
    <2>1. PICK on \in BOOLEAN : enabled' = on /\ Begin(p, IF on THEN [at |-> "read"] ELSE Stopping)
      BY <1>1 DEF toggleServer
    <2> DEFINE o == IF on THEN [at |-> "read"] ELSE Stopping
    <2>2. o.at # "idle" /\ op'[p] = o
      BY <2>1, BeginIs DEF Stopping
    <2>3. Stage(op[p])'
      BY <2>1, <2>2 DEF Stopping, Stage
    <2> HIDE DEF o
    <2>4. Begin(p, o)
      BY <2>1 DEF o
    <2> QED BY <2>2, <2>3, <2>4, BeginSettles
  <1>2. ASSUME UNCHANGED <<enabled, up, peers, db>> PROVE InStep' = InStep
    BY <1>2 DEF InStep, On
  <1>3. ASSUME NEW o, Begin(p, o), UNCHANGED <<enabled, up, peers, db>>,
               o.at \in {"create", "drop", "lookup", "save", "stop", "clear"},
               o.at \in {"create", "drop"} => o.on = enabled,
               o.at = "clear" => o.how = "untouched" /\ ~enabled
        PROVE  SettleInv'
    <2>1. op'[p] = o /\ settled' = settled /\ InStep' = InStep
      BY <1>2, <1>3, BeginIs
    <2>2. (settled => InStep) => Stage(op[p])'
      BY <1>t, <1>3, <2>1 DEF Stage, InStep
    <2> QED BY <1>3, <2>2, BeginSettles
  <1>4. CASE SaveServer(p)
    <2>1. CASE enabled' = TRUE /\ Begin(p, [at |-> "read"])
      <3> DEFINE o == [at |-> "read"]
      <3>1. op'[p] = o /\ o.at = "read"
        BY <2>1, BeginIs
      <3>2. Stage(op[p])'
        BY <2>1, <3>1 DEF Stage
      <3> HIDE DEF o
      <3>3. Begin(p, o)
        BY <2>1 DEF o
      <3> QED BY <3>1, <3>2, <3>3, BeginSettles
    <2>2. CASE /\ enabled' = FALSE /\ UNCHANGED op
               /\ solo' = Quiet /\ settled' = (settled /\ Quiet /\ ~enabled)
      <3>1. UNCHANGED up /\ Quiet' = Quiet
        BY <1>4, <2>2 DEF SaveServer, kernel, Quiet
      <3>2. settled' => InStep'
        BY <2>2, <3>1 DEF SettleInv, InStep
      <3>3. solo' => \A q \in Proc : op'[q] = Idle
        BY <2>2 DEF Quiet
      <3> QED BY <3>2, <3>3 DEF SettleInv
    <2> QED BY <1>4, <2>1, <2>2 DEF SaveServer
  <1>5. CASE deleteAll(p)
    <2>1. PICK reset \in BOOLEAN :
            Begin(p, IF enabled THEN [at |-> "stop", reset |-> reset]
                     ELSE [at |-> "clear", reset |-> reset, how |-> "untouched"])
      BY <1>5 DEF deleteAll
    <2> DEFINE o == IF enabled THEN [at |-> "stop", reset |-> reset]
                    ELSE [at |-> "clear", reset |-> reset, how |-> "untouched"]
    <2>2. /\ Begin(p, o) /\ o.at \in {"stop", "clear"}
          /\ o.at = "clear" => o.how = "untouched" /\ ~enabled
      BY <2>1
    <2> HIDE DEF o
    <2> QED BY <1>3, <1>5, <2>2 DEF deleteAll, server, kernel
  <1>6. CASE addClient(p)
    <2>1. PICK c \in Client, a \in net.pool :
            Begin(p, [at |-> "create", on |-> enabled, c |-> c,
                      row |-> [enable |-> TRUE, addr |-> a, used |-> 0, all |-> 0,
                               expiry |-> Lifetime[c]]])
      BY <1>6 DEF addClient
    <2> DEFINE o == [at |-> "create", on |-> enabled, c |-> c,
                     row |-> [enable |-> TRUE, addr |-> a, used |-> 0, all |-> 0,
                              expiry |-> Lifetime[c]]]
    <2>2. Begin(p, o) /\ o.at = "create" /\ o.on = enabled
      BY <2>1
    <2> HIDE DEF o
    <2> QED BY <1>3, <1>6, <2>2 DEF addClient, server, kernel
  <1>7. CASE openClient(p)
    <2>1. PICK c \in Client, on \in BOOLEAN, at \in {"lookup", "save"} :
            Begin(p, [at |-> at, c |-> c, row |-> [db[c] EXCEPT !.enable = on]])
      BY <1>7 DEF openClient
    <2> DEFINE o == [at |-> at, c |-> c, row |-> [db[c] EXCEPT !.enable = on]]
    <2>2. Begin(p, o) /\ o.at \in {"lookup", "save"}
      BY <2>1
    <2> HIDE DEF o
    <2> QED BY <1>3, <1>7, <2>2 DEF openClient, server, kernel
  <1>8. CASE deleteClient(p)
    <2>1. PICK c \in Client : Begin(p, [at |-> "drop", on |-> enabled, c |-> c])
      BY <1>8 DEF deleteClient
    <2> DEFINE o == [at |-> "drop", on |-> enabled, c |-> c]
    <2>2. Begin(p, o) /\ o.at = "drop" /\ o.on = enabled
      BY <2>1
    <2> HIDE DEF o
    <2> QED BY <1>3, <1>8, <2>2 DEF deleteClient, server, kernel
  <1> QED BY <1>1, <1>4, <1>5, <1>6, <1>7, <1>8 DEF Request

LEMMA OtherSettles ==
    ASSUME Typed, SettleInv,
           \/ \E p \in Proc : UpdateTrafficStats(p)
           \/ \E c \in Client : ResetClientTraffic(c) \/ Carry(c) \/ Expire(c)
           \/ ResetAllClientTraffics \/ Crash
    PROVE  SettleInv'
  <1>t. op \in [Proc -> Op] /\ db \in Rows /\ \A c \in Client : HasRow(c) => db[c] \in Row
    BY DEF Typed, TypeOK, Rows, HasRow
  <1>1. ASSUME NEW p \in Proc, UpdateTrafficStats(p) PROVE SettleInv'
    <2> DEFINE o == [at |-> "clients", seen |-> peers, counts |-> counter]
    <2>1. Begin(p, o) /\ enabled /\ UNCHANGED <<enabled, up, peers, db, settled>>
      BY <1>1 DEF UpdateTrafficStats, server, kernel, Begin
    <2>2. o.at = "clients"
      OBVIOUS
    <2> HIDE DEF o
    <2>3. op'[p] = o /\ InStep' = InStep
      BY <2>1, BeginIs DEF InStep, On
    <2>4. (settled => InStep) => Stage(op[p])'
      BY <2>1, <2>2, <2>3 DEF Stage
    <2> QED BY <2>1, <2>2, <2>4, BeginSettles
  <1>2. ASSUME NEW c \in Client, ResetClientTraffic(c) \/ Carry(c) \/ Expire(c)
        PROVE  SettleInv'
    <2>1. UNCHANGED <<enabled, up, peers, op, solo, settled>>
      BY <1>2 DEF ResetClientTraffic, Carry, Expire, server, kernel
    <2>2. On' = On
      <3>1. HasRow(c) => /\ [db[c] EXCEPT !.used = 0].enable = db[c].enable
                         /\ [db[c] EXCEPT !.expiry = "passed"].enable = db[c].enable
        BY <1>t, RowSet
      <3>2. CASE ResetClientTraffic(c)
        <4>1. HasRow(c) /\ db' = [db EXCEPT ![c] = [db[c] EXCEPT !.used = 0]]
          BY <3>2 DEF ResetClientTraffic
        <4>2. \A d \in Client : db'[d].enable = db[d].enable
          BY <1>t, <3>1, <4>1 DEF Rows
        <4> QED BY <4>2 DEF On
      <3>3. CASE Expire(c)
        <4>1. HasRow(c) /\ db' = [db EXCEPT ![c] = [db[c] EXCEPT !.expiry = "passed"]]
          BY <3>3 DEF Expire
        <4>2. \A d \in Client : db'[d].enable = db[d].enable
          BY <1>t, <3>1, <4>1 DEF Rows
        <4> QED BY <4>2 DEF On
      <3>4. CASE Carry(c)
        BY <3>4 DEF Carry, On
      <3> QED BY <1>2, <3>2, <3>3, <3>4
    <2>3. InStep' = InStep
      BY <2>1, <2>2 DEF InStep
    <2>4. ASSUME NEW p \in Proc, Stage(op[p]) PROVE Stage(op[p])'
      BY <2>1, <2>2, <2>3, <2>4 DEF Stage
    <2>5. Quiet' = Quiet /\ \A p \in Proc : Alone(p)' = Alone(p)
      BY <2>1 DEF Quiet, Alone
    <2> QED BY <2>1, <2>3, <2>4, <2>5 DEF SettleInv
  <1>3. ASSUME ResetAllClientTraffics PROVE SettleInv'
    BY <1>3 DEF ResetAllClientTraffics, SettleInv
  <1>4. ASSUME Crash PROVE SettleInv'
    <2>1. /\ op'["job"] = [at |-> "boot"] /\ \A p \in Proc : p # "job" => op'[p] = Idle
          /\ "job" \in Proc
      BY <1>t, <1>4 DEF Crash, Proc
    <2>2. settled' => InStep'
      <3>1. CASE ~settled'
        BY <3>1
      <3>2. CASE settled'
        <4>1. settled /\ Quiet /\ UNCHANGED <<enabled, up, peers, db>>
          BY <1>4, <3>2 DEF Crash, kernel
        <4>2. InStep
          BY <4>1 DEF SettleInv
        <4> QED BY <4>1, <4>2 DEF InStep, On
      <3> QED BY <3>1, <3>2
    <2>3. ~Quiet'
      BY <2>1 DEF Quiet, Idle
    <2>4. Stage(op["job"])'
      BY <2>1, <2>2 DEF Stage
    <2>5. Alone("job")'
      BY <2>1 DEF Alone
    <2> QED BY <2>1, <2>3, <2>4, <2>5 DEF SettleInv
  <1> QED BY <1>1, <1>2, <1>3, <1>4

LEMMA SettleNext == Typed /\ SettleInv /\ [Next]_vars => SettleInv'
  <1> SUFFICES ASSUME Typed, SettleInv, [Next]_vars PROVE SettleInv'
    OBVIOUS
  <1>1. CASE \E p \in Handler : Request(p)
    BY <1>1, RequestSettles DEF Proc
  <1>2. CASE \E p \in Proc : Step(p)
    BY <1>2, StepSettles
  <1>3. CASE \/ \E p \in Proc : UpdateTrafficStats(p)
             \/ \E c \in Client : ResetClientTraffic(c) \/ Carry(c) \/ Expire(c)
             \/ ResetAllClientTraffics \/ Crash
    BY <1>3, OtherSettles
  <1>4. CASE UNCHANGED vars
    <2>1. UNCHANGED <<enabled, up, peers, db, op, solo, settled>>
      BY <1>4 DEF vars, server, kernel
    <2>2. InStep' = InStep /\ On' = On /\ Quiet' = Quiet
      BY <2>1 DEF InStep, On, Quiet
    <2>3. \A p \in Proc : Alone(p) => Alone(p)'
      BY <2>1 DEF Alone
    <2>4. \A p \in Proc : Stage(op[p]) => Stage(op[p])'
      BY <2>1, <2>2 DEF Stage
    <2> QED BY <2>1, <2>2, <2>3, <2>4 DEF SettleInv
  <1> QED BY <1>1, <1>2, <1>3, <1>4 DEF Next

\* After an operation that ran alone and whose commands succeeded, and after all
\* that need no applying, the peers are the clients that are switched on; a post
\* that only disables the server, and what failed, settles nothing.
THEOREM KernelFollows == Spec => []Settles
  <1>1. Init => SettleInv
    BY DEF Init, SettleInv, InStep, Idle
  <1>2. Spec => [](Typed /\ SettleInv)
    BY <1>1, TypedInit, TypedNext, SettleNext, PTL DEF Spec
  <1>3. SettleInv => Settles
    BY DEF SettleInv, Settles, InStep, On
  <1> QED BY <1>2, <1>3, PTL
=============================================================================
