------------------------- MODULE ClientTrafficProofs -------------------------
(***************************************************************************)
(* Proofs for ClientTraffic: types, the accounting of traffic and what a   *)
(* transaction of the traffic job enforces, for any clients, quotas,       *)
(* periods, lifetimes and any handlers, all of them overlapping.           *)
(***************************************************************************)
EXTENDS ClientTraffic, TLAPS

\* A row whose traffic is not bounded yet: what AddTraffic makes of a row is
\* within the bound only because NoOvercount holds.
FreeRow == [on : BOOLEAN, used : Nat, exp : Int]
Used(r) == IF r = NoRow THEN 0 ELSE r.used
Pending(j, c) == IF j = Idle THEN 0 ELSE j.batch[c]

\* Types and accounting depend on each other.
TrafficInv == TypeOK /\ NoOvercount

-----------------------------------------------------------------------------
(* Rows.                                                                   *)

LEMMA RowIsFree ==
    ASSUME TypeOK, NEW c \in Client
    PROVE  rows[c] \in FreeRow \cup {NoRow}
BY ClientTrafficAssumption DEF TypeOK, Row, FreeRow, ClientTrafficAssumption

LEMMA FreeIsRow ==
    ASSUME NEW r \in FreeRow \cup {NoRow}, NEW n \in 0..MaxTraffic,
           Used(r) <= n
    PROVE  r \in Row \cup {NoRow}
BY ClientTrafficAssumption DEF Used, FreeRow, Row, ClientTrafficAssumption

LEMMA CountedRow ==
    ASSUME TypeOK, NEW c \in Client, NEW batch \in [Client -> Nat], NEW online
    PROVE  /\ Counted(c, batch, online) \in FreeRow \cup {NoRow}
           /\ Used(Counted(c, batch, online)) <= Used(rows[c]) + batch[c]
<1> DEFINE r == rows[c]
<1>1. r \in FreeRow \cup {NoRow} /\ batch[c] \in Nat /\ now \in Int
  BY RowIsFree, ClientTrafficAssumption DEF TypeOK, ClientTrafficAssumption
<1>2. CASE r = NoRow \/ c \notin online
  BY <1>1, <1>2 DEF Counted, Used, FreeRow
<1>3. CASE ~(r = NoRow \/ c \notin online)
  <2> DEFINE e == IF r.exp < 0 /\ settings[c] # "absent" THEN now - r.exp
                  ELSE r.exp
  <2>1. r \in FreeRow /\ r # NoRow
    BY <1>1, <1>3
  <2>2. Counted(c, batch, online) =
          [r EXCEPT !.used = r.used + batch[c], !.exp = e]
    BY <1>3 DEF Counted
  <2>3. e \in Int /\ r.used + batch[c] \in Nat
    BY <1>1, <2>1 DEF FreeRow
  <2>4. Counted(c, batch, online) \in FreeRow
    BY <2>1, <2>2, <2>3 DEF FreeRow
  <2>5. Counted(c, batch, online).used = r.used + batch[c]
    BY <2>1, <2>2 DEF FreeRow
  <2> QED
    BY <1>1, <2>1, <2>3, <2>4, <2>5 DEF Used
<1> QED
  BY <1>2, <1>3

LEMMA RenewedRow ==
    ASSUME TypeOK, NEW c \in Client, NEW r \in FreeRow \cup {NoRow}
    PROVE  /\ Renewed(c, r) \in FreeRow \cup {NoRow}
           /\ Used(Renewed(c, r)) <= Used(r)
<1>1. CASE ~Due(c, r)
  BY <1>1 DEF Renewed, Used, FreeRow
<1>2. CASE Due(c, r)
  <2> DEFINE d == Period[c]
             k == (now - r.exp + d - 1) \div d
  <2>1. r \in FreeRow /\ r # NoRow /\ d \in Nat /\ d > 0 /\ now \in Int
    BY <1>2, ClientTrafficAssumption DEF Due, TypeOK, ClientTrafficAssumption
  <2>2. r.exp \in Int /\ now - r.exp + d - 1 \in Int
    BY <2>1 DEF FreeRow
  <2>3. k \in Int
    BY <2>1, <2>2
  <2>4. r.exp + d * k \in Int
    <3> HIDE DEF d, k
    <3> QED
      BY <2>1, <2>2, <2>3
  <2>5. Renewed(c, r) = [on |-> TRUE, used |-> 0, exp |-> r.exp + d * k]
    BY <1>2 DEF Renewed, NextExpiry
  <2>6. Renewed(c, r) \in FreeRow /\ Renewed(c, r).used = 0
    <3> HIDE DEF d, k
    <3> QED
      BY <2>4, <2>5 DEF FreeRow
  <2> QED
    BY <2>1, <2>6 DEF Used, FreeRow
<1> QED
  BY <1>1, <1>2

LEMMA DisabledRow ==
    ASSUME NEW c \in Client, NEW r \in FreeRow \cup {NoRow}
    PROVE  /\ Disabled(c, r) \in FreeRow \cup {NoRow}
           /\ Used(Disabled(c, r)) <= Used(r)
<1>1. CASE ~Invalid(c, r)
  BY <1>1 DEF Disabled, Used, FreeRow
<1>2. CASE Invalid(c, r)
  <2>1. r \in FreeRow /\ r # NoRow
    BY <1>2 DEF Invalid
  <2>2. Disabled(c, r) = [r EXCEPT !.on = FALSE]
    BY <1>2 DEF Disabled
  <2>3. Disabled(c, r) \in FreeRow /\ Disabled(c, r).used = r.used
    BY <2>1, <2>2 DEF FreeRow
  <2> QED
    BY <2>1, <2>3 DEF Used, FreeRow
<1> QED
  BY <1>1, <1>2

\* disableInvalidClients leaves no enabled row that is exhausted or expired.
LEMMA DisabledHolds ==
    ASSUME NEW c \in Client, NEW r \in FreeRow \cup {NoRow},
           Disabled(c, r) # NoRow, Disabled(c, r).on
    PROVE  ~Depleted(c, Disabled(c, r))
<1>1. CASE ~Invalid(c, r)
  BY <1>1 DEF Disabled, Invalid
<1>2. CASE Invalid(c, r)
  <2>1. r \in FreeRow
    BY <1>2 DEF Invalid
  <2>2. Disabled(c, r) = [r EXCEPT !.on = FALSE]
    BY <1>2 DEF Disabled
  <2>3. ~Disabled(c, r).on
    BY <2>1, <2>2 DEF FreeRow
  <2> QED
    BY <2>3
<1> QED
  BY <1>1, <1>2

-----------------------------------------------------------------------------
(* The transaction.                                                        *)

\* Calls to the API only exchange users of the running core.
LEMMA ApiCore ==
    ASSUME NEW k \in Core, NEW R \in SUBSET Client, NEW A \in SUBSET Client,
           NEW F
    PROVE  /\ Api(k, R, A, F).core \in Core
           /\ Api(k, R, A, F).fail \in BOOLEAN
<1> DEFINE answers == k.up /\ k.inb
           kept  == IF answers THEN k.users \ (R \ F.remove) ELSE k.users
           added == IF answers THEN A \ (F.add \cup kept) ELSE {}
           f     == \/ ~answers /\ R \cup A # {}
                    \/ R \cap F.remove # {}
                    \/ added # A
<1>1. Api(k, R, A, F) =
        [core |-> [k EXCEPT !.users = kept \cup added], fail |-> f]
  BY DEF Api
<1>2. kept \in SUBSET Client /\ added \in SUBSET Client
  BY DEF Core
<1>3. Api(k, R, A, F).core = [k EXCEPT !.users = kept \cup added]
  BY <1>1
<1>4. [k EXCEPT !.users = kept \cup added] \in Core
  BY <1>2 DEF Core
<1>5. Api(k, R, A, F).fail = f
  BY <1>1
<1>6. f \in BOOLEAN
  BY Zenon
<1> QED
  BY <1>3, <1>4, <1>5, <1>6

\* AddTraffic adds no more than the batch to a row, and every enabled row it
\* leaves is within its quota and its time.
LEMMA AddTrafficRows ==
    ASSUME TypeOK, NEW batch \in [Client -> Nat], NEW online, NEW F
    PROVE  LET t == AddTraffic(batch, online, F)
           IN  /\ t.rows \in [Client -> FreeRow \cup {NoRow}]
               /\ \A c \in Client :
                     /\ Used(t.rows[c]) <= Used(rows[c]) + batch[c]
                     /\ (t.rows[c] # NoRow /\ t.rows[c].on)
                           => ~Depleted(c, t.rows[c])
<1> DEFINE counted(c) == Counted(c, batch, online)
           renewed(c) == Renewed(c, counted(c))
           after(c)   == Disabled(c, renewed(c))
<1>1. AddTraffic(batch, online, F).rows = [c \in Client |-> after(c)]
  BY DEF AddTraffic
<1>2. ASSUME NEW c \in Client
      PROVE  /\ after(c) \in FreeRow \cup {NoRow}
             /\ Used(after(c)) <= Used(rows[c]) + batch[c]
             /\ (after(c) # NoRow /\ after(c).on) => ~Depleted(c, after(c))
  <2>1. /\ counted(c) \in FreeRow \cup {NoRow}
        /\ Used(counted(c)) <= Used(rows[c]) + batch[c]
    BY CountedRow
  <2>2. /\ renewed(c) \in FreeRow \cup {NoRow}
        /\ Used(renewed(c)) <= Used(counted(c))
    BY <2>1, RenewedRow
  <2>3. /\ after(c) \in FreeRow \cup {NoRow}
        /\ Used(after(c)) <= Used(renewed(c))
    BY <2>2, DisabledRow
  <2>4. (after(c) # NoRow /\ after(c).on) => ~Depleted(c, after(c))
    BY <2>2, DisabledHolds
  <2>5. /\ \A r \in FreeRow \cup {NoRow} : Used(r) \in Nat
        /\ rows[c] \in FreeRow \cup {NoRow} /\ batch[c] \in Nat
    BY RowIsFree DEF Used, FreeRow
  <2>6. /\ Used(after(c)) \in Nat /\ Used(renewed(c)) \in Nat
        /\ Used(counted(c)) \in Nat /\ Used(rows[c]) \in Nat
    BY <2>1, <2>2, <2>3, <2>5
  <2> HIDE DEF counted, renewed, after
  <2>7. Used(after(c)) <= Used(rows[c]) + batch[c]
    BY <2>1, <2>2, <2>3, <2>5, <2>6
  <2> QED
    BY <2>3, <2>4, <2>7
<1> HIDE DEF after
<1> QED
  BY <1>1, <1>2

\* ... and it leaves the inbound and the core well formed.
LEMMA AddTrafficCore ==
    ASSUME TypeOK, NEW batch, NEW online, NEW F
    PROVE  LET t == AddTraffic(batch, online, F)
           IN  t.inbOn \in BOOLEAN /\ t.core \in Core /\ t.fail \in BOOLEAN
<1> DEFINE counted == [c \in Client |-> Counted(c, batch, online)]
           renewed == [c \in Client |-> Renewed(c, counted[c])]
           revive  == {c \in Client : Due(c, counted[c]) /\ ~counted[c].on}
           cut     == {c \in Client : Invalid(c, renewed[c])}
           back    == Api(core, {}, revive, F)
           left    == Api(back.core, cut, {}, F)
           closing == inbOn /\ InboundExpiry \in 1..now
           deleted == closing /\ core.up /\ core.inb
           last    == IF deleted
                      THEN [left.core EXCEPT !.inb = FALSE, !.users = {}]
                      ELSE left.core
           t == AddTraffic(batch, online, F)
<1>1. /\ t.inbOn = (inbOn /\ ~closing)
      /\ t.core = last
      /\ t.fail = (back.fail \/ left.fail \/ (closing /\ ~deleted))
  BY DEF AddTraffic
<1>2. revive \in SUBSET Client /\ cut \in SUBSET Client /\ core \in Core
  BY DEF TypeOK
<1>3. back.core \in Core
  BY <1>2, ApiCore
<1>4. left.core \in Core
  BY <1>2, <1>3, ApiCore
<1>5. last \in Core
  <2> HIDE DEF left, deleted
  <2> QED
    BY <1>4 DEF Core
<1>6. /\ (inbOn /\ ~closing) \in BOOLEAN
      /\ (back.fail \/ left.fail \/ (closing /\ ~deleted)) \in BOOLEAN
  BY Zenon
<1> HIDE DEF last, back, left, closing, deleted
<1>7. t.inbOn \in BOOLEAN
  BY <1>1, <1>6, Zenon
<1>8. t.fail \in BOOLEAN
  BY <1>1, <1>6, Zenon
<1> QED
  BY <1>1, <1>5, <1>7, <1>8

-----------------------------------------------------------------------------
(* Reading TrafficInv.                                                     *)

LEMMA Numbers ==
    ASSUME TypeOK, NEW c \in Client
    PROVE  /\ ctr[c] \in 0..MaxTraffic /\ carried[c] \in 0..MaxTraffic
           /\ Pending(job, c) \in 0..MaxTraffic
           /\ Used(rows[c]) \in Nat
           /\ MaxTraffic \in Nat
<1>1. MaxTraffic \in Nat
  BY ClientTrafficAssumption DEF ClientTrafficAssumption
<1>2. ctr[c] \in 0..MaxTraffic /\ carried[c] \in 0..MaxTraffic
  BY DEF TypeOK, Counters
<1>3. Used(rows[c]) \in Nat
  BY RowIsFree DEF Used, FreeRow
<1>4. Pending(job, c) \in 0..MaxTraffic
  BY <1>1 DEF TypeOK, Pending, Batch, Counters
<1> QED
  BY <1>1, <1>2, <1>3, <1>4

LEMMA Balance ==
    NoOvercount <=>
      \A c \in Client :
         ctr[c] + Pending(job, c) + Used(rows[c]) <= carried[c]
BY DEF NoOvercount, Pending, Used

LEMMA BalanceNext ==
    NoOvercount' <=>
      \A c \in Client :
         ctr'[c] + Pending(job', c) + Used(rows'[c]) <= carried'[c]
BY DEF NoOvercount, Pending, Used

\* A step that stores rows within what was carried keeps them in their range.
LEMMA RowsWithin ==
    ASSUME TypeOK, NEW R \in [Client -> FreeRow \cup {NoRow}],
           \A c \in Client : Used(R[c]) <= carried[c]
    PROVE  R \in [Client -> Row \cup {NoRow}]
<1>1. ASSUME NEW c \in Client PROVE R[c] \in Row \cup {NoRow}
  BY FreeIsRow, Numbers
<1> QED
  BY <1>1

LEMMA BatchIsFree ==
    ASSUME TypeOK, job # Idle
    PROVE  /\ job \in Batch /\ job.batch \in [Client -> Nat]
           /\ \A c \in Client : job.batch[c] = Pending(job, c)
<1>1. job \in Batch
  BY DEF TypeOK
<1> QED
  BY <1>1, ClientTrafficAssumption
  DEF Batch, Counters, Pending, ClientTrafficAssumption

LEMMA RequestOf ==
    ASSUME TypeOK, NEW h \in Handler
    PROVE  /\ hd[h].op = "update" => hd[h] \in UpdateRequest
           /\ hd[h].op = "add" => hd[h] \in AddRequest
           /\ hd[h].op \in {"del", "save"} => hd[h] \in DelRequest
           /\ hd[h].op = "reset" => hd[h] \in ResetRequest
           /\ hd[h].op = "inbound" => hd[h] \in InboundRequest
           /\ hd[h].op = "depleted" => hd[h] \in DepletedRequest
<1>1. hd[h] \in Request
  BY DEF TypeOK
<1> QED
  BY <1>1
  DEF Request, Idle, UpdateRequest, AddRequest, DelRequest, ResetRequest,
      InboundRequest, DepletedRequest

-----------------------------------------------------------------------------
(* Every step keeps TrafficInv.                                            *)

LEMMA TrafficInit == Init => TrafficInv
<1> SUFFICES ASSUME Init PROVE TrafficInv
  OBVIOUS
<1> USE ClientTrafficAssumption DEF ClientTrafficAssumption
<1>1. \A c \in Client : rows[c] = NoRow \/ rows[c] = NewRow(c, settings[c] = "on")
  BY DEF Init
<1>2. \A c \in Client : NewRow(c, settings[c] = "on") \in Row
  <2> TAKE c \in Client
  <2>1. (settings[c] = "on") \in BOOLEAN
    BY Zenon
  <2>2. Lifetime[c] \in Int /\ 0 \in 0..MaxTraffic
    OBVIOUS
  <2> HIDE DEF ClientTrafficAssumption
  <2> QED
    BY <2>1, <2>2 DEF NewRow, Row
<1>3. rows \in [Client -> Row \cup {NoRow}]
  BY <1>2 DEF Init
<1>4. /\ settings \in Settings /\ ctr \in Counters /\ carried \in Counters
      /\ seen \in SUBSET Client /\ now \in 1..MaxNow
      /\ crashes \in 0..MaxCrash /\ lost \in 0..MaxLost
  BY DEF Init, Zero, Counters
<1>5. conf \in Config /\ core \in Core
  BY DEF Init, GenConfig, Entitled, Config, Core
<1>6. inbOn \in BOOLEAN /\ need \in BOOLEAN
  BY Zenon DEF Init
<1>7. job \in {Idle} \cup Batch /\ rs \in {Idle} \cup Decision
  BY Zenon DEF Init
<1>8. hd \in [Handler -> Request]
  BY DEF Init, Request
<1>9. TypeOK
  BY <1>3, <1>4, <1>5, <1>6, <1>7, <1>8 DEF TypeOK
<1>10. \A c \in Client : Used(rows[c]) = 0
  <2> TAKE c \in Client
  <2> DEFINE b == settings[c] = "on"
  <2>1. NewRow(c, b).used = 0
    <3> HIDE DEF b
    <3> QED
      BY DEF NewRow
  <2>2. rows[c] = NoRow \/ rows[c] = NewRow(c, b)
    BY <1>1
  <2> HIDE DEF b
  <2> QED
    BY <2>1, <2>2 DEF Used
<1>11. \A c \in Client : ctr[c] = 0 /\ carried[c] = 0 /\ Pending(job, c) = 0
  BY DEF Init, Zero, Pending
<1>12. NoOvercount
  BY <1>10, <1>11, Balance
<1> QED
  BY <1>9, <1>12 DEF TrafficInv

\* XrayTrafficJob: the counters become a batch, and the batch goes to the rows
\* or is lost.
LEMMA TrafficJob ==
    ASSUME TrafficInv, JobCollect \/ JobCommit \/ JobTxFails
    PROVE  TrafficInv'
<1> USE DEF TrafficInv, dbVars, coreVars
<1>1. CASE JobCollect
  <2>1. job' = [op |-> "commit", batch |-> ctr, online |-> seen] /\ job' \in Batch
    BY <1>1 DEF JobCollect, Batch, TypeOK
  <2>2. job' # Idle /\ \A c \in Client : Pending(job', c) = ctr[c]
    BY <2>1 DEF Idle, Pending
  <2>3. \A c \in Client : ctr'[c] = 0
    BY <1>1 DEF JobCollect, Zero
  <2>4. ctr' \in Counters
    BY <1>1, ClientTrafficAssumption
    DEF JobCollect, Zero, Counters, ClientTrafficAssumption
  <2>5. TypeOK'
    BY <1>1, <2>1, <2>4 DEF JobCollect, TypeOK
  <2>6. ASSUME NEW c \in Client
        PROVE  ctr'[c] + Pending(job', c) + Used(rows'[c]) <= carried'[c]
    <3>1. Pending(job, c) = 0 /\ rows'[c] = rows[c] /\ carried' = carried
      BY <1>1 DEF JobCollect, Pending
    <3> QED
      BY <2>2, <2>3, <3>1, Balance, Numbers
  <2> QED
    BY <2>5, <2>6, BalanceNext
<1>2. CASE JobCommit
  <2>1. job # Idle
    BY <1>2 DEF JobCommit
  <2>2. PICK F : LET t == AddTraffic(job.batch, job.online, F)
                 IN  /\ rows' = t.rows
                     /\ inbOn' = t.inbOn
                     /\ core' = t.core
                     /\ need' = (need \/ t.fail)
    BY <1>2 DEF JobCommit
  <2>3. /\ rows' \in [Client -> FreeRow \cup {NoRow}]
        /\ \A c \in Client : Used(rows'[c]) <= Used(rows[c]) + job.batch[c]
    BY <2>1, <2>2, BatchIsFree, AddTrafficRows
  <2>4. inbOn' \in BOOLEAN /\ core' \in Core
    BY <2>2, AddTrafficCore
  <2>5. need' \in BOOLEAN
    BY <2>2
  <2>6. ASSUME NEW c \in Client
        PROVE  /\ ctr'[c] + Pending(job', c) + Used(rows'[c]) <= carried'[c]
               /\ Used(rows'[c]) <= carried[c]
    <3>1. Pending(job', c) = 0 /\ ctr' = ctr /\ carried' = carried
      BY <1>2 DEF JobCommit, Pending
    <3>2. job.batch[c] = Pending(job, c)
      BY <2>1, BatchIsFree
    <3>3. Used(rows'[c]) \in Nat
      BY <2>3 DEF Used, FreeRow
    <3> QED
      BY <2>3, <3>1, <3>2, <3>3, Balance, Numbers
  <2>7. rows' \in [Client -> Row \cup {NoRow}]
    BY <2>3, <2>6, RowsWithin
  <2>8. TypeOK'
    BY <1>2, <2>4, <2>5, <2>7 DEF JobCommit, TypeOK
  <2> QED
    BY <2>6, <2>8, BalanceNext
<1>3. CASE JobTxFails
  <2>1. lost' \in 0..MaxLost
    BY <1>3, ClientTrafficAssumption
    DEF JobTxFails, TypeOK, ClientTrafficAssumption
  <2>2. TypeOK'
    BY <1>3, <2>1 DEF JobTxFails, TypeOK
  <2>3. ASSUME NEW c \in Client
        PROVE  ctr'[c] + Pending(job', c) + Used(rows'[c]) <= carried'[c]
    <3>1. /\ Pending(job', c) = 0 /\ ctr' = ctr /\ carried' = carried
          /\ rows' = rows
      BY <1>3 DEF JobTxFails, Pending
    <3> QED
      BY <3>1, Balance, Numbers
  <2> QED
    BY <2>2, <2>3, BalanceNext
<1> QED
  BY <1>1, <1>2, <1>3

\* Steps that change neither the counters nor what is on its way, and store
\* in no row more than it had.
LEMMA NothingCharged ==
    ASSUME TrafficInv, ctr' = ctr, job' = job, carried' = carried,
           rows' \in [Client -> FreeRow \cup {NoRow}],
           \A c \in Client : Used(rows'[c]) <= Used(rows[c])
    PROVE  NoOvercount' /\ rows' \in [Client -> Row \cup {NoRow}]
<1> USE DEF TrafficInv
<1>1. ASSUME NEW c \in Client
      PROVE  /\ ctr'[c] + Pending(job', c) + Used(rows'[c]) <= carried'[c]
             /\ Used(rows'[c]) <= carried[c]
  <2>1. Used(rows'[c]) \in Nat
    BY DEF Used, FreeRow
  <2> QED
    BY <2>1, Balance, Numbers
<1>2. rows' \in [Client -> Row \cup {NoRow}]
  BY <1>1, RowsWithin
<1> QED
  BY <1>1, <1>2, BalanceNext

LEMMA TrafficRestart ==
    ASSUME TrafficInv,
           RestartNeeded \/ RestartCrashed \/ RestartForced \/ RestartXray
    PROVE  TrafficInv'
<1> USE DEF TrafficInv, dbVars, coreVars
<1>1. ASSUME NEW force \in BOOLEAN, GetXrayConfig(force), need' \in BOOLEAN
      PROVE  TrafficInv'
  <2>1. PICK F : LET t == AddTraffic(Zero, {}, F)
                 IN  /\ rows' = t.rows
                     /\ inbOn' = t.inbOn
                     /\ core' = t.core
                     /\ rs' = [op |-> "decide", force |-> force,
                               cfg |-> GenConfig(settings, t.rows, t.inbOn)]
    BY <1>1 DEF GetXrayConfig
  <2>2. Zero \in [Client -> Nat] /\ \A c \in Client : Zero[c] = 0
    BY DEF Zero
  <2>3. /\ rows' \in [Client -> FreeRow \cup {NoRow}]
        /\ \A c \in Client : Used(rows'[c]) <= Used(rows[c]) + Zero[c]
    BY <2>1, <2>2, AddTrafficRows
  <2>4. inbOn' \in BOOLEAN /\ core' \in Core
    BY <2>1, AddTrafficCore
  <2>5. \A c \in Client : Used(rows'[c]) <= Used(rows[c])
    BY <2>2, <2>3, Numbers
  <2>6. NoOvercount' /\ rows' \in [Client -> Row \cup {NoRow}]
    BY <1>1, <2>3, <2>5, NothingCharged DEF GetXrayConfig
  <2>7. GenConfig(settings, rows', inbOn') \in Config
    BY <2>4 DEF GenConfig, Entitled, Config
  <2>8. rs' \in Decision
    BY <2>1, <2>7 DEF Decision
  <2>9. TypeOK'
    BY <1>1, <2>4, <2>6, <2>8 DEF GetXrayConfig, TypeOK
  <2> QED
    BY <2>6, <2>9
<1>2. CASE RestartNeeded
  BY <1>1, <1>2 DEF RestartNeeded
<1>3. CASE RestartCrashed
  BY <1>1, <1>3 DEF RestartCrashed, TypeOK
<1>4. CASE RestartForced
  BY <1>1, <1>4 DEF RestartForced, TypeOK
<1>5. CASE RestartXray
  <2>1. rs \in Decision
    BY <1>5 DEF RestartXray, TypeOK
  <2>2. rs.cfg \in Config
    BY <2>1 DEF Decision
  <2>3. Zero \in Counters
    BY ClientTrafficAssumption DEF Zero, Counters, ClientTrafficAssumption
  <2>4. /\ core' \in Core /\ conf' \in Config /\ ctr' \in Counters
        /\ seen' \in SUBSET Client
        /\ ctr' = ctr \/ ctr' = Zero
    <3>1. CASE UNCHANGED coreVars
      BY <3>1 DEF TypeOK
    <3>2. CASE /\ core' = [up |-> TRUE, inb |-> rs.cfg.inb, users |-> rs.cfg.users]
               /\ conf' = rs.cfg
               /\ ctr' = Zero
               /\ seen' = {}
      <4>1. rs.cfg.inb \in BOOLEAN /\ rs.cfg.users \in SUBSET Client
        BY <2>2 DEF Config
      <4>2. core' \in Core
        BY <3>2, <4>1 DEF Core
      <4> QED
        BY <2>2, <2>3, <3>2, <4>2
    <3> QED
      BY <1>5, <3>1, <3>2 DEF RestartXray
  <2>5. TypeOK'
    BY <1>5, <2>4 DEF RestartXray, TypeOK
  <2>6. ASSUME NEW c \in Client
        PROVE  ctr'[c] + Pending(job', c) + Used(rows'[c]) <= carried'[c]
    <3>1. ctr'[c] = ctr[c] \/ ctr'[c] = 0
      BY <2>4 DEF Zero
    <3> QED
      BY <1>5, <3>1, Balance, Numbers DEF RestartXray
  <2> QED
    BY <2>5, <2>6, BalanceNext
<1> QED
  BY <1>2, <1>3, <1>4, <1>5

\* Handlers read: a request is remembered.
LEMMA TrafficReads ==
    ASSUME TrafficInv, NEW h \in Handler,
           \/ UpdateRead(h) \/ AddRead(h) \/ DelRead(h)
           \/ InboundRead(h) \/ DepletedRead(h)
    PROVE  TrafficInv'
<1> USE DEF TrafficInv, dbVars, coreVars
<1>1. ASSUME NEW op, NEW request \in Request, Begin(h, op, request)
      PROVE  TrafficInv'
  <2>1. hd' \in [Handler -> Request]
    BY <1>1 DEF Begin, TypeOK
  <2>2. TypeOK'
    BY <1>1, <2>1 DEF Begin, TypeOK
  <2>3. NoOvercount'
    BY <1>1 DEF Begin, NoOvercount
  <2> QED
    BY <2>2, <2>3
<1>2. ASSUME NEW c \in Client PROVE Switches(c) \in SUBSET BOOLEAN
  BY DEF Switches
<1>3. settings \in Settings /\ inbOn \in BOOLEAN /\ Present(settings) \in SUBSET Client
  BY DEF TypeOK, Present
<1>4. CASE UpdateRead(h)
  <2>1. PICK c \in Present(settings) : \E e \in Switches(c) :
          Begin(h, "update",
              [op |-> "update", c |-> c, on |-> e,
               exp |-> IF rows[c] = NoRow THEN 0 ELSE rows[c].exp,
               sett |-> settings, inb |-> inbOn])
    BY <1>4 DEF UpdateRead
  <2>2. PICK e \in BOOLEAN :
          Begin(h, "update",
              [op |-> "update", c |-> c, on |-> e,
               exp |-> IF rows[c] = NoRow THEN 0 ELSE rows[c].exp,
               sett |-> settings, inb |-> inbOn])
    BY <1>2, <1>3, <2>1
  <2>3. (IF rows[c] = NoRow THEN 0 ELSE rows[c].exp) \in Int
    BY <1>3, <2>1 DEF TypeOK, Row
  <2>4. [op |-> "update", c |-> c, on |-> e,
         exp |-> IF rows[c] = NoRow THEN 0 ELSE rows[c].exp,
         sett |-> settings, inb |-> inbOn] \in UpdateRequest
    BY <1>3, <2>1, <2>2, <2>3 DEF UpdateRequest
  <2> QED
    BY <1>1, <2>2, <2>4 DEF Request
<1>5. CASE AddRead(h)
  <2>1. PICK c \in Client \ Present(settings) : \E e \in Switches(c) :
          Begin(h, "add", [op |-> "add", c |-> c, on |-> e,
                           sett |-> settings, inb |-> inbOn])
    BY <1>5 DEF AddRead
  <2>2. PICK e \in BOOLEAN :
          Begin(h, "add", [op |-> "add", c |-> c, on |-> e,
                           sett |-> settings, inb |-> inbOn])
    BY <1>2, <2>1
  <2>3. [op |-> "add", c |-> c, on |-> e, sett |-> settings, inb |-> inbOn]
           \in AddRequest
    BY <1>3, <2>1, <2>2 DEF AddRequest
  <2> QED
    BY <1>1, <2>2, <2>3 DEF Request
<1>6. CASE DelRead(h)
  <2>1. PICK c \in Present(settings) :
          Begin(h, "del", [op |-> "del", c |-> c,
                           sett |-> settings, inb |-> inbOn])
    BY <1>6 DEF DelRead
  <2>2. [op |-> "del", c |-> c, sett |-> settings, inb |-> inbOn] \in DelRequest
    BY <1>3, <2>1 DEF DelRequest
  <2> QED
    BY <1>1, <2>1, <2>2 DEF Request
<1>7. CASE InboundRead(h)
  <2>1. [op |-> "inbound", sett |-> settings, inb |-> inbOn] \in InboundRequest
    BY <1>3 DEF InboundRequest
  <2> QED
    BY <1>1, <1>7, <2>1 DEF InboundRead, Request
<1>8. CASE DepletedRead(h)
  <2> DEFINE gone == {c \in Rowed(rows) : Period[c] = 0 /\ Depleted(c, rows[c])}
             q == [op |-> "depleted", gone |-> gone, at |-> now,
                   sett |-> settings, inb |-> inbOn]
  <2>1. gone \in SUBSET Client /\ now \in 1..MaxNow
    BY DEF Rowed, TypeOK
  <2>2. Begin(h, "depleted", q)
    BY <1>8 DEF DepletedRead
  <2> HIDE DEF gone
  <2>3. q \in DepletedRequest
    BY <1>3, <2>1 DEF DepletedRequest
  <2> HIDE DEF q
  <2> QED
    BY <1>1, <2>2, <2>3 DEF Request
<1> QED
  BY <1>4, <1>5, <1>6, <1>7, <1>8

\* A new row has nothing charged.
LEMMA FreshRow ==
    ASSUME NEW c \in Client, NEW b \in BOOLEAN
    PROVE  NewRow(c, b) \in FreeRow /\ NewRow(c, b).used = 0
<1>1. Lifetime[c] \in Int
  BY ClientTrafficAssumption DEF ClientTrafficAssumption
<1> QED
  BY <1>1 DEF NewRow, FreeRow

\* Handlers write: rows are kept, edited, emptied, removed or new.
LEMMA TrafficWrites ==
    ASSUME TrafficInv, NEW h \in Handler,
           ResetRead(h) \/ HandlerWrites(h)
    PROVE  TrafficInv'
<1> USE DEF TrafficInv, dbVars, coreVars
<1>1. ASSUME NEW c \in Client
      PROVE  /\ rows[c] \in FreeRow \cup {NoRow}
             /\ Used(rows[c]) \in Nat
  BY RowIsFree, Numbers
<1>2. Idle \in Request /\ hd \in [Handler -> Request]
  BY DEF Request, TypeOK
<1>3. core \in Core
  BY DEF TypeOK
<1>4. CASE ResetRead(h)
  <2>1. PICK c \in Rowed(rows), F \in Timeouts :
          LET back == IF ~rows[c].on /\ settings[c] = "on" THEN {c} ELSE {}
              api  == Api(core, {}, back, F)
          IN  /\ core' = api.core
              /\ hd' = [hd EXCEPT ![h] = [op |-> "reset", c |-> c,
                                          row |-> rows[c], fail |-> api.fail]]
    BY <1>4 DEF ResetRead
  <2> DEFINE back == IF ~rows[c].on /\ settings[c] = "on" THEN {c} ELSE {}
             api  == Api(core, {}, back, F)
             req  == [op |-> "reset", c |-> c, row |-> rows[c], fail |-> api.fail]
  <2>2. c \in Client /\ rows[c] \in Row
    BY DEF Rowed, TypeOK
  <2>3. back \in SUBSET Client
    BY <2>2
  <2>4. api.core \in Core /\ api.fail \in BOOLEAN
    <3> HIDE DEF back
    <3> QED
      BY <1>3, <2>3, ApiCore
  <2>5. req \in Request
    <3> HIDE DEF api
    <3> QED
      BY <2>2, <2>4 DEF Request, ResetRequest
  <2>6. core' \in Core /\ hd' \in [Handler -> Request]
    <3>1. core' = api.core /\ hd' = [hd EXCEPT ![h] = req]
      BY <2>1
    <3> HIDE DEF api, req
    <3> QED
      BY <1>2, <2>4, <2>5, <3>1
  <2>7. TypeOK'
    BY <1>4, <2>6 DEF ResetRead, TypeOK
  <2>8. NoOvercount'
    BY <1>4 DEF ResetRead, NoOvercount
  <2> QED
    BY <2>7, <2>8
<1>5. CASE UpdateInboundClient(h)
  <2> DEFINE r == hd[h]
             c == r.c
  <2>1. r \in UpdateRequest
    BY <1>5, RequestOf DEF UpdateInboundClient
  <2>2. c \in Client /\ r.on \in BOOLEAN /\ r.exp \in Int
        /\ r.sett \in Settings /\ r.inb \in BOOLEAN
    BY <2>1 DEF UpdateRequest
  <2>3. PICK F :
          LET api == Api(core, IF r.sett[c] = "on" THEN {c} ELSE {},
                         IF r.on THEN {c} ELSE {}, F)
          IN  /\ rows' = IF rows[c] = NoRow THEN rows
                         ELSE [rows EXCEPT ![c].on = r.on, ![c].exp = r.exp]
              /\ core' = api.core
              /\ need' = (need \/ api.fail)
              /\ SaveInbound([r.sett EXCEPT ![c] = IF r.on THEN "on" ELSE "off"],
                             r.inb)
    BY <1>5 DEF UpdateInboundClient
  <2>4. core' \in Core
    <3> DEFINE R == IF r.sett[c] = "on" THEN {c} ELSE {}
               A == IF r.on THEN {c} ELSE {}
    <3>1. R \in SUBSET Client /\ A \in SUBSET Client
      BY <2>2
    <3>2. core' = Api(core, R, A, F).core
      BY <2>3
    <3> HIDE DEF R, A
    <3> QED
      BY <1>3, <3>1, <3>2, ApiCore
  <2>5. need' \in BOOLEAN
    BY <2>3
  <2>6. settings' \in Settings /\ inbOn' \in BOOLEAN
    BY <2>2, <2>3 DEF SaveInbound, Settings, Switch
  <2>7. /\ rows' \in [Client -> FreeRow \cup {NoRow}]
        /\ \A d \in Client : Used(rows'[d]) <= Used(rows[d])
    <3>1. CASE rows[c] = NoRow
      BY <1>1, <2>3, <3>1 DEF TypeOK
    <3>2. CASE rows[c] # NoRow
      <4> DEFINE n == [rows[c] EXCEPT !.on = r.on, !.exp = r.exp]
      <4>1. rows' = [rows EXCEPT ![c] = n]
        BY <2>3, <3>2
      <4>2. n \in FreeRow /\ n.used = rows[c].used
        BY <1>1, <2>2, <3>2 DEF FreeRow
      <4>3. Used(n) <= Used(rows[c])
        <5> HIDE DEF n
        <5> QED
          BY <1>1, <2>2, <3>2, <4>2 DEF Used, FreeRow
      <4>4. /\ DOMAIN rows = Client /\ rows' = [d \in Client |-> IF d = c THEN n ELSE rows[d]]
        <5> HIDE DEF n
        <5> QED
          BY <4>1 DEF TypeOK
      <4> HIDE DEF n
      <4> QED
        BY <1>1, <4>2, <4>3, <4>4
    <3> QED
      BY <3>1, <3>2
  <2>8. /\ hd' \in [Handler -> Request]
        /\ ctr' = ctr /\ job' = job /\ carried' = carried
    BY <1>2, <1>5 DEF UpdateInboundClient, Finish
  <2>9. NoOvercount' /\ rows' \in [Client -> Row \cup {NoRow}]
    BY <2>7, <2>8, NothingCharged
  <2>10. TypeOK'
    BY <1>5, <2>4, <2>5, <2>6, <2>8, <2>9 DEF UpdateInboundClient, Finish, TypeOK
  <2> QED
    BY <2>9, <2>10
<1>6. CASE AddInboundClient(h)
  <2> DEFINE r == hd[h]
             c == r.c
  <2>1. r \in AddRequest
    BY <1>6, RequestOf DEF AddInboundClient
  <2>2. c \in Client /\ r.on \in BOOLEAN /\ r.sett \in Settings /\ r.inb \in BOOLEAN
    BY <2>1 DEF AddRequest
  <2>3. PICK F :
          LET api == Api(core, {}, IF r.on THEN {c} ELSE {}, F)
          IN  /\ rows' = IF rows[c] = NoRow
                         THEN [rows EXCEPT ![c] = NewRow(c, r.on)] ELSE rows
              /\ core' = api.core
              /\ need' = (need \/ api.fail)
              /\ SaveInbound([r.sett EXCEPT ![c] = IF r.on THEN "on" ELSE "off"],
                             r.inb)
    BY <1>6 DEF AddInboundClient
  <2>4. core' \in Core
    <3> DEFINE A == IF r.on THEN {c} ELSE {}
    <3>1. A \in SUBSET Client
      BY <2>2
    <3>2. core' = Api(core, {}, A, F).core
      BY <2>3
    <3> HIDE DEF A
    <3> QED
      BY <1>3, <3>1, <3>2, ApiCore
  <2>5. need' \in BOOLEAN
    BY <2>3
  <2>6. settings' \in Settings /\ inbOn' \in BOOLEAN
    BY <2>2, <2>3 DEF SaveInbound, Settings, Switch
  <2>7. /\ rows' \in [Client -> FreeRow \cup {NoRow}]
        /\ \A d \in Client : Used(rows'[d]) <= Used(rows[d])
    <3>1. CASE rows[c] # NoRow
      BY <1>1, <2>3, <3>1 DEF TypeOK
    <3>2. CASE rows[c] = NoRow
      <4> DEFINE n == NewRow(c, r.on)
      <4>1. rows' = [rows EXCEPT ![c] = n]
        BY <2>3, <3>2
      <4>2. n \in FreeRow /\ Used(n) = 0 /\ Used(rows[c]) = 0
        BY <2>2, <3>2, FreshRow DEF Used
      <4>3. rows' = [d \in Client |-> IF d = c THEN n ELSE rows[d]]
        <5> HIDE DEF n
        <5> QED
          BY <4>1 DEF TypeOK
      <4> HIDE DEF n
      <4> QED
        BY <1>1, <4>2, <4>3
    <3> QED
      BY <3>1, <3>2
  <2>8. /\ hd' \in [Handler -> Request]
        /\ ctr' = ctr /\ job' = job /\ carried' = carried
    BY <1>2, <1>6 DEF AddInboundClient, Finish
  <2>9. NoOvercount' /\ rows' \in [Client -> Row \cup {NoRow}]
    BY <2>7, <2>8, NothingCharged
  <2>10. TypeOK'
    BY <1>6, <2>4, <2>5, <2>6, <2>8, <2>9 DEF AddInboundClient, Finish, TypeOK
  <2> QED
    BY <2>9, <2>10
<1>7. CASE DelStat(h)
  <2> DEFINE r == hd[h]
             c == r.c
  <2>1. r \in DelRequest /\ r.op = "del"
    BY <1>7, RequestOf DEF DelStat
  <2>2. c \in Client
    BY <2>1 DEF DelRequest
  <2>3. CASE rows[c] = NoRow
    <3>1. Finish(h) /\ UNCHANGED <<rows, core, need, settings, inbOn>>
      BY <1>7, <2>3 DEF DelStat
    <3>2. TypeOK'
      BY <1>2, <3>1 DEF Finish, TypeOK
    <3>3. NoOvercount'
      BY <3>1 DEF Finish, NoOvercount
    <3> QED
      BY <3>2, <3>3
  <2>4. CASE rows[c] # NoRow
    <3>1. PICK F :
            LET gone == IF r.sett[c] = "on" /\ rows[c].on THEN {c} ELSE {}
                api  == Api(core, gone, {}, F)
            IN  /\ rows' = [rows EXCEPT ![c] = NoRow]
                /\ core' = api.core
                /\ need' = (need \/ api.fail)
                /\ hd' = [hd EXCEPT ![h].op = "save"]
                /\ UNCHANGED <<conf, ctr, seen, now, job, rs, carried,
                               crashes, lost>>
      BY <1>7, <2>4 DEF DelStat
    <3>2. core' \in Core
      <4> DEFINE R == IF r.sett[c] = "on" /\ rows[c].on THEN {c} ELSE {}
      <4>1. R \in SUBSET Client
        BY <2>2
      <4>2. core' = Api(core, R, {}, F).core
        BY <3>1
      <4> HIDE DEF R
      <4> QED
        BY <1>3, <4>1, <4>2, ApiCore
    <3>3. need' \in BOOLEAN
      BY <3>1
    <3>4. hd' \in [Handler -> Request]
      <4> DEFINE s == [r EXCEPT !.op = "save"]
      <4>1. s \in DelRequest
        BY <2>1 DEF DelRequest
      <4>2. hd' = [hd EXCEPT ![h] = s]
        BY <3>1
      <4> HIDE DEF s
      <4> QED
        BY <1>2, <4>1, <4>2 DEF Request
    <3>5. /\ rows' \in [Client -> FreeRow \cup {NoRow}]
          /\ \A d \in Client : Used(rows'[d]) <= Used(rows[d])
      <4>1. rows' = [d \in Client |-> IF d = c THEN NoRow ELSE rows[d]]
        BY <2>2, <3>1 DEF TypeOK
      <4> QED
        BY <1>1, <4>1 DEF Used
    <3>6. NoOvercount' /\ rows' \in [Client -> Row \cup {NoRow}]
      BY <3>1, <3>5, NothingCharged
    <3>7. TypeOK'
      BY <1>7, <3>1, <3>2, <3>3, <3>4, <3>6 DEF DelStat, TypeOK
    <3> QED
      BY <3>6, <3>7
  <2> QED
    BY <2>3, <2>4
<1>8. CASE DelSave(h)
  <2>1. hd[h] \in DelRequest
    BY <1>8, RequestOf DEF DelSave
  <2>2. settings' \in Settings /\ inbOn' \in BOOLEAN
    BY <1>8, <2>1 DEF DelSave, SaveInbound, DelRequest, Settings, Switch
  <2>3. hd' \in [Handler -> Request]
    BY <1>2, <1>8 DEF DelSave, Finish
  <2>4. TypeOK'
    BY <1>8, <2>2, <2>3 DEF DelSave, Finish, TypeOK
  <2>5. NoOvercount'
    BY <1>8 DEF DelSave, Finish, NoOvercount
  <2> QED
    BY <2>4, <2>5
<1>9. CASE ResetClientTraffic(h)
  <2> DEFINE r == hd[h]
             c == r.c
             n == [r.row EXCEPT !.on = TRUE, !.used = 0]
  <2>1. c \in Client /\ r.row \in Row /\ r.fail \in BOOLEAN
    BY <1>9, RequestOf DEF ResetClientTraffic, ResetRequest
  <2>2. n \in FreeRow /\ n.used = 0
    BY <2>1 DEF Row, FreeRow
  <2>3. Used(n) = 0
    BY <2>2 DEF Used
  <2>4. rows' = [d \in Client |-> IF d = c THEN n ELSE rows[d]]
    <3>1. rows' = [rows EXCEPT ![c] = n]
      BY <1>9 DEF ResetClientTraffic
    <3> HIDE DEF n
    <3> QED
      BY <2>1, <3>1 DEF TypeOK
  <2>5. /\ rows' \in [Client -> FreeRow \cup {NoRow}]
        /\ \A d \in Client : Used(rows'[d]) <= Used(rows[d])
    <3> HIDE DEF n
    <3> QED
      BY <1>1, <2>2, <2>3, <2>4
  <2>6. need' \in BOOLEAN
    BY <1>9 DEF ResetClientTraffic
  <2>7. /\ hd' \in [Handler -> Request]
        /\ ctr' = ctr /\ job' = job /\ carried' = carried
    BY <1>2, <1>9 DEF ResetClientTraffic, Finish
  <2>8. NoOvercount' /\ rows' \in [Client -> Row \cup {NoRow}]
    BY <2>5, <2>7, NothingCharged
  <2>9. TypeOK'
    BY <1>9, <2>6, <2>7, <2>8 DEF ResetClientTraffic, Finish, TypeOK
  <2> QED
    BY <2>8, <2>9
<1>10. CASE UpdateInbound(h)
  <2> DEFINE s == hd[h].sett
             i == hd[h].inb
             n(c) == IF c \in Present(settings) \ Present(s) THEN NoRow
                     ELSE IF c \in Present(s) \ Present(settings)
                     THEN NewRow(c, s[c] = "on") ELSE rows[c]
  <2>0. CASE Rejected(s)
    <3>1. UNCHANGED <<dbVars, core, need>> /\ Finish(h)
      BY <1>10, <2>0 DEF UpdateInbound
    <3>2. TypeOK'
      BY <1>2, <3>1 DEF Finish, TypeOK
    <3>3. NoOvercount'
      BY <3>1 DEF Finish, NoOvercount
    <3> QED
      BY <3>2, <3>3
  <2> SUFFICES ASSUME ~Rejected(s) PROVE TrafficInv'
    BY <2>0
  <2>1. s \in Settings /\ i \in BOOLEAN
    BY <1>10, RequestOf DEF UpdateInbound, InboundRequest
  <2>2. PICK fails :
          LET added == i /\ core.up /\ ~fails
          IN  /\ rows' = [c \in Client |-> n(c)]
              /\ core' = [core EXCEPT !.inb = added,
                             !.users = IF added THEN Present(s) ELSE {}]
              /\ need' = (need \/ (i /\ ~added))
              /\ SaveInbound(s, i)
    BY <1>10 DEF UpdateInbound
  <2>3. core' \in Core
    <3> DEFINE added == i /\ core.up /\ ~fails
               users == IF added THEN Present(s) ELSE {}
    <3>1. added \in BOOLEAN
      BY Zenon
    <3>2. users \in SUBSET Client
      BY DEF Present
    <3>3. core' = [core EXCEPT !.inb = added, !.users = users]
      BY <2>2
    <3> HIDE DEF added, users
    <3> QED
      BY <1>3, <3>1, <3>2, <3>3 DEF Core
  <2>4. need' \in BOOLEAN
    BY <2>2
  <2>5. ASSUME NEW c \in Client
        PROVE  n(c) \in FreeRow \cup {NoRow} /\ Used(n(c)) <= Used(rows[c])
    <3>1. CASE c \in Present(settings) \ Present(s)
      BY <1>1, <3>1 DEF Used
    <3>2. CASE c \in Present(s) \ Present(settings)
      <4>1. (s[c] = "on") \in BOOLEAN
        BY Zenon
      <4>2. n(c) = NewRow(c, s[c] = "on")
        BY <3>2, Zenon
      <4>3. n(c) \in FreeRow /\ n(c).used = 0
        BY <4>1, <4>2, FreshRow, Zenon
      <4> HIDE DEF n
      <4> QED
        BY <1>1, <4>3 DEF Used
    <3>3. CASE ~(c \in Present(settings) \ Present(s))
               /\ ~(c \in Present(s) \ Present(settings))
      <4>1. n(c) = rows[c]
        BY <3>3, Zenon
      <4> HIDE DEF n
      <4> QED
        BY <1>1, <4>1
    <3> QED
      BY <3>1, <3>2, <3>3
  <2>6. /\ rows' \in [Client -> FreeRow \cup {NoRow}]
        /\ \A d \in Client : Used(rows'[d]) <= Used(rows[d])
    <3>1. rows' = [c \in Client |-> n(c)]
      BY <2>2
    <3> HIDE DEF n
    <3> QED
      BY <2>5, <3>1
  <2>7. /\ hd' \in [Handler -> Request]
        /\ ctr' = ctr /\ job' = job /\ carried' = carried
    BY <1>2, <1>10 DEF UpdateInbound, Finish
  <2>8. NoOvercount' /\ rows' \in [Client -> Row \cup {NoRow}]
    BY <2>6, <2>7, NothingCharged
  <2>9. settings' \in Settings /\ inbOn' \in BOOLEAN
    BY <2>1, <2>2 DEF SaveInbound
  <2>10. TypeOK'
    BY <1>10, <2>3, <2>4, <2>7, <2>8, <2>9 DEF UpdateInbound, Finish, TypeOK
  <2> QED
    BY <2>8, <2>10
<1>11. CASE DelDepletedClients(h)
  <2> DEFINE r      == hd[h]
             late   == {c \in Rowed(rows) :
                          Period[c] = 0 /\ DepletedAt(c, rows[c], r.at)}
             remain == [c \in Client |->
                          IF c \in r.gone THEN "absent" ELSE r.sett[c]]
             last   == r.gone # {} /\ Present(remain) = {}
  <2>1. /\ rows' = [c \in Client |-> IF last \/ c \in late THEN NoRow ELSE rows[c]]
        /\ IF r.gone = {} THEN UNCHANGED <<settings, inbOn>>
           ELSE SaveInbound(remain, r.inb /\ ~last)
        /\ core' = IF last /\ inbOn
                   THEN [core EXCEPT !.inb = FALSE, !.users = {}] ELSE core
        /\ UNCHANGED need /\ Finish(h)
    BY <1>11 DEF DelDepletedClients
  <2>2. r.sett \in Settings /\ r.inb \in BOOLEAN
    BY <1>11, RequestOf DEF DelDepletedClients, DepletedRequest
  <2>3. remain \in Settings /\ (r.inb /\ ~last) \in BOOLEAN
    BY <2>2 DEF Settings, Switch
  <2> HIDE DEF late, remain, last
  <2>4. settings' \in Settings /\ inbOn' \in BOOLEAN
    BY <2>1, <2>3 DEF SaveInbound, TypeOK
  <2>5. core' \in Core
    BY <1>3, <2>1 DEF Core
  <2>6. /\ rows' \in [Client -> FreeRow \cup {NoRow}]
        /\ \A d \in Client : Used(rows'[d]) <= Used(rows[d])
    BY <1>1, <2>1 DEF Used
  <2>7. /\ hd' \in [Handler -> Request]
        /\ ctr' = ctr /\ job' = job /\ carried' = carried
    BY <1>2, <2>1 DEF Finish
  <2>8. NoOvercount' /\ rows' \in [Client -> Row \cup {NoRow}]
    BY <2>6, <2>7, NothingCharged
  <2>9. TypeOK'
    BY <2>1, <2>4, <2>5, <2>7, <2>8 DEF Finish, TypeOK
  <2> QED
    BY <2>8, <2>9
<1> QED
  BY <1>4, <1>5, <1>6, <1>7, <1>8, <1>9, <1>10, <1>11 DEF HandlerWrites

\* The handler and the job that change every row at once.
LEMMA TrafficResets ==
    ASSUME TrafficInv, NEW h \in Handler,
           ResetAllClientTraffics(h)
    PROVE  TrafficInv'
<1> USE DEF TrafficInv, dbVars, coreVars
<1>1. ASSUME NEW c \in Client
      PROVE  /\ rows[c] \in FreeRow \cup {NoRow}
             /\ Used(rows[c]) \in Nat
  BY RowIsFree, Numbers
<1>2. CASE ResetAllClientTraffics(h)
  <2> DEFINE n(c) == IF rows[c] = NoRow THEN NoRow
                     ELSE [rows[c] EXCEPT !.on = TRUE, !.used = 0]
  <2>1. rows' = [c \in Client |-> n(c)]
    BY <1>2 DEF ResetAllClientTraffics
  <2>2. ASSUME NEW c \in Client
        PROVE  n(c) \in FreeRow \cup {NoRow} /\ Used(n(c)) <= Used(rows[c])
    <3>1. CASE rows[c] = NoRow
      BY <3>1 DEF Used
    <3>2. CASE rows[c] # NoRow
      <4>1. n(c) \in FreeRow /\ n(c).used = 0
        BY <1>1, <3>2 DEF FreeRow
      <4> HIDE DEF n
      <4> QED
        BY <1>1, <4>1 DEF Used
    <3> QED
      BY <3>1, <3>2
  <2>3. /\ rows' \in [Client -> FreeRow \cup {NoRow}]
        /\ \A d \in Client : Used(rows'[d]) <= Used(rows[d])
    <3> HIDE DEF n
    <3> QED
      BY <2>1, <2>2
  <2>4. NoOvercount' /\ rows' \in [Client -> Row \cup {NoRow}]
    BY <1>2, <2>3, NothingCharged DEF ResetAllClientTraffics
  <2>5. need' \in BOOLEAN
    BY <1>2 DEF ResetAllClientTraffics, TypeOK
  <2>6. TypeOK'
    BY <1>2, <2>4, <2>5 DEF ResetAllClientTraffics, TypeOK
  <2> QED
    BY <2>4, <2>6
<1> QED
  BY <1>2

LEMMA TrafficWorld ==
    ASSUME TrafficInv, (\E c \in Client : Carry(c)) \/ Tick \/ Crash
    PROVE  TrafficInv'
<1> USE DEF TrafficInv, dbVars, coreVars
<1>1. ASSUME NEW c \in Client, Carry(c) PROVE TrafficInv'
  <2>1. ctr[c] < MaxTraffic
    BY <1>1, Balance, Numbers DEF Carry
  <2>2. ctr' \in Counters /\ carried' \in Counters
    BY <1>1, <2>1, Numbers DEF Carry, TypeOK, Counters
  <2>3. TypeOK'
    BY <1>1, <2>2 DEF Carry, TypeOK
  <2>4. ASSUME NEW d \in Client
        PROVE  ctr'[d] + Pending(job', d) + Used(rows'[d]) <= carried'[d]
    <3>1. /\ ctr'[d] = IF d = c THEN ctr[d] + 1 ELSE ctr[d]
          /\ carried'[d] = IF d = c THEN carried[d] + 1 ELSE carried[d]
      BY <1>1 DEF Carry, TypeOK, Counters
    <3> QED
      BY <1>1, <3>1, Balance, Numbers DEF Carry
  <2> QED
    BY <2>3, <2>4, BalanceNext
<1>2. CASE Tick
  <2>1. now' \in 1..MaxNow
    BY <1>2, ClientTrafficAssumption DEF Tick, TypeOK, ClientTrafficAssumption
  <2>2. TypeOK'
    BY <1>2, <2>1 DEF Tick, TypeOK
  <2>3. NoOvercount'
    BY <1>2 DEF Tick, NoOvercount
  <2> QED
    BY <2>2, <2>3
<1>3. CASE Crash
  <2>1. crashes' \in 0..MaxCrash /\ ctr' \in Counters
    BY <1>3, ClientTrafficAssumption
    DEF Crash, TypeOK, Zero, Counters, ClientTrafficAssumption
  <2>2. core' \in Core
    BY <1>3 DEF Crash, Core
  <2>3. TypeOK'
    BY <1>3, <2>1, <2>2 DEF Crash, TypeOK
  <2>4. ASSUME NEW c \in Client
        PROVE  ctr'[c] + Pending(job', c) + Used(rows'[c]) <= carried'[c]
    <3>1. ctr'[c] = 0
      BY <1>3 DEF Crash, Zero
    <3> QED
      BY <1>3, <3>1, Balance, Numbers DEF Crash
  <2> QED
    BY <2>3, <2>4, BalanceNext
<1> QED
  BY <1>1, <1>2, <1>3

LEMMA TrafficStep == TrafficInv /\ [Next]_vars => TrafficInv'
<1> SUFFICES ASSUME TrafficInv, [Next]_vars PROVE TrafficInv'
  OBVIOUS
<1>1. CASE UNCHANGED vars
  BY <1>1 DEF vars, dbVars, coreVars, TrafficInv, TypeOK, NoOvercount
<1>2. CASE Next
  BY <1>2, TrafficJob, TrafficRestart, TrafficReads, TrafficWrites,
     TrafficResets, TrafficWorld
  DEF Next
<1> QED
  BY <1>1, <1>2

-----------------------------------------------------------------------------
(* The theorems.                                                           *)

\* Every variable stays in its range; the traffic of a row stays within what
\* was carried because nothing is charged twice.
THEOREM TrafficTypeCorrect == Spec => []TypeOK
<1>1. TrafficInv => TypeOK
  BY DEF TrafficInv
<1> QED
  BY TrafficInit, TrafficStep, <1>1, PTL DEF Spec

\* No traffic is charged twice, whichever jobs, restarts and handlers overlap.
THEOREM NothingOvercounted == Spec => []NoOvercount
<1>1. TrafficInv => NoOvercount
  BY DEF TrafficInv
<1> QED
  BY TrafficInit, TrafficStep, <1>1, PTL DEF Spec

\* A committed transaction of the traffic job leaves no enabled row that is
\* exhausted or expired.
THEOREM TickEnforces == Spec => EnforcedByTick
<1>1. TrafficInv /\ [Next]_vars =>
        [job # Idle /\ job' = Idle /\ lost' = lost =>
           \A c \in Client : (rows'[c] # NoRow /\ rows'[c].on)
                                => ~Depleted(c, rows'[c])]_vars
  <2> SUFFICES ASSUME TrafficInv, Next, job # Idle, job' = Idle, lost' = lost,
                      NEW c \in Client, rows'[c] # NoRow, rows'[c].on
               PROVE  ~Depleted(c, rows'[c])
    OBVIOUS
  <2>1. CASE JobCommit
    <3>1. PICK F : rows' = AddTraffic(job.batch, job.online, F).rows
      BY <2>1 DEF JobCommit
    <3>2. job.batch \in [Client -> Nat]
      BY BatchIsFree DEF TrafficInv
    <3> QED
      BY <3>1, <3>2, AddTrafficRows DEF TrafficInv
  <2>2. CASE JobCollect
    BY <2>2 DEF JobCollect
  <2>3. CASE JobTxFails
    BY <2>3 DEF JobTxFails, TrafficInv, TypeOK
  <2>4. CASE RestartNeeded \/ RestartCrashed \/ RestartForced \/ RestartXray
    BY <2>4 DEF RestartNeeded, RestartCrashed, RestartForced, RestartXray,
                GetXrayConfig
  <2>5. CASE (\E d \in Client : Carry(d)) \/ Tick \/ Crash
    BY <2>5 DEF Carry, Tick, Crash
  <2>6. ASSUME NEW h \in Handler,
               \/ UpdateRead(h) \/ AddRead(h) \/ DelRead(h) \/ ResetRead(h)
               \/ InboundRead(h) \/ DepletedRead(h) \/ HandlerWrites(h)
               \/ ResetAllClientTraffics(h)
        PROVE  job' = job
    <3>1. \/ UpdateRead(h) \/ AddRead(h) \/ DelRead(h)
          \/ InboundRead(h) \/ DepletedRead(h)
          => job' = job
      BY DEF UpdateRead, AddRead, DelRead, InboundRead, DepletedRead, Begin
    <3>2. ResetRead(h) \/ ResetAllClientTraffics(h) => job' = job
      BY DEF ResetRead, ResetAllClientTraffics
    <3>3. HandlerWrites(h) => job' = job
      BY DEF HandlerWrites, UpdateInboundClient, AddInboundClient, DelStat,
             DelSave, ResetClientTraffic, UpdateInbound, DelDepletedClients,
             Finish
    <3> QED
      BY <2>6, <3>1, <3>2, <3>3
  <2> QED
    BY <2>1, <2>2, <2>3, <2>4, <2>5, <2>6 DEF Next
<1> QED
  BY TrafficInit, TrafficStep, <1>1, PTL DEF Spec, EnforcedByTick
==============================================================================
