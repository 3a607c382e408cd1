-------------------------- MODULE TrafficSyncProofs --------------------------
(***************************************************************************)
(* Proofs for ClientTraffic: that settings, rows and the users of the core *)
(* agree, for any clients, quotas, periods and lifetimes, when jobs,       *)
(* restarts and handlers follow one another.  Settings and rows agree      *)
(* whichever handlers are in use; the core agrees with them when the       *)
(* handlers are those of single clients and the API answers.               *)
(***************************************************************************)
EXTENDS ClientTrafficProofs

\* What the core needs, too: the other handlers leave it behind.  A renewal
\* revives a client that was switched off, so that only clients without one are
\* switched.
SingleEdits ==
    /\ Flaky = FALSE
    /\ Op \subseteq {"update", "add", "del", "reset"}
    /\ \A c \in Toggled : Period[c] = 0

-----------------------------------------------------------------------------
(* The invariant.  Between its two steps a handler is ahead of what it has *)
(* stored: the core agrees with what it is going to write.                 *)

Matches(k, s, r, i) == k.up => k.inb = i /\ k.users = Entitled(s, r, i)

AheadSettings(q, s) == IF q.op = "save" THEN [s EXCEPT ![q.c] = "absent"] ELSE s
AheadRows(q, r) ==
    IF q.op = "reset" THEN [r EXCEPT ![q.c] = [q.row EXCEPT !.on = TRUE, !.used = 0]] ELSE r

\* The rows that DelDepletedClients removes at time t.
Spent(r, t) == {c \in Rowed(r) : Period[c] = 0 /\ DepletedAt(c, r[c], t)}

Agree(q, k, s, r, i) ==
    /\ q.op = "depleted" => q.gone = Spent(r, q.at)
    /\ SingleEdits => Matches(k, AheadSettings(q, s), AheadRows(q, r), i)
    /\ Present(AheadSettings(q, s)) = Rowed(AheadRows(q, r))

\* What a handler has read is still so.
Reads(q, s, i) ==
    /\ q.op \in {"update", "add", "del", "save", "reset", "inbound", "depleted"}
    /\ q.op \in {"inbound", "depleted"} => q.op \in Op
    /\ q.op # "reset" => q.sett = s /\ q.inb = i
    /\ q.op \in {"update", "del"} => q.c \in Present(s)
    /\ q.op = "add" => q.c \notin Present(s)
    /\ q.op \in {"update", "add"} => q.c \in Toggled \/ q.on

HandlersIdle == \A h \in Handler : hd[h] = Idle

OneAtATime ==
    /\ job # Idle => rs = Idle /\ HandlersIdle
    /\ rs # Idle => job = Idle /\ HandlersIdle
    /\ \A h \in Handler : hd[h] # Idle =>
         job = Idle /\ rs = Idle /\ \A g \in Handler \ {h} : hd[g] = Idle

StaysOn(s) == \A c \in Client \ Toggled : s[c] # "off"

SeqInv ==
    /\ OneAtATime
    /\ StaysOn(settings)
    /\ \A h \in Handler : hd[h] # Idle =>
         Reads(hd[h], settings, inbOn) /\ Agree(hd[h], core, settings, rows, inbOn)
    /\ HandlersIdle => Agree(Idle, core, settings, rows, inbOn)
    /\ rs # Idle => rs.cfg = GenConfig(settings, rows, inbOn)

-----------------------------------------------------------------------------
(* What each part of AddTraffic does to the switch of a row, and the API   *)
(* to the users.                                                           *)

LEMMA RowIsThere == \A r \in FreeRow : r # NoRow
BY NoRowAssumption DEF FreeRow

LEMMA IdleAgrees ==
    ASSUME NEW k, NEW s, NEW r, NEW i
    PROVE  Agree(Idle, k, s, r, i) <=>
             (SingleEdits => Matches(k, s, r, i)) /\ Present(s) = Rowed(r)
BY DEF Agree, AheadSettings, AheadRows, Idle

LEMMA ApiUsers ==
    ASSUME NEW k \in Core, NEW R \in SUBSET Client, NEW A \in SUBSET Client
    PROVE  LET a == Api(k, R, A, AllAnswer).core
           IN  /\ a \in Core /\ a.up = k.up /\ a.inb = k.inb
               /\ a.users = IF k.up /\ k.inb THEN (k.users \ R) \cup A ELSE k.users
<1> DEFINE answers == k.up /\ k.inb
           kept  == IF answers THEN k.users \ (R \ {}) ELSE k.users
           added == IF answers THEN A \ ({} \cup kept) ELSE {}
<1>1. Api(k, R, A, AllAnswer).core = [k EXCEPT !.users = kept \cup added]
  BY DEF Api, AllAnswer
<1>2. kept \cup added = IF answers THEN (k.users \ R) \cup A ELSE k.users
  OBVIOUS
<1> QED  BY <1>1, <1>2, ApiCore DEF Core

LEMMA CountedOn ==
    ASSUME TypeOK, NEW c \in Client, NEW batch \in [Client -> Nat], NEW online
    PROVE  /\ Counted(c, batch, online) = NoRow <=> rows[c] = NoRow
           /\ rows[c] # NoRow => Counted(c, batch, online).on = rows[c].on
<1>1. CASE rows[c] = NoRow \/ c \notin online
  BY <1>1 DEF Counted
<1>2. CASE rows[c] # NoRow /\ c \in online
  <2> DEFINE e == IF rows[c].exp < 0 /\ settings[c] # "absent" THEN now - rows[c].exp
                  ELSE rows[c].exp
  <2>1. rows[c] \in FreeRow
    BY <1>2, RowIsFree
  <2>2. Counted(c, batch, online) =
          [rows[c] EXCEPT !.used = rows[c].used + batch[c], !.exp = e]
    BY <1>2 DEF Counted
  <2>3. rows[c].used + batch[c] \in Nat /\ e \in Int
    BY <2>1, ClientTrafficAssumption DEF FreeRow, TypeOK, ClientTrafficAssumption
  <2> HIDE DEF e
  <2>4. Counted(c, batch, online) \in FreeRow /\ Counted(c, batch, online).on = rows[c].on
    BY <2>1, <2>2, <2>3 DEF FreeRow
  <2> QED  BY <1>2, <2>4, RowIsThere
<1> QED  BY <1>1, <1>2

LEMMA RenewedOn ==
    ASSUME TypeOK, NEW c \in Client, NEW r \in FreeRow \cup {NoRow}
    PROVE  /\ Renewed(c, r) = NoRow <=> r = NoRow
           /\ Due(c, r) => r # NoRow /\ Renewed(c, r).on
           /\ ~Due(c, r) => Renewed(c, r) = r
<1>1. CASE ~Due(c, r)
  BY <1>1 DEF Renewed
<1>2. CASE Due(c, r)
  <2> DEFINE e == NextExpiry(r.exp, Period[c])
  <2>1. Renewed(c, r) = [on |-> TRUE, used |-> 0, exp |-> e] /\ r # NoRow
    BY <1>2 DEF Renewed, Due
  <2>2. Renewed(c, r).used = 0 /\ Renewed(c, r).on
    BY <2>1
  <2>3. Renewed(c, r) # NoRow
    <3>1. r \in FreeRow /\ Period[c] \in Nat /\ Period[c] > 0 /\ now \in Int
      BY <1>2, ClientTrafficAssumption DEF Due, TypeOK, ClientTrafficAssumption
    <3>2. e \in Int
      <4> DEFINE d == Period[c]
                 k == (now - r.exp + d - 1) \div d
      <4>1. r.exp \in Int /\ d \in Nat /\ d > 0
        BY <3>1 DEF FreeRow
      <4>2. k \in Int
        BY <3>1, <4>1
      <4>3. r.exp + d * k \in Int
        <5> HIDE DEF d, k
        <5> QED  BY <4>1, <4>2
      <4> QED  BY <4>3 DEF NextExpiry
    <3> HIDE DEF e
    <3>3. Renewed(c, r) \in FreeRow
      BY <2>1, <3>2 DEF FreeRow
    <3> QED  BY <3>3, RowIsThere
  <2> QED  BY <1>2, <2>1, <2>2, <2>3
<1> QED  BY <1>1, <1>2

LEMMA DisabledOn ==
    ASSUME NEW c \in Client, NEW r \in FreeRow \cup {NoRow}
    PROVE  /\ Disabled(c, r) = NoRow <=> r = NoRow
           /\ Invalid(c, r) => r # NoRow /\ r.on /\ ~Disabled(c, r).on
           /\ ~Invalid(c, r) => Disabled(c, r) = r
<1>1. CASE ~Invalid(c, r)
  BY <1>1 DEF Disabled
<1>2. CASE Invalid(c, r)
  <2>1. r \in FreeRow /\ r # NoRow /\ r.on
    BY <1>2 DEF Invalid
  <2>2. Disabled(c, r) = [r EXCEPT !.on = FALSE]
    BY <1>2 DEF Disabled
  <2>3. Disabled(c, r) \in FreeRow /\ ~Disabled(c, r).on
    BY <2>1, <2>2 DEF FreeRow
  <2> QED  BY <1>2, <2>1, <2>3, RowIsThere
<1> QED  BY <1>1, <1>2

\* The transaction of the traffic job: rows stay rows, and where every call is
\* answered the core follows them.
LEMMA AddTrafficMatches ==
    ASSUME TypeOK, NEW batch \in [Client -> Nat], NEW online
    PROVE  LET t == AddTraffic(batch, online, AllAnswer)
           IN  /\ Rowed(t.rows) = Rowed(rows)
               /\ /\ Matches(core, settings, rows, inbOn)
                  /\ \A c \in Client : Period[c] > 0 => settings[c] # "off"
                  => Matches(t.core, settings, t.rows, t.inbOn)
<1> DEFINE counted == [c \in Client |-> Counted(c, batch, online)]
           renewed == [c \in Client |-> Renewed(c, counted[c])]
           after   == [c \in Client |-> Disabled(c, renewed[c])]
           revive  == {c \in Client : Due(c, counted[c]) /\ ~counted[c].on}
           cut     == {c \in Client : Invalid(c, renewed[c])}
           back    == Api(core, {}, revive, AllAnswer)
           left    == Api(back.core, cut, {}, AllAnswer)
           closing == inbOn /\ InboundExpiry \in 1..now
           deleted == closing /\ core.up /\ core.inb
           last    == IF deleted
                      THEN [left.core EXCEPT !.inb = FALSE, !.users = {}]
                      ELSE left.core
           t == AddTraffic(batch, online, AllAnswer)
<1>1. t.rows = after /\ t.inbOn = (inbOn /\ ~closing) /\ t.core = last
  BY DEF AddTraffic
<1>3. core \in Core /\ revive \in SUBSET Client /\ cut \in SUBSET Client /\ inbOn \in BOOLEAN
  BY DEF TypeOK
<1>4. /\ back.core \in Core /\ back.core.up = core.up /\ back.core.inb = core.inb
      /\ back.core.users = IF core.up /\ core.inb THEN core.users \cup revive ELSE core.users
  <2> HIDE DEF revive
  <2>0. {} \in SUBSET Client
    OBVIOUS
  <2>1. LET a == Api(core, {}, revive, AllAnswer).core
        IN  /\ a \in Core /\ a.up = core.up /\ a.inb = core.inb
            /\ a.users = IF core.up /\ core.inb THEN (core.users \ {}) \cup revive
                         ELSE core.users
    BY <1>3, <2>0, ApiUsers
  <2>2. core.users \ {} = core.users
    BY <1>3 DEF Core
  <2> QED  BY <2>1, <2>2
<1>5. /\ left.core \in Core /\ left.core.up = core.up /\ left.core.inb = core.inb
      /\ left.core.users = IF core.up /\ core.inb THEN (core.users \cup revive) \ cut
                           ELSE core.users
  <2> HIDE DEF back, cut, revive
  <2>0. {} \in SUBSET Client /\ back.core \in Core
    BY <1>4
  <2>1. LET a == Api(back.core, cut, {}, AllAnswer).core
        IN  /\ a \in Core /\ a.up = back.core.up /\ a.inb = back.core.inb
            /\ a.users = IF back.core.up /\ back.core.inb
                         THEN (back.core.users \ cut) \cup {} ELSE back.core.users
    BY <1>3, <2>0, ApiUsers
  <2>2. /\ left.core \in Core /\ left.core.up = core.up /\ left.core.inb = core.inb
        /\ left.core.users = IF core.up /\ core.inb
                             THEN (back.core.users \ cut) \cup {} ELSE back.core.users
    BY <1>4, <2>1
  <2> HIDE DEF left
  <2> QED  BY <1>4, <2>2
<1>6. ASSUME NEW c \in Client
      PROVE  /\ after[c] = NoRow <=> rows[c] = NoRow
             /\ settings[c] = "on" =>
                  ((after[c] # NoRow => after[c].on) <=>
                     ((rows[c] # NoRow => rows[c].on) \/ c \in revive) /\ c \notin cut)
             /\ c \in revive /\ (Period[c] > 0 => settings[c] # "off") => settings[c] = "on"
  <2>1. /\ counted[c] = Counted(c, batch, online) /\ counted[c] \in FreeRow \cup {NoRow}
        /\ counted[c] = NoRow <=> rows[c] = NoRow
        /\ rows[c] # NoRow => counted[c].on = rows[c].on
    BY CountedRow, CountedOn
  <2> HIDE DEF counted
  <2>2. /\ renewed[c] = Renewed(c, counted[c]) /\ renewed[c] \in FreeRow \cup {NoRow}
        /\ renewed[c] = NoRow <=> counted[c] = NoRow
        /\ Due(c, counted[c]) => counted[c] # NoRow /\ renewed[c].on
        /\ ~Due(c, counted[c]) => renewed[c] = counted[c]
    BY <2>1, RenewedRow, RenewedOn
  <2> HIDE DEF renewed
  <2>3. /\ after[c] = NoRow <=> renewed[c] = NoRow
        /\ Invalid(c, renewed[c]) => renewed[c] # NoRow /\ renewed[c].on /\ ~after[c].on
        /\ ~Invalid(c, renewed[c]) => after[c] = renewed[c]
    BY <2>2, DisabledOn
  <2> HIDE DEF after
  <2>4. /\ c \in revive <=> Due(c, counted[c]) /\ ~counted[c].on
        /\ c \in cut <=> Invalid(c, renewed[c])
    OBVIOUS
  <2> HIDE DEF revive, cut
  <2>5. Due(c, counted[c]) /\ (Period[c] > 0 => settings[c] # "off") => settings[c] = "on"
    BY DEF Due, TypeOK, Settings, Switch
  <2> QED  BY <2>1, <2>2, <2>3, <2>4, <2>5
<1>7. Rowed(after) = Rowed(rows)
  BY <1>6 DEF Rowed
<1>8. ASSUME Matches(core, settings, rows, inbOn),
             \A c \in Client : Period[c] > 0 => settings[c] # "off"
      PROVE  Matches(last, settings, after, inbOn /\ ~closing)
  <2> HIDE DEF after, revive, cut, closing, left
  <2>1. CASE ~core.up
    <3>1. last.up = core.up
      BY <2>1, <1>5
    <3> QED  BY <2>1, <3>1 DEF Matches
  <2>2. CASE core.up /\ closing
    <3>1. inbOn /\ core.inb
      BY <1>8, <2>2 DEF closing, Matches
    <3>2. last.inb = FALSE /\ last.users = {}
      BY <2>2, <3>1, <1>5 DEF Core
    <3> QED  BY <2>2, <3>2 DEF Matches, Entitled
  <2>3. CASE core.up /\ ~closing /\ ~inbOn
    <3>1. last.inb = FALSE /\ last.users = {}
      BY <1>8, <1>5, <2>3 DEF Matches, Entitled
    <3> QED  BY <2>3, <3>1 DEF Matches, Entitled
  <2>4. CASE core.up /\ ~closing /\ inbOn
    <3>1. last.inb = TRUE /\ last.users = (core.users \cup revive) \ cut
          /\ core.users = Entitled(settings, rows, TRUE)
      BY <1>8, <1>3, <1>5, <2>4 DEF Matches
    <3>2. revive \subseteq Client
      BY <1>3
    <3>3. (core.users \cup revive) \ cut = Entitled(settings, after, TRUE)
      BY <1>6, <1>8, <3>1, <3>2 DEF Entitled
    <3> QED  BY <2>4, <3>1, <3>3 DEF Matches
  <2> QED  BY <1>3, <2>1, <2>2, <2>3, <2>4
<1> HIDE DEF t, last, after, closing
<1> QED  BY <1>1, <1>7, <1>8 DEF t

\* Only clients without a renewal are ever switched off.
LEMMA NoneRevived ==
    ASSUME SingleEdits, StaysOn(settings)
    PROVE  \A c \in Client : Period[c] > 0 => settings[c] # "off"
BY DEF SingleEdits, StaysOn

LEMMA NoTimeouts == SingleEdits => Timeouts = {AllAnswer}
BY DEF SingleEdits, Timeouts

LEMMA AddTrafficAgrees ==
    ASSUME TypeOK, NEW batch \in [Client -> Nat], NEW online, NEW F \in Timeouts,
           Agree(Idle, core, settings, rows, inbOn), StaysOn(settings)
    PROVE  LET t == AddTraffic(batch, online, F)
           IN  Agree(Idle, t.core, settings, t.rows, t.inbOn)
<1> DEFINE t == AddTraffic(batch, online, F)
           t0 == AddTraffic(batch, online, AllAnswer)
<1>1. t.rows = t0.rows
  BY DEF AddTraffic
<1>2. SingleEdits => t = t0
  BY NoTimeouts
<1> HIDE DEF t
<1>3. Present(settings) = Rowed(t.rows)
  BY <1>1, IdleAgrees, AddTrafficMatches
<1>4. SingleEdits => Matches(t.core, settings, t.rows, t.inbOn)
  BY <1>2, IdleAgrees, NoneRevived, AddTrafficMatches
<1> QED  BY <1>3, <1>4, IdleAgrees DEF t

-----------------------------------------------------------------------------
(* Steps of the handlers.                                                  *)

\* Settings and rows change for one client, who is removed (R) and added (A)
\* over the API as the change demands.
OneChange(c, R, A, s, r, s2, r2) ==
    /\ R \in SUBSET {c} /\ A \in SUBSET {c}
    /\ \A d \in Client \ {c} : s2[d] = s[d] /\ r2[d] = r[d]
    /\ s2[c] # "absent" <=> r2[c] # NoRow
    /\ (c \in A \/ (s[c] = "on" /\ (r[c] # NoRow => r[c].on) /\ c \notin R))
         <=> (s2[c] = "on" /\ (r2[c] # NoRow => r2[c].on))

LEMMA OneRowed ==
    ASSUME NEW c \in Client, NEW R, NEW A, NEW s, NEW r, NEW s2, NEW r2,
           Present(s) = Rowed(r), OneChange(c, R, A, s, r, s2, r2)
    PROVE  Present(s2) = Rowed(r2)
BY DEF OneChange, Present, Rowed

LEMMA OneMatches ==
    ASSUME NEW c \in Client, NEW R, NEW A, NEW k \in Core,
           NEW s, NEW r, NEW s2, NEW r2, NEW i \in BOOLEAN,
           Matches(k, s, r, i), OneChange(c, R, A, s, r, s2, r2)
    PROVE  Matches(Api(k, R, A, AllAnswer).core, s2, r2, i)
<1> USE DEF OneChange
<1> DEFINE a == Api(k, R, A, AllAnswer).core
<1>1. /\ a \in Core /\ a.up = k.up /\ a.inb = k.inb
      /\ a.users = IF k.up /\ k.inb THEN (k.users \ R) \cup A ELSE k.users
  <2>1. R \in SUBSET Client /\ A \in SUBSET Client
    OBVIOUS
  <2> QED  BY <2>1, ApiUsers
<1> HIDE DEF a
<1>2. ASSUME k.up PROVE a.users = Entitled(s2, r2, i)
  <2>1. k.inb = i /\ k.users = Entitled(s, r, i)
    BY <1>2 DEF Matches
  <2>2. CASE i
    <3>1. a.users = (k.users \ R) \cup A
      BY <1>1, <1>2, <2>1, <2>2
    <3>2. \A d \in Client \ {c} : d \in a.users <=> d \in Entitled(s2, r2, i)
      BY <2>1, <3>1 DEF Entitled
    <3>3. c \in a.users <=> c \in Entitled(s2, r2, i)
      BY <2>1, <2>2, <3>1 DEF Entitled
    <3>4. a.users \subseteq Client /\ Entitled(s2, r2, i) \subseteq Client
      BY <1>1 DEF Core, Entitled
    <3> QED  BY <3>2, <3>3, <3>4
  <2>3. CASE ~i
    BY <1>1, <2>1, <2>3 DEF Entitled
  <2> QED  BY <2>2, <2>3
<1> QED  BY <1>1, <1>2 DEF Matches, a

LEMMA CallsAgree ==
    ASSUME NEW c \in Client, NEW R, NEW A, NEW k \in Core, NEW F \in Timeouts,
           NEW s, NEW r, NEW s2, NEW r2, NEW i \in BOOLEAN,
           Agree(Idle, k, s, r, i), OneChange(c, R, A, s, r, s2, r2)
    PROVE  Agree(Idle, Api(k, R, A, F).core, s2, r2, i)
<1>1. (SingleEdits => Matches(k, s, r, i)) /\ Present(s) = Rowed(r)
  BY IdleAgrees
<1>2. SingleEdits => F = AllAnswer
  BY NoTimeouts
<1>3. Present(s2) = Rowed(r2)
  BY <1>1, OneRowed
<1>4. ASSUME SingleEdits PROVE Matches(Api(k, R, A, F).core, s2, r2, i)
  BY <1>1, <1>2, <1>4, OneMatches
<1> QED  BY <1>3, <1>4, IdleAgrees

\* The only handler that runs takes its step.
LEMMA HandlerMoves ==
    ASSUME TypeOK, NEW h \in Handler, NEW q,
           job = Idle, rs = Idle, \A g \in Handler \ {h} : hd[g] = Idle,
           hd' = [hd EXCEPT ![h] = q], job' = job, rs' = rs,
           StaysOn(settings'),
           q # Idle => Reads(q, settings', inbOn'),
           Agree(q, core', settings', rows', inbOn')
    PROVE  SeqInv'
<1>1. \A g \in Handler : hd'[g] = IF g = h THEN q ELSE Idle
  BY DEF TypeOK
<1>2. OneAtATime'
  BY <1>1 DEF OneAtATime, HandlersIdle
<1>3. \A g \in Handler : hd'[g] # Idle =>
        Reads(hd'[g], settings', inbOn') /\ Agree(hd'[g], core', settings', rows', inbOn')
  BY <1>1
<1>4. HandlersIdle' => Agree(Idle, core', settings', rows', inbOn')
  BY <1>1 DEF HandlersIdle
<1> QED  BY <1>2, <1>3, <1>4 DEF SeqInv

\* What the invariant says of a handler that runs.
LEMMA Running ==
    ASSUME SeqInv, NEW h \in Handler, hd[h].op # "idle"
    PROVE  /\ job = Idle /\ rs = Idle /\ \A g \in Handler \ {h} : hd[g] = Idle
           /\ Reads(hd[h], settings, inbOn) /\ Agree(hd[h], core, settings, rows, inbOn)
           /\ StaysOn(settings)
BY DEF SeqInv, OneAtATime, Idle

LEMMA QuietAgrees ==
    ASSUME SeqInv, Overlap = FALSE, MayStart
    PROVE  /\ job = Idle /\ rs = Idle /\ HandlersIdle
           /\ Agree(Idle, core, settings, rows, inbOn)
           /\ StaysOn(settings)
BY DEF SeqInv, MayStart, Quiet, HandlersIdle

LEMMA BeginAgrees ==
    ASSUME TypeOK, SeqInv, Overlap = FALSE, NEW h \in Handler, NEW op, NEW q, Begin(h, op, q),
           q.op \in {"update", "add", "del", "inbound", "depleted"}, Reads(q, settings, inbOn),
           q.op = "depleted" => q.gone = Spent(rows, q.at)
    PROVE  SeqInv'
<1>1. /\ job = Idle /\ rs = Idle /\ HandlersIdle
      /\ Agree(Idle, core, settings, rows, inbOn)
      /\ StaysOn(settings)
  BY QuietAgrees DEF Begin
<1>2. /\ hd' = [hd EXCEPT ![h] = q] /\ job' = job /\ rs' = rs
      /\ settings' = settings /\ rows' = rows /\ inbOn' = inbOn /\ core' = core
  BY DEF Begin, dbVars, coreVars
<1>3. Agree(q, core, settings, rows, inbOn)
  BY <1>1, IdleAgrees DEF Agree, AheadSettings, AheadRows
<1> QED  BY <1>1, <1>2, <1>3, HandlerMoves DEF HandlersIdle

LEMMA SyncReads ==
    ASSUME TypeOK, SeqInv, Overlap = FALSE, NEW h \in Handler,
           \/ UpdateRead(h) \/ AddRead(h) \/ DelRead(h) \/ ResetRead(h)
           \/ InboundRead(h) \/ DepletedRead(h)
    PROVE  SeqInv'
<1>1. CASE UpdateRead(h)
  <2>0. PICK c \in Present(settings) : \E e \in Switches(c) :
          Begin(h, "update",
                [op |-> "update", c |-> c, on |-> e,
                 exp |-> IF rows[c] = NoRow THEN 0 ELSE rows[c].exp,
                 sett |-> settings, inb |-> inbOn])
    BY <1>1 DEF UpdateRead
  <2>1. PICK e \in Switches(c) :
          Begin(h, "update",
                [op |-> "update", c |-> c, on |-> e,
                 exp |-> IF rows[c] = NoRow THEN 0 ELSE rows[c].exp,
                 sett |-> settings, inb |-> inbOn])
    BY <2>0
  <2>2. c \in Toggled \/ e
    BY DEF Switches
  <2> QED  BY <2>1, <2>2, BeginAgrees DEF Reads
<1>2. CASE AddRead(h)
  <2>0. PICK c \in Client \ Present(settings) : \E e \in Switches(c) :
          Begin(h, "add", [op |-> "add", c |-> c, on |-> e, sett |-> settings, inb |-> inbOn])
    BY <1>2 DEF AddRead
  <2>1. PICK e \in Switches(c) :
          Begin(h, "add", [op |-> "add", c |-> c, on |-> e, sett |-> settings, inb |-> inbOn])
    BY <2>0
  <2>2. c \in Toggled \/ e
    BY DEF Switches
  <2> QED  BY <2>1, <2>2, BeginAgrees DEF Reads
<1>3. CASE DelRead(h)
  <2>1. PICK c \in Present(settings) :
          Begin(h, "del", [op |-> "del", c |-> c, sett |-> settings, inb |-> inbOn])
    BY <1>3 DEF DelRead
  <2> QED  BY <2>1, BeginAgrees DEF Reads
<1>4. CASE ResetRead(h)
  <2>0. /\ job = Idle /\ rs = Idle /\ HandlersIdle
        /\ Agree(Idle, core, settings, rows, inbOn)
        /\ StaysOn(settings)
    BY <1>4, QuietAgrees DEF ResetRead
  <2>1. PICK c \in Rowed(rows), F \in Timeouts :
          LET api == Api(core, {}, IF ~rows[c].on /\ settings[c] = "on" THEN {c} ELSE {}, F)
          IN  /\ core' = api.core
              /\ hd' = [hd EXCEPT ![h] = [op |-> "reset", c |-> c,
                                          row |-> rows[c], fail |-> api.fail]]
    BY <1>4 DEF ResetRead
  <2> DEFINE back == IF ~rows[c].on /\ settings[c] = "on" THEN {c} ELSE {}
             q == [op |-> "reset", c |-> c, row |-> rows[c],
                   fail |-> Api(core, {}, back, F).fail]
             renewed == [rows[c] EXCEPT !.on = TRUE, !.used = 0]
             R == [rows EXCEPT ![c] = renewed]
  <2>2. /\ job' = job /\ rs' = rs
        /\ settings' = settings /\ rows' = rows /\ inbOn' = inbOn
    BY <1>4 DEF ResetRead, dbVars
  <2>3. c \in Client /\ rows[c] # NoRow /\ settings[c] # "absent"
    BY <2>0, <2>1, IdleAgrees DEF Rowed, Present
  <2>4. renewed # NoRow /\ renewed.on
    <3>1. rows[c] \in FreeRow
      BY <2>3, RowIsFree
    <3>2. renewed \in FreeRow /\ renewed.on
      BY <3>1 DEF FreeRow
    <3> QED  BY <3>2, RowIsThere
  <2> HIDE DEF renewed
  <2>5. R[c] = renewed /\ \A d \in Client \ {c} : R[d] = rows[d]
    BY <2>3 DEF TypeOK
  <2> HIDE DEF R
  <2>6. core \in Core /\ inbOn \in BOOLEAN
    BY DEF TypeOK
  <2>7. {} \in SUBSET {c} /\ back \in SUBSET {c}
    OBVIOUS
  <2>8. OneChange(c, {}, back, settings, rows, settings, R)
    BY <2>3, <2>4, <2>5, <2>7 DEF OneChange
  <2>9. core' = Api(core, {}, back, F).core /\ hd' = [hd EXCEPT ![h] = q]
    BY <2>1
  <2> HIDE DEF back
  <2>10. Agree(Idle, core', settings, R, inbOn)
    BY <2>0, <2>3, <2>6, <2>8, <2>9, CallsAgree
  <2>11. q.op = "reset" /\ q.c = c /\ q.row = rows[c]
    OBVIOUS
  <2> HIDE DEF q
  <2>12. AheadSettings(q, settings) = settings /\ AheadRows(q, rows) = R
    BY <2>11 DEF AheadSettings, AheadRows, R, renewed
  <2>13. Agree(q, core', settings, rows, inbOn)
    BY <2>10, <2>11, <2>12, IdleAgrees DEF Agree
  <2>14. Reads(q, settings, inbOn)
    BY <2>11 DEF Reads
  <2> QED  BY <2>0, <2>2, <2>9, <2>13, <2>14, HandlerMoves DEF HandlersIdle
<1>5. CASE InboundRead(h)
  BY <1>5, BeginAgrees DEF InboundRead, Reads, Begin
<1>6. CASE DepletedRead(h)
  <2> DEFINE gone == {c \in Rowed(rows) : Period[c] = 0 /\ Depleted(c, rows[c])}
             q == [op |-> "depleted", gone |-> gone, at |-> now,
                   sett |-> settings, inb |-> inbOn]
  <2>1. Begin(h, "depleted", q) /\ "depleted" \in Op
    BY <1>6 DEF DepletedRead, Begin
  <2>2. gone = Spent(rows, now)
    BY DEF Spent, Depleted
  <2> HIDE DEF gone
  <2>3. q.op = "depleted" /\ q.gone = Spent(rows, q.at) /\ Reads(q, settings, inbOn)
    BY <2>1, <2>2 DEF Reads
  <2> HIDE DEF q
  <2> QED  BY <2>1, <2>3, BeginAgrees
<1> QED  BY <1>1, <1>2, <1>3, <1>4, <1>5, <1>6

LEMMA SyncUpdate ==
    ASSUME TypeOK, SeqInv, Overlap = FALSE, NEW h \in Handler, UpdateInboundClient(h)
    PROVE  SeqInv'
<1> DEFINE q == hd[h]
           c == q.c
           on == q.on
           R == IF settings[c] = "on" THEN {c} ELSE {}
           A == IF on THEN {c} ELSE {}
           S == [settings EXCEPT ![c] = IF on THEN "on" ELSE "off"]
           Rows == [rows EXCEPT ![c].on = on, ![c].exp = q.exp]
<1>1. q.op = "update" /\ q \in UpdateRequest
  BY RequestOf DEF UpdateInboundClient
<1>2. /\ job = Idle /\ rs = Idle /\ \A g \in Handler \ {h} : hd[g] = Idle
      /\ Reads(q, settings, inbOn) /\ Agree(q, core, settings, rows, inbOn) /\ StaysOn(settings)
  BY <1>1, Running
<1>3. /\ q.sett = settings /\ q.inb = inbOn /\ c \in Present(settings) /\ (c \in Toggled \/ on)
      /\ Agree(Idle, core, settings, rows, inbOn)
  BY <1>1, <1>2, IdleAgrees DEF Reads, Agree, AheadSettings, AheadRows
<1>4. c \in Client /\ on \in BOOLEAN /\ q.exp \in Int /\ rows[c] # NoRow
  BY <1>1, <1>3, IdleAgrees DEF UpdateRequest, Rowed
<1>5. PICK F \in Timeouts :
         /\ rows' = Rows /\ core' = Api(core, R, A, F).core
         /\ settings' = S /\ inbOn' = inbOn
         /\ hd' = [hd EXCEPT ![h] = Idle] /\ job' = job /\ rs' = rs
  BY <1>3, <1>4 DEF UpdateInboundClient, SaveInbound, Finish
<1>6. /\ S[c] = IF on THEN "on" ELSE "off"
      /\ \A d \in Client \ {c} : S[d] = settings[d]
  BY <1>4 DEF TypeOK, Settings
<1>7. /\ Rows[c] # NoRow /\ Rows[c].on = on
      /\ \A d \in Client \ {c} : Rows[d] = rows[d]
  <2>1. rows[c] \in FreeRow
    BY <1>4, RowIsFree
  <2>2. Rows[c] = [rows[c] EXCEPT !.on = on, !.exp = q.exp]
    BY <1>4 DEF TypeOK
  <2>3. \A d \in Client \ {c} : Rows[d] = rows[d]
    BY DEF TypeOK
  <2> HIDE DEF Rows, on
  <2>4. [rows[c] EXCEPT !.on = on, !.exp = q.exp] \in FreeRow
        /\ [rows[c] EXCEPT !.on = on, !.exp = q.exp].on = on
    BY <1>4, <2>1 DEF FreeRow
  <2> QED  BY <2>2, <2>3, <2>4, RowIsThere
<1>8. core \in Core /\ inbOn \in BOOLEAN
  BY DEF TypeOK
<1> HIDE DEF S, Rows, c, on
<1>9. OneChange(c, R, A, settings, rows, S, Rows)
  BY <1>4, <1>6, <1>7 DEF OneChange
<1> HIDE DEF R, A
<1>10. Agree(Idle, core', S, Rows, inbOn)
  BY <1>3, <1>4, <1>5, <1>8, <1>9, CallsAgree
<1>11. Agree(Idle, core', settings', rows', inbOn')
  BY <1>5, <1>10
<1>12. StaysOn(settings')
  BY <1>2, <1>3, <1>5, <1>6 DEF StaysOn
<1> QED  BY <1>2, <1>5, <1>11, <1>12, HandlerMoves

LEMMA SyncAdd ==
    ASSUME TypeOK, SeqInv, Overlap = FALSE, NEW h \in Handler, AddInboundClient(h)
    PROVE  SeqInv'
<1> DEFINE q == hd[h]
           c == q.c
           on == q.on
           A == IF on THEN {c} ELSE {}
           S == [settings EXCEPT ![c] = IF on THEN "on" ELSE "off"]
           Rows == [rows EXCEPT ![c] = NewRow(c, on)]
<1>1. q.op = "add" /\ q \in AddRequest
  BY RequestOf DEF AddInboundClient
<1>2. /\ job = Idle /\ rs = Idle /\ \A g \in Handler \ {h} : hd[g] = Idle
      /\ Reads(q, settings, inbOn) /\ Agree(q, core, settings, rows, inbOn) /\ StaysOn(settings)
  BY <1>1, Running
<1>3. /\ q.sett = settings /\ q.inb = inbOn /\ c \notin Present(settings) /\ (c \in Toggled \/ on)
      /\ Agree(Idle, core, settings, rows, inbOn)
  BY <1>1, <1>2, IdleAgrees DEF Reads, Agree, AheadSettings, AheadRows
<1>4. c \in Client /\ on \in BOOLEAN /\ rows[c] = NoRow /\ settings[c] = "absent"
  BY <1>1, <1>3, IdleAgrees DEF AddRequest, Rowed, Present
<1>5. PICK F \in Timeouts :
         /\ rows' = Rows /\ core' = Api(core, {}, A, F).core
         /\ settings' = S /\ inbOn' = inbOn
         /\ hd' = [hd EXCEPT ![h] = Idle] /\ job' = job /\ rs' = rs
  BY <1>3, <1>4 DEF AddInboundClient, SaveInbound, Finish
<1>6. /\ S[c] = IF on THEN "on" ELSE "off"
      /\ \A d \in Client \ {c} : S[d] = settings[d]
  BY <1>4 DEF TypeOK, Settings
<1>7. /\ Rows[c] # NoRow /\ Rows[c].on = on
      /\ \A d \in Client \ {c} : Rows[d] = rows[d]
  <2>1. Rows[c] = NewRow(c, on) /\ \A d \in Client \ {c} : Rows[d] = rows[d]
    BY <1>4 DEF TypeOK
  <2> HIDE DEF Rows, on, c
  <2>2. Lifetime[c] \in Int
    BY <1>4, ClientTrafficAssumption DEF ClientTrafficAssumption
  <2>3. NewRow(c, on) \in FreeRow /\ NewRow(c, on).on = on
    BY <1>4, <2>2 DEF NewRow, FreeRow
  <2> QED  BY <2>1, <2>3, RowIsThere
<1>8. core \in Core /\ inbOn \in BOOLEAN
  BY DEF TypeOK
<1> HIDE DEF S, Rows, c, on
<1>9. OneChange(c, {}, A, settings, rows, S, Rows)
  BY <1>4, <1>6, <1>7 DEF OneChange
<1> HIDE DEF A
<1>10. Agree(Idle, core', S, Rows, inbOn)
  BY <1>3, <1>4, <1>5, <1>8, <1>9, CallsAgree
<1>11. Agree(Idle, core', settings', rows', inbOn')
  BY <1>5, <1>10
<1>12. StaysOn(settings')
  BY <1>2, <1>3, <1>5, <1>6 DEF StaysOn
<1> QED  BY <1>2, <1>5, <1>11, <1>12, HandlerMoves

\* Deletion in two steps: the row and the user of the core, then the settings.
LEMMA SyncDelStat ==
    ASSUME TypeOK, SeqInv, Overlap = FALSE, NEW h \in Handler, DelStat(h)
    PROVE  SeqInv'
<1> DEFINE q == hd[h]
           c == q.c
           gone == IF settings[c] = "on" /\ rows[c].on THEN {c} ELSE {}
           S == [settings EXCEPT ![c] = "absent"]
           Rows == [rows EXCEPT ![c] = NoRow]
           next == [hd[h] EXCEPT !.op = "save"]
<1>1. q.op = "del" /\ q \in DelRequest
  BY RequestOf DEF DelStat
<1>2. /\ job = Idle /\ rs = Idle /\ \A g \in Handler \ {h} : hd[g] = Idle
      /\ Reads(q, settings, inbOn) /\ Agree(q, core, settings, rows, inbOn) /\ StaysOn(settings)
  BY <1>1, Running
<1>3. /\ q.sett = settings /\ q.inb = inbOn /\ c \in Present(settings)
      /\ Agree(Idle, core, settings, rows, inbOn)
  BY <1>1, <1>2, IdleAgrees DEF Reads, Agree, AheadSettings, AheadRows
<1>4. c \in Client /\ rows[c] # NoRow
  BY <1>1, <1>3, IdleAgrees DEF DelRequest, Rowed
<1>5. PICK F \in Timeouts :
         /\ rows' = Rows /\ core' = Api(core, gone, {}, F).core
         /\ settings' = settings /\ inbOn' = inbOn
         /\ hd' = [hd EXCEPT ![h].op = "save"] /\ job' = job /\ rs' = rs
  BY <1>3, <1>4 DEF DelStat
<1>6. hd' = [hd EXCEPT ![h] = next]
  BY <1>5
<1>7. next.op = "save" /\ next.c = c /\ next.sett = settings /\ next.inb = inbOn
  BY <1>1, <1>3 DEF DelRequest
<1>8. /\ S[c] = "absent" /\ \A d \in Client \ {c} : S[d] = settings[d]
      /\ Rows[c] = NoRow /\ \A d \in Client \ {c} : Rows[d] = rows[d]
  BY <1>4 DEF TypeOK, Settings
<1>9. core \in Core /\ inbOn \in BOOLEAN
  BY DEF TypeOK
<1> HIDE DEF next, Rows, S, c
<1>10. OneChange(c, gone, {}, settings, rows, S, Rows)
  BY <1>4, <1>8 DEF OneChange
<1> HIDE DEF gone
<1>11. Agree(Idle, core', S, Rows, inbOn)
  BY <1>3, <1>4, <1>5, <1>9, <1>10, CallsAgree
<1>12. AheadSettings(next, settings) = S /\ AheadRows(next, Rows) = Rows
  BY <1>7 DEF AheadSettings, AheadRows, S
<1>13. Agree(next, core', settings', rows', inbOn')
  BY <1>5, <1>7, <1>11, <1>12, IdleAgrees DEF Agree
<1>14. Reads(next, settings', inbOn')
  BY <1>5, <1>7 DEF Reads
<1> QED  BY <1>2, <1>5, <1>6, <1>13, <1>14, HandlerMoves

LEMMA SyncDelSave ==
    ASSUME TypeOK, SeqInv, Overlap = FALSE, NEW h \in Handler, DelSave(h)
    PROVE  SeqInv'
<1> DEFINE q == hd[h]
           S == [settings EXCEPT ![q.c] = "absent"]
<1>1. q.op = "save"
  BY DEF DelSave
<1>2. /\ job = Idle /\ rs = Idle /\ \A g \in Handler \ {h} : hd[g] = Idle
      /\ Reads(q, settings, inbOn) /\ Agree(q, core, settings, rows, inbOn) /\ StaysOn(settings)
  BY <1>1, Running
<1>3. q.sett = settings /\ q.inb = inbOn
  BY <1>1, <1>2 DEF Reads
<1>4. /\ settings' = S /\ inbOn' = inbOn /\ rows' = rows /\ core' = core
      /\ hd' = [hd EXCEPT ![h] = Idle] /\ job' = job /\ rs' = rs
  BY <1>3 DEF DelSave, SaveInbound, Finish
<1>5. Agree(Idle, core, S, rows, inbOn)
  <2>1. AheadSettings(q, settings) = S /\ AheadRows(q, rows) = rows
    BY <1>1 DEF AheadSettings, AheadRows
  <2> HIDE DEF S
  <2> QED  BY <1>2, <2>1, IdleAgrees DEF Agree
<1>6. StaysOn(S)
  BY <1>2 DEF StaysOn, TypeOK, Settings
<1> HIDE DEF S
<1>7. Agree(Idle, core', settings', rows', inbOn')
  BY <1>4, <1>5
<1> QED  BY <1>2, <1>4, <1>6, <1>7, HandlerMoves

LEMMA SyncReset ==
    ASSUME TypeOK, SeqInv, Overlap = FALSE, NEW h \in Handler, ResetClientTraffic(h)
    PROVE  SeqInv'
<1> DEFINE q == hd[h]
           Rows == [rows EXCEPT ![q.c] = [q.row EXCEPT !.on = TRUE, !.used = 0]]
<1>1. q.op = "reset"
  BY DEF ResetClientTraffic
<1>2. /\ job = Idle /\ rs = Idle /\ \A g \in Handler \ {h} : hd[g] = Idle
      /\ Agree(q, core, settings, rows, inbOn) /\ StaysOn(settings)
  BY <1>1, Running
<1>3. /\ settings' = settings /\ inbOn' = inbOn /\ rows' = Rows /\ core' = core
      /\ hd' = [hd EXCEPT ![h] = Idle] /\ job' = job /\ rs' = rs
  BY DEF ResetClientTraffic, Finish
<1>4. Agree(Idle, core, settings, Rows, inbOn)
  <2>1. AheadSettings(q, settings) = settings /\ AheadRows(q, rows) = Rows
    BY <1>1 DEF AheadSettings, AheadRows
  <2> HIDE DEF Rows, q
  <2> QED  BY <1>2, <2>1, IdleAgrees DEF Agree
<1> HIDE DEF Rows
<1>5. Agree(Idle, core', settings', rows', inbOn')
  BY <1>3, <1>4
<1> QED  BY <1>2, <1>3, <1>5, HandlerMoves

\* The page of the inbound comes back as it was sent: no client comes or goes.
LEMMA SyncInbound ==
    ASSUME TypeOK, SeqInv, Overlap = FALSE, NEW h \in Handler, UpdateInbound(h)
    PROVE  SeqInv'
<1> DEFINE q == hd[h]
<1>1. q.op = "inbound"
  BY DEF UpdateInbound
<1>2. /\ job = Idle /\ rs = Idle /\ \A g \in Handler \ {h} : hd[g] = Idle
      /\ Reads(q, settings, inbOn) /\ Agree(q, core, settings, rows, inbOn) /\ StaysOn(settings)
  BY <1>1, Running
<1>3. q.sett = settings /\ ~SingleEdits
  BY <1>1, <1>2 DEF Reads, SingleEdits
<1>4. /\ settings' = settings
      /\ hd' = [hd EXCEPT ![h] = Idle] /\ job' = job /\ rs' = rs
  BY <1>3 DEF UpdateInbound, SaveInbound, Finish, dbVars
<1>5. rows' = [c \in Client |-> rows[c]]
  BY <1>3 DEF UpdateInbound, dbVars, TypeOK
<1>6. Present(settings) = Rowed(rows')
  BY <1>1, <1>2, <1>5 DEF Agree, AheadSettings, AheadRows, Rowed
<1>7. Agree(Idle, core', settings', rows', inbOn')
  BY <1>3, <1>4, <1>6, IdleAgrees
<1> QED  BY <1>2, <1>4, <1>7, HandlerMoves

-----------------------------------------------------------------------------
(* The handler of a single step, when no other runs.                       *)

\* A step of theirs leaves the core behind.
LEMMA EditsAll ==
    ASSUME SeqInv, Overlap = FALSE, MayStart, ~SingleEdits,
           hd' = hd, job' = job, rs' = rs, StaysOn(settings'),
           Present(settings') = Rowed(rows')
    PROVE  SeqInv'
<1>1. job = Idle /\ rs = Idle /\ HandlersIdle
  BY QuietAgrees
<1>2. Agree(Idle, core', settings', rows', inbOn')
  BY IdleAgrees
<1>3. \A h \in Handler : hd'[h] = Idle
  BY <1>1 DEF HandlersIdle
<1> QED  BY <1>1, <1>2, <1>3 DEF SeqInv, OneAtATime, HandlersIdle

LEMMA SyncResetAll ==
    ASSUME TypeOK, SeqInv, Overlap = FALSE, NEW h \in Handler, ResetAllClientTraffics(h)
    PROVE  SeqInv'
<1>1. MayStart /\ ~SingleEdits
  BY DEF ResetAllClientTraffics, SingleEdits
<1>2. StaysOn(settings) /\ Present(settings) = Rowed(rows)
  BY <1>1, QuietAgrees, IdleAgrees
<1>3. settings' = settings /\ hd' = hd /\ job' = job /\ rs' = rs
  BY DEF ResetAllClientTraffics
<1>4. ASSUME NEW c \in Client PROVE rows'[c] # NoRow <=> rows[c] # NoRow
  <2> DEFINE r == [rows[c] EXCEPT !.on = TRUE, !.used = 0]
  <2>1. rows'[c] = IF rows[c] = NoRow THEN NoRow ELSE r
    BY DEF ResetAllClientTraffics
  <2>2. rows[c] # NoRow => r \in FreeRow
    BY RowIsFree DEF FreeRow
  <2> HIDE DEF r
  <2> QED  BY <2>1, <2>2, RowIsThere
<1>5. Present(settings) = Rowed(rows')
  BY <1>2, <1>4 DEF Rowed
<1> QED  BY <1>1, <1>2, <1>3, <1>5, EditsAll

\* Nothing has come between what DelDepletedClients read and what it writes.
LEMMA SyncDepleted ==
    ASSUME TypeOK, SeqInv, Overlap = FALSE, NEW h \in Handler, DelDepletedClients(h)
    PROVE  SeqInv'
<1> DEFINE q      == hd[h]
           late   == {c \in Rowed(rows) :
                        Period[c] = 0 /\ DepletedAt(c, rows[c], q.at)}
           remain == [c \in Client |-> IF c \in q.gone THEN "absent" ELSE q.sett[c]]
           last   == q.gone # {} /\ Present(remain) = {}
<1>1. q.op = "depleted"
  BY DEF DelDepletedClients
<1>2. /\ job = Idle /\ rs = Idle /\ \A g \in Handler \ {h} : hd[g] = Idle
      /\ Reads(q, settings, inbOn) /\ Agree(q, core, settings, rows, inbOn) /\ StaysOn(settings)
  BY <1>1, Running
<1>3. q.sett = settings /\ ~SingleEdits
  BY <1>1, <1>2 DEF Reads, SingleEdits
<1>4. q.gone = late /\ Present(settings) = Rowed(rows)
  BY <1>1, <1>2 DEF Agree, Spent, AheadSettings, AheadRows
<1>5. /\ rows' = [c \in Client |-> IF last \/ c \in late THEN NoRow ELSE rows[c]]
      /\ IF q.gone = {} THEN UNCHANGED <<settings, inbOn>>
         ELSE SaveInbound(remain, q.inb /\ ~last)
      /\ hd' = [hd EXCEPT ![h] = Idle] /\ job' = job /\ rs' = rs
  BY DEF DelDepletedClients, Finish
<1> HIDE DEF late
<1>6. settings' = remain
  BY <1>3, <1>5 DEF SaveInbound, TypeOK, Settings
<1>7. StaysOn(settings')
  BY <1>2, <1>3, <1>6 DEF StaysOn
<1>8. \A c \in Client : c \in Present(remain) <=> c \in Rowed(rows) /\ c \notin late
  BY <1>3, <1>4 DEF Present
<1>9. Present(remain) = Rowed(rows')
  <2> HIDE DEF remain
  <2>1. \A c \in Client : c \in Rowed(rows') <=> ~last /\ c \notin late /\ c \in Rowed(rows)
    BY <1>5 DEF Rowed
  <2>2. Present(remain) \subseteq Client /\ Rowed(rows') \subseteq Client
    BY DEF Present, Rowed
  <2> QED  BY <1>8, <2>1, <2>2
<1>10. Agree(Idle, core', settings', rows', inbOn')
  BY <1>3, <1>6, <1>9, IdleAgrees
<1> QED  BY <1>2, <1>5, <1>7, <1>10, HandlerMoves

-----------------------------------------------------------------------------
(* Steps of the traffic job, of a restart and of the world.                *)

\* No handler runs, and none starts.
LEMMA NoHandlerMoves ==
    ASSUME HandlersIdle, hd' = hd, job' = Idle \/ rs' = Idle,
           StaysOn(settings'), Agree(Idle, core', settings', rows', inbOn'),
           rs' # Idle => rs'.cfg = GenConfig(settings', rows', inbOn')
    PROVE  SeqInv'
<1>1. \A h \in Handler : hd'[h] = Idle
  BY DEF HandlersIdle
<1>2. OneAtATime'
  BY <1>1 DEF OneAtATime, HandlersIdle
<1> QED  BY <1>1, <1>2 DEF SeqInv

LEMMA SyncJob ==
    ASSUME TypeOK, SeqInv, Overlap = FALSE, JobCollect \/ JobCommit \/ JobTxFails
    PROVE  SeqInv'
<1>1. CASE JobCollect
  <2>1. /\ job = Idle /\ rs = Idle /\ HandlersIdle
        /\ Agree(Idle, core, settings, rows, inbOn)
        /\ StaysOn(settings)
    BY <1>1, QuietAgrees DEF JobCollect
  <2>2. /\ hd' = hd /\ rs' = rs
        /\ settings' = settings /\ rows' = rows /\ inbOn' = inbOn /\ core' = core
    BY <1>1 DEF JobCollect, dbVars
  <2> QED  BY <2>1, <2>2, NoHandlerMoves
<1>2. ASSUME job # Idle
      PROVE  /\ rs = Idle /\ HandlersIdle /\ StaysOn(settings)
             /\ Agree(Idle, core, settings, rows, inbOn)
  BY <1>2 DEF SeqInv, OneAtATime
<1>3. CASE JobCommit
  <2>1. job # Idle /\ job' = Idle /\ hd' = hd /\ rs' = rs /\ settings' = settings
    BY <1>3 DEF JobCommit
  <2>2. PICK F \in Timeouts :
          LET t == AddTraffic(job.batch, job.online, F)
          IN  rows' = t.rows /\ inbOn' = t.inbOn /\ core' = t.core
    BY <1>3 DEF JobCommit
  <2>3. job.batch \in [Client -> Nat]
    BY <2>1, BatchIsFree
  <2>4. Agree(Idle, core', settings, rows', inbOn')
    BY <1>2, <2>1, <2>2, <2>3, AddTrafficAgrees
  <2> QED  BY <1>2, <2>1, <2>4, NoHandlerMoves
<1>4. CASE JobTxFails
  <2>1. /\ job # Idle /\ job' = Idle /\ hd' = hd /\ rs' = rs
        /\ settings' = settings /\ rows' = rows /\ inbOn' = inbOn /\ core' = core
    BY <1>4 DEF JobTxFails, dbVars, coreVars
  <2> QED  BY <1>2, <2>1, NoHandlerMoves
<1> QED  BY <1>1, <1>3, <1>4

LEMMA SyncRestart ==
    ASSUME TypeOK, SeqInv, Overlap = FALSE,
           RestartNeeded \/ RestartCrashed \/ RestartForced \/ RestartXray
    PROVE  SeqInv'
<1>1. ASSUME NEW force, MayStart, GetXrayConfig(force) PROVE SeqInv'
  <2>1. /\ job = Idle /\ HandlersIdle /\ StaysOn(settings)
        /\ Agree(Idle, core, settings, rows, inbOn)
    BY <1>1, QuietAgrees
  <2>2. PICK F \in Timeouts :
          LET t == AddTraffic(Zero, {}, F)
          IN  /\ rows' = t.rows /\ inbOn' = t.inbOn /\ core' = t.core
              /\ rs' = [op |-> "decide", force |-> force,
                        cfg |-> GenConfig(settings, t.rows, t.inbOn)]
    BY <1>1 DEF GetXrayConfig
  <2>3. hd' = hd /\ job' = job /\ settings' = settings
    BY <1>1 DEF GetXrayConfig
  <2>4. Zero \in [Client -> Nat]
    BY DEF Zero
  <2>5. Agree(Idle, core', settings, rows', inbOn')
    BY <2>1, <2>2, <2>4, AddTrafficAgrees
  <2>6. rs'.cfg = GenConfig(settings', rows', inbOn')
    BY <2>2, <2>3
  <2> QED  BY <2>1, <2>3, <2>5, <2>6, NoHandlerMoves
<1>2. CASE RestartNeeded \/ RestartCrashed \/ RestartForced
  BY <1>1, <1>2 DEF RestartNeeded, RestartCrashed, RestartForced
<1>3. CASE RestartXray
  <2>1. /\ rs.cfg = GenConfig(settings, rows, inbOn) /\ HandlersIdle /\ StaysOn(settings)
        /\ Agree(Idle, core, settings, rows, inbOn)
    BY <1>3 DEF RestartXray, SeqInv, OneAtATime
  <2>2. /\ hd' = hd /\ rs' = Idle
        /\ settings' = settings /\ rows' = rows /\ inbOn' = inbOn
    BY <1>3 DEF RestartXray, dbVars
  <2>3. CASE core' = core
    BY <2>1, <2>2, <2>3, NoHandlerMoves
  <2>4. CASE core' = [up |-> TRUE, inb |-> rs.cfg.inb, users |-> rs.cfg.users]
    <3>1. core'.inb = inbOn /\ core'.users = Entitled(settings, rows, inbOn)
      BY <2>1, <2>4 DEF GenConfig
    <3>2. Matches(core', settings, rows, inbOn)
      BY <3>1 DEF Matches
    <3>3. Agree(Idle, core', settings', rows', inbOn')
      BY <2>1, <2>2, <3>2, IdleAgrees
    <3> QED  BY <2>1, <2>2, <3>3, NoHandlerMoves
  <2> QED  BY <1>3, <2>3, <2>4 DEF RestartXray, coreVars
<1> QED  BY <1>2, <1>3

\* What the world does, it does while a handler runs, too.
LEMMA SyncWorld ==
    ASSUME SeqInv, (\E c \in Client : Carry(c)) \/ Tick \/ Crash \/ UNCHANGED vars
    PROVE  SeqInv'
<1>1. /\ job' = job /\ rs' = rs /\ hd' = hd
      /\ settings' = settings /\ rows' = rows /\ inbOn' = inbOn
      /\ core' = core \/ ~core'.up
  BY DEF Carry, Tick, Crash, vars, dbVars, coreVars
<1>2. \A q : Agree(q, core, settings, rows, inbOn) =>
               Agree(q, core', settings', rows', inbOn')
  BY <1>1 DEF Agree, Matches
<1> QED  BY <1>1, <1>2 DEF SeqInv, OneAtATime, HandlersIdle

-----------------------------------------------------------------------------
(* The theorems.                                                           *)

LEMMA SeqInit == Init => SeqInv
<1> SUFFICES ASSUME Init PROVE SeqInv
  OBVIOUS
<1>1. /\ job = Idle /\ rs = Idle /\ HandlersIdle /\ StaysOn(settings)
      /\ inbOn = TRUE /\ core.inb = TRUE /\ core.users = conf.users
      /\ conf = GenConfig(settings, rows, TRUE)
  BY DEF Init, HandlersIdle, StaysOn
<1>2. \A c \in Client : rows[c] # NoRow <=> settings[c] # "absent"
  <2> TAKE c \in Client
  <2> DEFINE b == settings[c] = "on"
  <2>1. rows[c] = IF settings[c] = "absent" THEN NoRow ELSE NewRow(c, b)
    BY DEF Init
  <2>2. b \in BOOLEAN /\ Lifetime[c] \in Int
    BY ClientTrafficAssumption DEF ClientTrafficAssumption
  <2> HIDE DEF b
  <2>3. NewRow(c, b) \in FreeRow
    BY <2>2 DEF NewRow, FreeRow
  <2> QED  BY <2>1, <2>3, RowIsThere
<1>3. Present(settings) = Rowed(rows)
  BY <1>2 DEF Present, Rowed
<1>4. Matches(core, settings, rows, inbOn)
  BY <1>1 DEF Matches, GenConfig
<1> QED  BY <1>1, <1>3, <1>4, IdleAgrees DEF SeqInv, OneAtATime, HandlersIdle

LEMMA SeqStep == Overlap = FALSE /\ TypeOK /\ SeqInv /\ [Next]_vars => SeqInv'
<1> SUFFICES ASSUME Overlap = FALSE, TypeOK, SeqInv, [Next]_vars PROVE SeqInv'
  OBVIOUS
<1>1. CASE JobCollect \/ JobCommit \/ JobTxFails
  BY <1>1, SyncJob
<1>2. CASE RestartNeeded \/ RestartCrashed \/ RestartForced \/ RestartXray
  BY <1>2, SyncRestart
<1>3. CASE (\E c \in Client : Carry(c)) \/ Tick \/ Crash \/ UNCHANGED vars
  BY <1>3, SyncWorld
<1>4. ASSUME NEW h \in Handler,
             \/ UpdateRead(h) \/ AddRead(h) \/ DelRead(h) \/ ResetRead(h)
             \/ InboundRead(h) \/ DepletedRead(h)
      PROVE  SeqInv'
  BY <1>4, SyncReads
<1>5. ASSUME NEW h \in Handler, HandlerWrites(h)
      PROVE  SeqInv'
  BY <1>5, SyncUpdate, SyncAdd, SyncDelStat, SyncDelSave, SyncReset, SyncInbound,
     SyncDepleted
  DEF HandlerWrites
<1>6. ASSUME NEW h \in Handler, ResetAllClientTraffics(h)
      PROVE  SeqInv'
  BY <1>6, SyncResetAll
<1> QED  BY <1>1, <1>2, <1>3, <1>4, <1>5, <1>6 DEF Next

LEMMA SeqInvariant ==
    ASSUME Overlap = FALSE
    PROVE  Spec => []SeqInv
<1>1. TypeOK /\ SeqInv /\ [Next]_vars => SeqInv'
  BY SeqStep
<1> QED  BY SeqInit, <1>1, TrafficTypeCorrect, PTL DEF Spec

\* Whichever handlers, jobs, restarts, crashes and timeouts follow one another,
\* the clients that have a row are those of the settings: no row is left behind,
\* and none is missing.
THEOREM ClientsHaveRows ==
    ASSUME Overlap = FALSE
    PROVE  Spec => []RowPerClient
<1>1. SeqInv => RowPerClient
  <2> SUFFICES ASSUME SeqInv, Quiet
               PROVE  Present(settings) = Rowed(rows)
    BY DEF RowPerClient
  <2>1. HandlersIdle
    BY DEF Quiet, HandlersIdle
  <2> QED  BY <2>1, IdleAgrees DEF SeqInv
<1>2. Spec => []SeqInv
  BY SeqInvariant
<1> QED  BY <1>1, <1>2, PTL

\* Whatever updates, additions, deletions and resets of single clients, runs of
\* the traffic job, restarts and crashes of xray follow one another, a running
\* core admits exactly the clients that a restart would admit.
THEOREM CoreIsSynced ==
    ASSUME Overlap = FALSE, SingleEdits
    PROVE  Spec => []Synced
<1>1. SeqInv => Synced
  <2> SUFFICES ASSUME SeqInv, Quiet, core.up
               PROVE  core.users = Entitled(settings, rows, inbOn)
    BY DEF Synced
  <2>1. HandlersIdle
    BY DEF Quiet, HandlersIdle
  <2> QED  BY <2>1, IdleAgrees DEF SeqInv, Matches
<1>2. Spec => []SeqInv
  BY SeqInvariant
<1> QED  BY <1>1, <1>2, PTL
==============================================================================
