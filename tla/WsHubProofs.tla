----------------------------- MODULE WsHubProofs -----------------------------
(***************************************************************************)
(* Invariance proofs for WsHub, for any set of connections and any         *)
(* capacities of the channels.                                             *)
(***************************************************************************)
EXTENDS WsHub, TLAPS

\* TypeOK bounds closes only with the help of HubInv, and HubInv needs the
\* types of the queues: the two are proved together.
WsInv == TypeOK /\ HubInv

-----------------------------------------------------------------------------
(* What receiving from and sending to a channel do to its queue.           *)

LEMMA Received ==
    ASSUME NEW S, NEW q \in Seq(S), q # <<>>
    PROVE  /\ 1 \in DOMAIN q /\ Head(q) = q[1] /\ Head(q) \in S
           /\ Tail(q) \in Seq(S) /\ Len(Tail(q)) = Len(q) - 1
           /\ \A i \in DOMAIN Tail(q) :
                i \in Nat \ {0} /\ i + 1 \in DOMAIN q /\ Tail(q)[i] = q[i + 1]
OBVIOUS

LEMMA Sent ==
    ASSUME NEW S, NEW q \in Seq(S), NEW e \in S
    PROVE  /\ Append(q, e) \in Seq(S) /\ Len(Append(q, e)) = Len(q) + 1
           /\ \A i \in DOMAIN Append(q, e) :
                \/ i \in DOMAIN q /\ Append(q, e)[i] = q[i]
                \/ i = Len(q) + 1 /\ Append(q, e)[i] = e
OBVIOUS

\* The hub closes the channels of members only, and each of them is open.
LEMMA ClosedNow ==
    ASSUME WsInv, NEW S \in SUBSET clients, CloseSend(S)
    PROVE  /\ closes' \in [Client -> 0..1]
           /\ send' \in [Client -> 0..SendCap]
           /\ \A c \in S : closes'[c] = 1
           /\ \A c \in Client \ S : closes'[c] = closes[c]
<1>1. S \subseteq Client /\ \A c \in S : closes[c] = 0
  BY DEF WsInv, TypeOK, HubInv, MemberOpen
<1>2. \A c \in Client : closes[c] \in 0..1 /\ send[c] \in 0..SendCap
  BY DEF WsInv, TypeOK
<1>3. send' \in [Client -> 0..SendCap]
  BY <1>2, WsHubAssumption DEF CloseSend, WsHubAssumption
<1>4. \A c \in Client : closes'[c] = IF c \in S THEN 1 ELSE closes[c]
  BY <1>1, <1>2 DEF CloseSend
<1>5. closes' \in [Client -> 0..1]
  BY <1>1, <1>2 DEF CloseSend
<1> QED
  BY <1>1, <1>3, <1>4, <1>5

-----------------------------------------------------------------------------
(* Every step keeps WsInv.                                                 *)

LEMMA WsInit == Init => WsInv
<1> SUFFICES ASSUME Init PROVE WsInv
  OBVIOUS
<1>1. TypeOK
  <2>1. /\ register \in Seq(Client) /\ Len(register) <= RegCap
        /\ unregister \in Seq(Client) /\ Len(unregister) <= UnregCap
        /\ broadcast \in 0..BcastCap /\ burst \in 0..Burst
    BY WsHubAssumption DEF Init, WsHubAssumption
  <2>2. send \in [Client -> 0..SendCap] /\ closes \in [Client -> 0..1]
    BY WsHubAssumption DEF Init, WsHubAssumption
  <2>3. ctx \in BOOLEAN /\ open \in [Client -> BOOLEAN]
    BY Zenon DEF Init
  <2>4. reader \in [Client -> ReaderState] /\ writer \in [Client -> WriterState]
    BY DEF Init, ReaderState, WriterState
  <2>5. /\ hub \in {"select", "send", "stopped"} /\ clients \in SUBSET Client
        /\ todo \in SUBSET Client /\ dropping \in SUBSET Client
    BY DEF Init
  <2> QED
    BY <2>1, <2>2, <2>3, <2>4, <2>5 DEF TypeOK
<1>2. HubInv
  BY DEF Init, HubInv, ClosedOnce, QueuedOnce, QueuedIsNew, MemberOpen,
         FreshOpen, SendersOpen, NotQueuedYet
<1> QED
  BY <1>1, <1>2 DEF WsInv

\* An unregistration is queued, or dropped at the end.
LEMMA UnregisterType ==
    ASSUME WsInv, NEW c \in Client, Unregister(c)
    PROVE  unregister' \in Seq(Client) /\ Len(unregister') <= UnregCap
<1>1. unregister \in Seq(Client) /\ Len(unregister) <= UnregCap
  BY DEF WsInv, TypeOK
<1>2. CASE Len(unregister) < UnregCap /\ unregister' = Append(unregister, c)
  BY <1>1, <1>2, Sent, WsHubAssumption DEF WsHubAssumption
<1>3. CASE UNCHANGED unregister
  BY <1>1, <1>3
<1> QED
  BY <1>2, <1>3 DEF Unregister

LEMMA WsConnections ==
    ASSUME WsInv, NEW c \in Client,
           \/ Connect(c) \/ Join(c) \/ PeerLeaves(c) \/ ReadFails(c) \/ Leave(c)
           \/ Write(c) \/ WriterEnds(c) \/ Deliver(c) \/ Drop(c)
    PROVE  WsInv'
<1> USE DEF WsInv, hubVars, pumpVars
<1>1. CASE Connect(c)
  <2>1. TypeOK'
    BY <1>1 DEF Connect, TypeOK, ReaderState
  <2>2. HubInv'
    BY <1>1 DEF Connect, TypeOK, HubInv, ClosedOnce, QueuedOnce, QueuedIsNew,
                MemberOpen, FreshOpen, SendersOpen, NotQueuedYet
  <2> QED
    BY <2>1, <2>2
<1>2. CASE Join(c)
  <2> USE DEF Join, TypeOK
  <2>1. /\ register' \in Seq(Client) /\ Len(register') <= RegCap
        /\ \A i \in DOMAIN register' :
             \/ i \in DOMAIN register /\ register'[i] = register[i]
             \/ i = Len(register) + 1 /\ register'[i] = c
    <3>1. register \in Seq(Client) /\ Len(register) <= RegCap
      OBVIOUS
    <3>2. CASE Len(register) < RegCap /\ register' = Append(register, c)
      BY <3>1, <3>2, Sent, WsHubAssumption DEF WsHubAssumption
    <3>3. CASE UNCHANGED register
      BY <3>1, <3>3
    <3> QED
      BY <1>2, <3>2, <3>3 DEF Register
  <2>2. TypeOK'
    BY <1>2, <2>1 DEF ReaderState, WriterState
  <2>3. c \notin clients /\ closes[c] = 0 /\ \A i \in DOMAIN register : register[i] # c
    BY <1>2 DEF HubInv, QueuedIsNew, MemberOpen, FreshOpen, NotQueuedYet
  <2>5. QueuedOnce'
    BY <2>1, <2>3 DEF HubInv, QueuedOnce
  <2>6. \A d \in Client : reader'[d] = IF d = c THEN "read" ELSE reader[d]
    BY <1>2
  <2>7. QueuedIsNew'
    BY <1>2, <2>1, <2>3, <2>6 DEF HubInv, QueuedIsNew, NotQueuedYet
  <2>8. ClosedOnce' /\ MemberOpen' /\ FreshOpen' /\ SendersOpen'
    BY <1>2, <2>6
    DEF HubInv, ClosedOnce, MemberOpen, FreshOpen, SendersOpen, NotQueuedYet
  <2> QED
    BY <2>2, <2>5, <2>7, <2>8 DEF HubInv
<1>3. CASE PeerLeaves(c)
  BY <1>3 DEF PeerLeaves, TypeOK, HubInv, ClosedOnce, QueuedOnce, QueuedIsNew,
              MemberOpen, FreshOpen, SendersOpen, NotQueuedYet
<1>4. CASE ReadFails(c)
  <2>1. TypeOK'
    BY <1>4 DEF ReadFails, TypeOK, ReaderState
  <2>2. HubInv'
    BY <1>4 DEF ReadFails, TypeOK, HubInv, ClosedOnce, QueuedOnce, QueuedIsNew,
                MemberOpen, FreshOpen, SendersOpen, NotQueuedYet
  <2> QED
    BY <2>1, <2>2
<1>5. CASE Leave(c)
  <2>1. TypeOK'
    BY <1>5, UnregisterType DEF Leave, TypeOK, ReaderState
  <2>2. HubInv'
    BY <1>5 DEF Leave, TypeOK, HubInv, ClosedOnce, QueuedOnce, QueuedIsNew,
                MemberOpen, FreshOpen, SendersOpen, NotQueuedYet
  <2> QED
    BY <2>1, <2>2
<1>6. CASE Write(c)
  <2>1. TypeOK'
    BY <1>6, WsHubAssumption DEF Write, TypeOK, WsHubAssumption
  <2>2. HubInv'
    BY <1>6 DEF Write, HubInv, ClosedOnce, QueuedOnce, QueuedIsNew,
                MemberOpen, FreshOpen, SendersOpen, NotQueuedYet
  <2> QED
    BY <2>1, <2>2
<1>7. CASE WriterEnds(c)
  <2>1. TypeOK'
    BY <1>7, WsHubAssumption DEF WriterEnds, TypeOK, WriterState, WsHubAssumption
  <2>2. HubInv'
    BY <1>7 DEF WriterEnds, HubInv, ClosedOnce, QueuedOnce, QueuedIsNew,
                MemberOpen, FreshOpen, SendersOpen, NotQueuedYet
  <2> QED
    BY <2>1, <2>2
<1>8. CASE Deliver(c)
  <2>1. TypeOK'
    <3>1. send' \in [Client -> 0..SendCap]
      <4>1. /\ SendCap \in Nat /\ send \in [Client -> 0..SendCap]
            /\ send[c] \in 0..SendCap
        BY WsHubAssumption DEF TypeOK, WsHubAssumption
      <4>2. CASE send' = send
        BY <4>1, <4>2
      <4>3. CASE send[c] < SendCap /\ send' = [send EXCEPT ![c] = @ + 1]
        BY <4>1, <4>3
      <4> QED
        BY <1>8, <4>2, <4>3 DEF Deliver
    <3>2. todo' \in SUBSET Client /\ dropping' \in SUBSET Client
      BY <1>8 DEF Deliver, TypeOK
    <3> QED
      BY <1>8, <3>1, <3>2 DEF Deliver, TypeOK
  <2>2. HubInv'
    BY <1>8 DEF Deliver, TypeOK, HubInv, ClosedOnce, QueuedOnce, QueuedIsNew,
                MemberOpen, FreshOpen, SendersOpen, NotQueuedYet
  <2> QED
    BY <2>1, <2>2
<1>9. CASE Drop(c)
  <2>1. TypeOK'
    BY <1>9, UnregisterType DEF Drop, TypeOK
  <2>2. HubInv'
    BY <1>9 DEF Drop, HubInv, ClosedOnce, QueuedOnce, QueuedIsNew,
                MemberOpen, FreshOpen, SendersOpen, NotQueuedYet
  <2> QED
    BY <2>1, <2>2
<1> QED
  BY <1>1, <1>2, <1>3, <1>4, <1>5, <1>6, <1>7, <1>8, <1>9

LEMMA WsHubSteps ==
    ASSUME WsInv,
           \/ Broadcast \/ Stop
           \/ TakeRegister \/ TakeUnregister \/ TakeBroadcast
           \/ Delivered \/ HubStops
    PROVE  WsInv'
<1> USE DEF WsInv, hubVars, pumpVars
<1>1. CASE Broadcast
  <2>1. TypeOK'
    BY <1>1, WsHubAssumption DEF Broadcast, TypeOK, WsHubAssumption
  <2>2. HubInv'
    BY <1>1 DEF Broadcast, HubInv, ClosedOnce, QueuedOnce, QueuedIsNew,
                MemberOpen, FreshOpen, SendersOpen, NotQueuedYet
  <2> QED
    BY <2>1, <2>2
<1>2. CASE Stop
  <2>1. TypeOK'
    BY <1>2 DEF Stop, TypeOK
  <2>2. HubInv'
    BY <1>2 DEF Stop, HubInv, ClosedOnce, QueuedOnce, QueuedIsNew,
                MemberOpen, FreshOpen, SendersOpen, NotQueuedYet
  <2> QED
    BY <2>1, <2>2
<1>3. CASE TakeRegister
  <2> USE DEF TakeRegister
  <2> DEFINE new == Head(register)
  <2>1. /\ 1 \in DOMAIN register /\ new = register[1] /\ new \in Client
        /\ register' \in Seq(Client) /\ Len(register') = Len(register) - 1
        /\ \A i \in DOMAIN register' :
             i \in Nat \ {0} /\ i + 1 \in DOMAIN register
                /\ register'[i] = register[i + 1]
    BY <1>3, Received DEF TypeOK
  <2>2. Len(register') <= RegCap
    BY <2>1, WsHubAssumption DEF TypeOK, WsHubAssumption
  <2>3. clients' \in SUBSET Client
    BY <1>3, <2>1 DEF TypeOK
  <2>4. TypeOK'
    BY <1>3, <2>1, <2>2, <2>3 DEF TypeOK
  <2>5. \A i \in DOMAIN register' : register'[i] # new
    BY <2>1 DEF HubInv, QueuedOnce
  <2>6. QueuedOnce'
    BY <2>1 DEF HubInv, QueuedOnce
  <2>7. closes[new] = 0 /\ ~NotQueuedYet(new)
    BY <2>1 DEF HubInv, QueuedIsNew
  <2>8. QueuedIsNew'
    BY <1>3, <2>1, <2>5 DEF HubInv, QueuedIsNew, NotQueuedYet
  <2>9. MemberOpen' /\ SendersOpen' /\ ClosedOnce' /\ FreshOpen'
    BY <1>3, <2>7
    DEF HubInv, MemberOpen, SendersOpen, ClosedOnce, FreshOpen, NotQueuedYet
  <2> QED
    BY <2>4, <2>6, <2>8, <2>9 DEF HubInv
<1>4. CASE TakeUnregister
  <2> USE DEF TakeUnregister
  <2> DEFINE gone == Head(unregister)
  <2>1. /\ gone \in Client /\ unregister' \in Seq(Client)
        /\ Len(unregister') = Len(unregister) - 1
    BY <1>4, Received DEF TypeOK
  <2>2. /\ closes' \in [Client -> 0..1] /\ send' \in [Client -> 0..SendCap]
        /\ \A d \in clients \cap {gone} : closes'[d] = 1
        /\ \A d \in Client \ (clients \cap {gone}) : closes'[d] = closes[d]
    BY <1>4, ClosedNow
  <2>3. Len(unregister') <= UnregCap
    BY <2>1, WsHubAssumption DEF TypeOK, WsHubAssumption
  <2>4. burst' \in 0..Burst
    BY <1>4, WsHubAssumption DEF WsHubAssumption
  <2>5. TypeOK'
    BY <1>4, <2>1, <2>2, <2>3, <2>4 DEF TypeOK
  <2>6. ClosedOnce'
    BY <2>2 DEF HubInv, ClosedOnce
  <2>7. QueuedOnce' /\ SendersOpen'
    BY <1>4 DEF HubInv, QueuedOnce, SendersOpen
  <2>8. QueuedIsNew' /\ MemberOpen' /\ FreshOpen'
    BY <1>4, <2>2
    DEF TypeOK, HubInv, QueuedIsNew, MemberOpen, FreshOpen, NotQueuedYet
  <2> QED
    BY <2>5, <2>6, <2>7, <2>8 DEF HubInv
<1>5. CASE TakeBroadcast
  <2>1. TypeOK'
    BY <1>5, WsHubAssumption DEF TakeBroadcast, TypeOK, WsHubAssumption
  <2>2. HubInv'
    BY <1>5 DEF TakeBroadcast, HubInv, ClosedOnce, QueuedOnce, QueuedIsNew,
                MemberOpen, FreshOpen, SendersOpen, NotQueuedYet
  <2> QED
    BY <2>1, <2>2
<1>6. CASE Delivered
  <2>1. TypeOK'
    BY <1>6 DEF Delivered, TypeOK
  <2>2. HubInv'
    BY <1>6 DEF Delivered, HubInv, ClosedOnce, QueuedOnce, QueuedIsNew,
                MemberOpen, FreshOpen, SendersOpen, NotQueuedYet
  <2> QED
    BY <2>1, <2>2
<1>7. CASE HubStops
  <2> USE DEF HubStops
  <2>1. /\ closes' \in [Client -> 0..1] /\ send' \in [Client -> 0..SendCap]
        /\ \A d \in clients : closes'[d] = 1
        /\ \A d \in Client \ clients : closes'[d] = closes[d]
    BY <1>7, ClosedNow
  <2>2. TypeOK'
    BY <1>7, <2>1 DEF TypeOK
  <2>3. ClosedOnce'
    BY <2>1 DEF HubInv, ClosedOnce
  <2>4. QueuedOnce' /\ SendersOpen' /\ MemberOpen'
    BY <1>7 DEF HubInv, QueuedOnce, SendersOpen, MemberOpen
  <2>5. QueuedIsNew' /\ FreshOpen'
    BY <1>7, <2>1
    DEF TypeOK, HubInv, QueuedIsNew, MemberOpen, FreshOpen, NotQueuedYet
  <2> QED
    BY <2>2, <2>3, <2>4, <2>5 DEF HubInv
<1> QED
  BY <1>1, <1>2, <1>3, <1>4, <1>5, <1>6, <1>7

LEMMA WsStep == WsInv /\ [Next]_vars => WsInv'
<1> SUFFICES ASSUME WsInv, [Next]_vars PROVE WsInv'
  OBVIOUS
<1>1. CASE UNCHANGED vars
  BY <1>1 DEF vars, WsInv, TypeOK, HubInv, ClosedOnce, QueuedOnce, QueuedIsNew,
              MemberOpen, FreshOpen, SendersOpen, NotQueuedYet
<1>2. CASE Next
  BY <1>2, WsConnections, WsHubSteps DEF Next
<1> QED
  BY <1>1, <1>2

-----------------------------------------------------------------------------
(* The theorems.                                                           *)

\* Every variable stays in its range: no queue outgrows its capacity.
THEOREM WsTypeCorrect == Spec => []TypeOK
<1>1. Init => WsInv
  BY WsInit
<1>2. WsInv /\ [Next]_vars => WsInv'
  BY WsStep
<1>3. WsInv => TypeOK
  BY DEF WsInv
<1> QED
  BY <1>1, <1>2, <1>3, PTL DEF Spec

\* The Send of each connection is closed at most once, and no worker sends on
\* a closed one, whatever the order of the queues.
THEOREM HubCorrect == Spec => []HubInv
<1>1. Init => WsInv
  BY WsInit
<1>2. WsInv /\ [Next]_vars => WsInv'
  BY WsStep
<1>3. WsInv => HubInv
  BY DEF WsInv
<1> QED
  BY <1>1, <1>2, <1>3, PTL DEF Spec

\* Whoever leaves the hub's map has its Send closed in the same step.
THEOREM LeaversAreClosed == Spec => LeaversClosed
<1>1. Init => WsInv
  BY WsInit
<1>2. WsInv /\ [Next]_vars => WsInv'
  BY WsStep
<1>3. WsInv /\ [Next]_vars => [\A c \in clients \ clients' : closes'[c] = 1]_vars
  <2> SUFFICES ASSUME WsInv, Next, NEW c \in clients \ clients'
               PROVE  closes'[c] = 1
    OBVIOUS
  <2>1. CASE TakeUnregister
    <3>1. c \in clients \cap {Head(unregister)}
      BY <2>1 DEF TakeUnregister
    <3> QED
      BY <2>1, <3>1, ClosedNow DEF TakeUnregister
  <2>2. CASE HubStops
    BY <2>2, ClosedNow DEF HubStops
  <2>3. ASSUME NEW d \in Client,
               \/ Connect(d) \/ Join(d) \/ PeerLeaves(d) \/ ReadFails(d)
               \/ Leave(d) \/ Write(d) \/ WriterEnds(d) \/ Deliver(d) \/ Drop(d)
        PROVE  clients' = clients
    BY <2>3 DEF Connect, Join, PeerLeaves, ReadFails, Leave, Write, WriterEnds,
                Deliver, Drop, hubVars
  <2>4. CASE Broadcast \/ Stop \/ TakeRegister \/ TakeBroadcast \/ Delivered
    BY <2>4 DEF Broadcast, Stop, TakeRegister, TakeBroadcast, Delivered, hubVars
  <2> QED
    BY <2>1, <2>2, <2>3, <2>4 DEF Next
<1> QED
  BY <1>1, <1>2, <1>3, PTL DEF Spec, LeaversClosed
==============================================================================
