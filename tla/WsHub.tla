-------------------------------- MODULE WsHub --------------------------------
(***************************************************************************)
(* The hub that pushes updates to the open pages of the panel              *)
(* (web/websocket/hub.go), with the two pumps and the handler of each      *)
(* connection (web/controller/websocket.go) and the workers that deliver a *)
(* broadcast.  All of them are goroutines, tied together by three bounded  *)
(* channels of the hub and one of each connection.                         *)
(*                                                                         *)
(* A message is only its place in a channel.  BroadcastToTopic has no      *)
(* caller and is left out: the loop of the hub is the only broadcaster.    *)
(***************************************************************************)
EXTENDS Naturals, Sequences, FiniteSets

CONSTANTS
    Client,    \* connections; every one has a Client object of its own
    RegCap,    \* capacity of register (100)
    UnregCap,  \* capacity of unregister (100)
    BcastCap,  \* capacity of broadcast (2048)
    SendCap,   \* capacity of each Send (512)
    PoolSize,  \* workers that deliver a broadcast (10 to 100)
    Burst      \* bound: broadcasts the select takes before an unregister

ASSUME WsHubAssumption ==
    /\ IsFiniteSet(Client)
    /\ RegCap \in Nat \ {0}
    /\ UnregCap \in Nat \ {0}
    /\ BcastCap \in Nat \ {0}
    /\ SendCap \in Nat \ {0}
    /\ PoolSize \in Nat \ {0}
    /\ Burst \in Nat

VARIABLES
    hub,       \* Run: at its select, in broadcastParallel, or returned
    clients,   \* the hub's map
    register, unregister, \* the queues of the hub
    broadcast, \* number of messages in the hub's third queue
    ctx,       \* the hub's context is cancelled
    burst,     \* broadcasts taken while an unregister waited
    todo,      \* clients of this broadcast no worker has come to
    dropping,  \* clients whose worker is inside Unregister
    reader,    \* the handler that registers a connection, then its readPump
    writer,    \* its writePump
    open,      \* its network connection
    send,      \* number of messages in its Send
    closes     \* how often its Send was closed

hubVars    == <<hub, clients, burst, todo, dropping>>
pumpVars   == <<reader, writer, open>>
vars == <<hub, clients, register, unregister, broadcast, ctx, burst, todo,
          dropping, reader, writer, open, send, closes>>

ReaderState == {"new", "register", "read", "unregister", "done"}
WriterState == {"new", "write", "done"}

TypeOK ==
    /\ hub \in {"select", "send", "stopped"}
    /\ clients \in SUBSET Client
    /\ register \in Seq(Client) /\ Len(register) <= RegCap
    /\ unregister \in Seq(Client) /\ Len(unregister) <= UnregCap
    /\ broadcast \in 0..BcastCap
    /\ ctx \in BOOLEAN
    /\ burst \in 0..Burst
    /\ todo \in SUBSET Client
    /\ dropping \in SUBSET Client
    /\ reader \in [Client -> ReaderState]
    /\ writer \in [Client -> WriterState]
    /\ open \in [Client -> BOOLEAN]
    /\ send \in [Client -> 0..SendCap]
    /\ closes \in [Client -> 0..1]

Init ==
    /\ hub = "select"
    /\ clients = {}
    /\ register = <<>>
    /\ unregister = <<>>
    /\ broadcast = 0
    /\ ctx = FALSE
    /\ burst = 0
    /\ todo = {}
    /\ dropping = {}
    /\ reader = [c \in Client |-> "new"]
    /\ writer = [c \in Client |-> "new"]
    /\ open = [c \in Client |-> FALSE]
    /\ send = [c \in Client |-> 0]
    /\ closes = [c \in Client |-> 0]

-----------------------------------------------------------------------------
(* Hub.Register, Hub.Unregister, Hub.Broadcast and Hub.Stop.               *)

\* Variant: an unbuffered channel hands over only to a hub at its select.
UnregisterTaken(c) ==
    \/ /\ hub = "select"
       /\ unregister = <<>>
       /\ unregister' = Append(unregister, c)
    \/ ctx /\ UNCHANGED unregister

\* A select with a full queue waits; when the context is done as well, either
\* branch may be taken.
Unregister(c) ==
    \/ /\ Len(unregister) < UnregCap
       /\ unregister' = Append(unregister, c)
    \/ ctx /\ UNCHANGED unregister

Register(c) ==
    \/ /\ Len(register) < RegCap
       /\ register' = Append(register, c)
    \/ ctx /\ UNCHANGED register

\* Called by jobs and handlers; a message that finds the queue full for
\* 100 ms is dropped.
Broadcast ==
    /\ broadcast < BcastCap
    /\ broadcast' = broadcast + 1
    /\ UNCHANGED <<hubVars, pumpVars, register, unregister, ctx, send, closes>>

Stop ==
    /\ ~ctx
    /\ ctx' = TRUE
    /\ UNCHANGED <<hubVars, pumpVars, register, unregister, broadcast, send,
                   closes>>

-----------------------------------------------------------------------------
(* The connections.                                                        *)

\* HandleWebSocket: the upgrade, ...
Connect(c) ==
    /\ reader[c] = "new"
    /\ reader' = [reader EXCEPT ![c] = "register"]
    /\ open' = [open EXCEPT ![c] = TRUE]
    /\ UNCHANGED <<hubVars, register, unregister, broadcast, ctx, writer, send,
                   closes>>

\* ... Register, and the two pumps.
Join(c) ==
    /\ reader[c] = "register"
    /\ Register(c)
    /\ reader' = [reader EXCEPT ![c] = "read"]
    /\ writer' = [writer EXCEPT ![c] = "write"]
    /\ UNCHANGED <<hubVars, unregister, broadcast, ctx, open, send, closes>>

\* The peer goes, or neither answers pings nor takes a message in time.
PeerLeaves(c) ==
    /\ open[c]
    /\ open' = [open EXCEPT ![c] = FALSE]
    /\ UNCHANGED <<hubVars, register, unregister, broadcast, ctx, reader,
                   writer, send, closes>>

\* readPump: ReadMessage fails, ...
ReadFails(c) ==
    /\ reader[c] = "read"
    /\ ~open[c]
    /\ reader' = [reader EXCEPT ![c] = "unregister"]
    /\ UNCHANGED <<hubVars, register, unregister, broadcast, ctx, writer, open,
                   send, closes>>

\* ... Unregister, and the connection is closed.
Leave(c) ==
    /\ reader[c] = "unregister"
    /\ Unregister(c)
    /\ reader' = [reader EXCEPT ![c] = "done"]
    /\ open' = [open EXCEPT ![c] = FALSE]
    /\ UNCHANGED <<hubVars, register, broadcast, ctx, writer, send, closes>>

\* writePump: a message is written, ...
Write(c) ==
    /\ writer[c] = "write"
    /\ open[c]
    /\ send[c] > 0
    /\ send' = [send EXCEPT ![c] = @ - 1]
    /\ UNCHANGED <<hubVars, pumpVars, register, unregister, broadcast, ctx,
                   closes>>

\* ... or a message or a ping cannot be, or the hub has closed Send.
WriterEnds(c) ==
    /\ writer[c] = "write"
    /\ ~open[c] \/ (closes[c] > 0 /\ send[c] = 0)
    /\ writer' = [writer EXCEPT ![c] = "done"]
    /\ open' = [open EXCEPT ![c] = FALSE]
    /\ send' = [send EXCEPT ![c] = IF @ > 0 THEN @ - 1 ELSE 0]
    /\ UNCHANGED <<hubVars, register, unregister, broadcast, ctx, reader,
                   closes>>

-----------------------------------------------------------------------------
(* Hub.Run.                                                                *)

\* The "safe close" of the Send of each client in S: one message is taken out
\* first, and a closed channel is recognised only when it is empty.
CloseSend(S) ==
    /\ closes' = [c \in Client |->
                     IF c \in S /\ (send[c] > 0 \/ closes[c] = 0)
                     THEN closes[c] + 1 ELSE closes[c]]
    /\ send' = [c \in Client |->
                   IF c \in S /\ send[c] > 0 THEN send[c] - 1 ELSE send[c]]

TakeRegister ==
    /\ hub = "select"
    /\ register # <<>>
    /\ clients' = clients \cup {Head(register)}
    /\ register' = Tail(register)
    /\ UNCHANGED <<hub, burst, todo, dropping, pumpVars, unregister, broadcast,
                   ctx, send, closes>>

\* Variant: the client is not looked up before it is removed and closed.
TakeUnregisterBlindly ==
    /\ hub = "select"
    /\ unregister # <<>>
    /\ clients' = clients \ {Head(unregister)}
    /\ CloseSend({Head(unregister)})
    /\ unregister' = Tail(unregister)
    /\ burst' = 0
    /\ UNCHANGED <<hub, todo, dropping, pumpVars, register, broadcast, ctx>>

TakeUnregister ==
    /\ hub = "select"
    /\ unregister # <<>>
    /\ clients' = clients \ {Head(unregister)}
    /\ CloseSend(clients \cap {Head(unregister)})
    /\ unregister' = Tail(unregister)
    /\ burst' = 0
    /\ UNCHANGED <<hub, todo, dropping, pumpVars, register, broadcast, ctx>>

\* The select chooses at random among the queues that have something.
TakeBroadcast ==
    /\ hub = "select"
    /\ broadcast > 0
    /\ unregister = <<>> \/ burst < Burst
    /\ burst' = IF unregister = <<>> THEN 0 ELSE burst + 1
    /\ broadcast' = broadcast - 1
    /\ todo' = clients
    /\ hub' = IF clients = {} THEN "select" ELSE "send"
    /\ UNCHANGED <<clients, dropping, pumpVars, register, unregister, ctx, send,
                   closes>>

\* Variant: a worker skips a full Send.
DeliverOrSkip(c) ==
    /\ c \in todo
    /\ Cardinality(dropping) < PoolSize
    /\ todo' = todo \ {c}
    /\ send' = IF send[c] < SendCap THEN [send EXCEPT ![c] = @ + 1] ELSE send
    /\ UNCHANGED <<hub, clients, burst, dropping, pumpVars, register,
                   unregister, broadcast, ctx, closes>>

\* broadcastParallel: a free worker sends the message; one that finds Send
\* full is busy with Unregister from then on.  A panic on a closed Send is
\* recovered.
Deliver(c) ==
    /\ c \in todo
    /\ Cardinality(dropping) < PoolSize
    /\ todo' = todo \ {c}
    /\ send' = IF closes[c] = 0 /\ send[c] < SendCap
               THEN [send EXCEPT ![c] = @ + 1] ELSE send
    /\ dropping' = IF closes[c] = 0 /\ send[c] >= SendCap
                   THEN dropping \cup {c} ELSE dropping
    /\ UNCHANGED <<hub, clients, burst, pumpVars, register, unregister,
                   broadcast, ctx, closes>>

Drop(c) ==
    /\ c \in dropping
    /\ Unregister(c)
    /\ dropping' = dropping \ {c}
    /\ UNCHANGED <<hub, clients, burst, todo, pumpVars, register, broadcast,
                   ctx, send, closes>>

\* Both wait groups: the hub waits for the last worker.
Delivered ==
    /\ hub = "send"
    /\ todo = {}
    /\ dropping = {}
    /\ hub' = "select"
    /\ UNCHANGED <<clients, burst, todo, dropping, pumpVars, register,
                   unregister, broadcast, ctx, send, closes>>

\* Variant: the map is emptied and nothing is closed.
HubStopsOpen ==
    /\ hub = "select"
    /\ ctx
    /\ clients' = {}
    /\ hub' = "stopped"
    /\ UNCHANGED <<burst, todo, dropping, pumpVars, register, unregister,
                   broadcast, ctx, send, closes>>

HubStops ==
    /\ hub = "select"
    /\ ctx
    /\ CloseSend(clients)
    /\ clients' = {}
    /\ hub' = "stopped"
    /\ UNCHANGED <<burst, todo, dropping, pumpVars, register, unregister,
                   broadcast, ctx>>

-----------------------------------------------------------------------------

Next ==
    \/ Broadcast \/ Stop
    \/ \E c \in Client :
          \/ Connect(c) \/ Join(c) \/ PeerLeaves(c) \/ ReadFails(c) \/ Leave(c)
          \/ Write(c) \/ WriterEnds(c)
          \/ Deliver(c) \/ Drop(c)
    \/ TakeRegister \/ TakeUnregister \/ TakeBroadcast \/ Delivered \/ HubStops

\* The status task broadcasts every two seconds, and goroutines go on.  A select
\* that comes back to a ready branch takes it in the end, however often it takes
\* another (strong fairness, where broadcasts could go on for ever).  Nobody has
\* to connect, to read what was written, or to stop the hub.
Fairness ==
    /\ WF_vars(Broadcast)
    /\ SF_vars(TakeRegister)
    /\ SF_vars(HubStops)
    /\ WF_vars(TakeUnregister)
    /\ WF_vars(TakeBroadcast)
    /\ WF_vars((\E c \in Client : Deliver(c)) \/ Delivered)
    /\ WF_vars(\E c \in Client : Drop(c))
    /\ WF_vars(\E c \in Client : Join(c))
    /\ WF_vars(\E c \in Client : Leave(c))
    /\ WF_vars(\E c \in Client : ReadFails(c) \/ WriterEnds(c))

Spec == Init /\ [][Next]_vars
FairSpec == Spec /\ Fairness

-----------------------------------------------------------------------------
(* Properties.                                                             *)

\* The Send of a connection is closed at most once, although its pump and any
\* number of workers may ask for its removal, before or after it is registered:
\* a second close would panic with the hub's mutex held.  This holds because a
\* client is queued for registration once and its Send is open while it is
\* queued or in the map; so the workers, who come from the map, never send on a
\* closed channel either.
ClosedOnce == \A c \in Client : closes[c] <= 1
QueuedOnce == \A i, j \in DOMAIN register : register[i] = register[j] => i = j
NotQueuedYet(c) == reader[c] \in {"new", "register"}
QueuedIsNew == \A i \in DOMAIN register :
    LET c == register[i]
    IN  closes[c] = 0 /\ c \notin clients /\ ~NotQueuedYet(c)
MemberOpen == \A c \in clients : closes[c] = 0 /\ ~NotQueuedYet(c)
FreshOpen == \A c \in Client : NotQueuedYet(c) => closes[c] = 0
SendersOpen ==
    /\ todo \cup dropping \subseteq clients
    /\ hub # "send" => todo \cup dropping = {}
HubInv ==
    /\ ClosedOnce
    /\ QueuedOnce
    /\ QueuedIsNew
    /\ MemberOpen
    /\ FreshOpen
    /\ SendersOpen

\* Whoever leaves the map, by its own pump, as too slow, or at the end, has its
\* Send closed in the same step, so that its writePump ends.
LeaversClosed == [][\A c \in clients \ clients' : closes'[c] = 1]_vars

\* A broadcast worker waits for room in the unregister queue, the hub for the
\* worker: until the context is done, nobody empties that queue again.
Clogged ==
    /\ hub = "send"
    /\ dropping # {}
    /\ Len(unregister) = UnregCap
    /\ ~ctx

\* A connection whose reader has gone does not stay in the map, even when its
\* unregistration overtook its registration, unless the hub is clogged.
GoneLeaves ==
    \A c \in Client : (reader[c] = "done") ~> (c \notin clients \/ Clogged)

\* The hub comes back from every broadcast, although its workers wait for a
\* queue that only the hub empties, unless it clogs; and clogged or not, it
\* ends when it is stopped.
HubReturns ==
    /\ (hub = "send") ~> (hub # "send" \/ Clogged)
    /\ ctx ~> (hub = "stopped")
==============================================================================
