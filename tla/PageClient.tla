----------------------------- MODULE PageClient -----------------------------
(***************************************************************************)
(* A browser page of the panel and its live data: the WebSocket client of  *)
(* web/assets/js/websocket.js with its reconnects, and the two fallbacks   *)
(* that poll over HTTP when it fails, an interval on the overview page     *)
(* (html/index.html) and a refresh loop on the page of the inbounds        *)
(* (html/inbounds.html).  JavaScript runs one task at a time, so a step is *)
(* a task: the callback of a socket, of a timer or of an await.            *)
(* What the page shows is a version of the server's data: an answer or a   *)
(* message carries the version that was current when the server wrote it.  *)
(***************************************************************************)
EXTENDS Naturals, Sequences, FiniteSets

CONSTANTS
    MaxAttempts,  \* maxReconnectAttempts (10 in the code)
    MaxPolls,     \* bound: intervals or loops that are told apart
    MaxFlight,    \* bound: asynchronous handlers that are under way at once
    MaxWire,      \* bound: messages between the server and the page
    MaxVer,       \* bound: changes of the server's data
    MaxFaults     \* bound: times the server goes away or a connection is cut

ASSUME BoundsAssumption ==
    /\ MaxAttempts \in Nat \ {0} /\ MaxPolls \in Nat \ {0}
    /\ MaxFlight \in Nat \ {0}   /\ MaxWire \in Nat \ {0}
    /\ MaxVer \in Nat            /\ MaxFaults \in Nat

VARIABLES
    page,         \* which page is open: "index" or "inbounds"
    refresh,      \* isRefreshEnabled of the inbounds page (always on for index)
    mounted,      \* mounted() has come to wsClient.connect()
    thrown,       \* new WebSocket threw inside mounted(), before any listener
    ws,           \* readyState of the newest socket, "none" before the first
    isConnected,
    attempts,     \* reconnectAttempts
    timers,       \* setTimeout(connect) that have not fired
    polls,        \* intervals, or loops between two requests
    flight,       \* per slot: an asynchronous handler between two of its awaits
    shown,        \* the version of the data the page displays
    wire,         \* messages on the open connection, oldest first
    up, ver,      \* the server answers; the version of its data
    faults

client == <<mounted, thrown, ws, isConnected, attempts, timers>>
data == <<flight, shown, wire>>
server == <<up, ver, faults>>
vars == <<page, refresh, client, polls, data, server>>

Slots == 1 .. MaxFlight
Vers == 0 .. MaxVer

\* A handler: who started it, whether it has its data, and which version.
Handler == [by: {"none", "mount", "poll", "push"}, has: BOOLEAN, ver: Vers]
Free == [by |-> "none", has |-> FALSE, ver |-> 0]
Request(who) == [by |-> who, has |-> FALSE, ver |-> 0]
Holding(who, v) == [by |-> who, has |-> TRUE, ver |-> v]

TypeOK ==
    /\ page \in {"index", "inbounds"}
    /\ refresh \in BOOLEAN /\ (page = "index" => refresh)
    /\ mounted \in BOOLEAN /\ thrown \in BOOLEAN /\ isConnected \in BOOLEAN
    /\ ws \in {"none", "connecting", "open", "closed"}
    /\ attempts \in 0 .. MaxAttempts /\ timers \in Nat
    /\ polls \in 0 .. MaxPolls
    /\ flight \in [Slots -> Handler]
    /\ shown \in Vers /\ ver \in Vers /\ wire \in Seq(Vers) /\ Len(wire) <= MaxWire
    /\ up \in BOOLEAN /\ faults \in 0 .. MaxFaults

Busy(s) == flight[s].by # "none"
By(who) == {s \in Slots : flight[s].by = who}
HasSlot == \E s \in Slots : ~Busy(s)
NewSlot == CHOOSE s \in Slots : ~Busy(s)
Begin(handler) == HasSlot /\ flight' = [flight EXCEPT ![NewSlot] = handler]

(***************************************************************************)
(* The fallbacks.  Each call starts one more interval or loop: neither     *)
(* page remembers that it polls already.                                   *)
(***************************************************************************)
OneMore(n) == IF n < MaxPolls THEN n + 1 ELSE n
startPolling == IF refresh THEN OneMore(polls) ELSE polls

-----------------------------------------------------------------------------
(* The page is opened.  Its first request is out; the refresh loop of the  *)
(* inbounds page is a choice of its user.                                  *)

Init ==
    /\ page \in {"index", "inbounds"}
    /\ refresh \in {r \in BOOLEAN : page = "index" => r}
    /\ mounted = FALSE /\ thrown = FALSE
    /\ ws = "none" /\ isConnected = FALSE /\ attempts = 0 /\ timers = 0 /\ polls = 0
    /\ flight = [s \in Slots |-> IF s = 1 THEN Request("mount") ELSE Free]
    /\ shown = 0 /\ wire = <<>>
    /\ up = TRUE /\ ver = 0 /\ faults = 0

Live == ws \in {"connecting", "open"}

\* connect(): the constructor returns a socket that is connecting, or throws;
\* the "error" it emits then is lost on nobody but mounted(), which adds its
\* listeners after the call.
connect ==
    IF Live THEN UNCHANGED <<ws, thrown, polls>>
    ELSE \/ ws' = "connecting" /\ UNCHANGED <<thrown, polls>>
         \/ UNCHANGED ws /\ IF mounted THEN polls' = startPolling /\ UNCHANGED thrown
                                       ELSE thrown' = TRUE /\ UNCHANGED polls

\* index.html awaits its first status before it connects, inbounds.html does not.
Mount ==
    /\ ~mounted
    /\ page = "index" => By("mount") = {}
    /\ mounted' = TRUE
    /\ connect
    /\ UNCHANGED <<page, refresh, isConnected, attempts, timers, data, server>>

onopen ==
    /\ ws = "connecting" /\ up
    /\ ws' = "open" /\ isConnected' = TRUE /\ attempts' = 0
    /\ UNCHANGED <<page, refresh, mounted, thrown, timers, polls, data, server>>

\* Variant: the attempts are not limited.
ReconnectAlways == attempts' = attempts + 1 /\ timers' = timers + 1

\* Variant: the error handler schedules a reconnect as well.
ReconnectTwice ==
    IF attempts < MaxAttempts
    THEN attempts' = attempts + 1 /\ timers' = timers + 2
    ELSE UNCHANGED <<attempts, timers>>

\* "disconnected" is emitted before the attempt is counted, so that the last
\* attempt has been made when the page falls back.
Reconnect ==
    IF attempts < MaxAttempts
    THEN attempts' = attempts + 1 /\ timers' = timers + 1
    ELSE UNCHANGED <<attempts, timers>>

CloseFallback(n) == IF attempts >= MaxAttempts /\ refresh THEN OneMore(n) ELSE n

\* The browser fires "error" and "close" in one task when a connection fails.
onerrorThenClose ==
    /\ ws' = "closed" /\ isConnected' = FALSE /\ wire' = <<>>
    /\ polls' = CloseFallback(startPolling)
    /\ Reconnect

\* A close without an error: the peer says goodbye, or a message was too large.
oncloseOnly ==
    /\ ws' = "closed" /\ isConnected' = FALSE /\ wire' = <<>>
    /\ polls' = CloseFallback(polls)
    /\ Reconnect

ConnectFails ==
    /\ ws = "connecting" /\ ~up
    /\ onerrorThenClose
    /\ UNCHANGED <<page, refresh, mounted, thrown, flight, shown, server>>

\* The server has gone: the connection breaks, with an error or without.
Breaks ==
    /\ ws = "open" /\ ~up
    /\ onerrorThenClose \/ oncloseOnly
    /\ UNCHANGED <<page, refresh, mounted, thrown, flight, shown, server>>

\* The hub evicts a slow client, or onmessage closes for a message of over 10 MB.
Cut ==
    /\ ws = "open" /\ up /\ faults < MaxFaults
    /\ faults' = faults + 1
    /\ oncloseOnly
    /\ UNCHANGED <<page, refresh, mounted, thrown, flight, shown, up, ver>>

TimerFires ==
    /\ timers > 0
    /\ timers' = timers - 1
    /\ connect
    /\ UNCHANGED <<page, refresh, mounted, isConnected, attempts, data, server>>

-----------------------------------------------------------------------------
(* Polling.                                                                *)

\* Variant: setTimeout where setInterval is meant.
IntervalTickOnce ==
    /\ page = "index" /\ polls > 0
    /\ polls' = polls - 1
    /\ IF isConnected THEN UNCHANGED flight ELSE Begin(Request("poll"))
    /\ UNCHANGED <<page, refresh, client, shown, wire, server>>

\* Variant: the interval is not cleared.
IntervalTickForever ==
    /\ page = "index" /\ polls > 0
    /\ IF isConnected THEN UNCHANGED flight ELSE Begin(Request("poll"))
    /\ UNCHANGED <<page, refresh, client, polls, shown, wire, server>>

\* index.html: an interval goes on until it finds the socket connected, and
\* asks again whether or not its last request was answered.
IntervalTick ==
    /\ page = "index" /\ polls > 0
    /\ IF isConnected
       THEN polls' = polls - 1 /\ UNCHANGED flight
       ELSE Begin(Request("poll")) /\ UNCHANGED polls
    /\ UNCHANGED <<page, refresh, client, shown, wire, server>>

\* Variant: a loop that rests while the socket is connected, as an interval does.
LoopTickUnlessConnected ==
    /\ page = "inbounds" /\ polls > 0
    /\ IF refresh /\ ~isConnected
       THEN polls' = polls - 1 /\ Begin(Request("poll"))
       ELSE polls' = (IF refresh THEN polls ELSE polls - 1) /\ UNCHANGED flight
    /\ UNCHANGED <<page, refresh, client, shown, wire, server>>

\* inbounds.html: a loop goes on while the user wants it, connected or not, and
\* is at its request (a handler in flight) or asleep (counted in polls).
LoopTick ==
    /\ page = "inbounds" /\ polls > 0
    /\ polls' = polls - 1
    /\ IF refresh THEN Begin(Request("poll")) ELSE UNCHANGED flight
    /\ UNCHANGED <<page, refresh, client, shown, wire, server>>

toggleRefresh ==
    /\ page = "inbounds"
    /\ refresh' = ~refresh
    /\ polls' = IF refresh' THEN OneMore(polls) ELSE polls
    /\ UNCHANGED <<page, client, data, server>>

\* The server reads its data for a request.
Answer(s) ==
    /\ Busy(s) /\ ~flight[s].has /\ up
    /\ flight' = [flight EXCEPT ![s] = Holding(@.by, ver)]
    /\ UNCHANGED <<page, refresh, client, polls, shown, wire, server>>

\* A handler is over; that of a refresh loop leaves its loop asleep.
Done(s) ==
    /\ flight' = [flight EXCEPT ![s] = Free]
    /\ polls' = IF page = "inbounds" /\ flight[s].by = "poll" THEN OneMore(polls) ELSE polls

RequestFails(s) ==
    /\ Busy(s) /\ flight[s].by # "push" /\ ~up
    /\ Done(s)
    /\ UNCHANGED <<page, refresh, client, shown, wire, server>>

\* setStatus and setInbounds replace what is shown with what the handler holds,
\* in the order in which the handlers come out of their last await.
Apply(s) ==
    /\ Busy(s) /\ flight[s].has
    /\ shown' = flight[s].ver
    /\ Done(s)
    /\ UNCHANGED <<page, refresh, client, wire, server>>

-----------------------------------------------------------------------------
(* Messages.  The status is shown at once; the handler of "inbounds"       *)
(* first awaits a request for each tunnel inbound.                         *)

Broadcast ==
    /\ ws = "open" /\ up /\ Len(wire) < MaxWire
    /\ wire' = Append(wire, ver)
    /\ UNCHANGED <<page, refresh, client, polls, flight, shown, server>>

onmessage ==
    /\ ws = "open" /\ wire # <<>>
    /\ wire' = Tail(wire)
    /\ IF page = "index"
       THEN shown' = Head(wire) /\ UNCHANGED flight
       ELSE Begin(Holding("push", Head(wire))) /\ UNCHANGED shown
    /\ UNCHANGED <<page, refresh, client, polls, server>>

Change ==
    /\ up /\ ver < MaxVer
    /\ ver' = ver + 1
    /\ UNCHANGED <<page, refresh, client, polls, data, up, faults>>

GoesDown ==
    /\ up /\ faults < MaxFaults
    /\ up' = FALSE /\ faults' = faults + 1
    /\ UNCHANGED <<page, refresh, client, polls, data, ver>>

ComesUp ==
    /\ ~up /\ up' = TRUE
    /\ UNCHANGED <<page, refresh, client, polls, data, ver, faults>>

Next ==
    \/ Mount \/ onopen \/ ConnectFails \/ Breaks \/ Cut \/ TimerFires
    \/ IntervalTick \/ LoopTick \/ toggleRefresh
    \/ \E s \in Slots : Answer(s) \/ RequestFails(s) \/ Apply(s)
    \/ Broadcast \/ onmessage
    \/ Change \/ GoesDown \/ ComesUp

\* Timers and network events are delivered, and requests are answered or fail.  The
\* status is broadcast every two seconds.  The inbounds are not for certain: the
\* traffic job returns at once when xray is down, the handlers of clients
\* broadcast nothing, and the hub drops a message of over 1 MB.  When the server
\* goes away and comes back is nobody's promise.
Fairness ==
    /\ WF_vars(Mount) /\ WF_vars(onopen) /\ WF_vars(ConnectFails) /\ WF_vars(Breaks)
    /\ WF_vars(TimerFires) /\ WF_vars(IntervalTick) /\ WF_vars(LoopTick)
    /\ WF_vars(page = "index" /\ Broadcast) /\ WF_vars(onmessage)
    /\ \A s \in Slots : WF_vars(Answer(s)) /\ WF_vars(RequestFails(s)) /\ WF_vars(Apply(s))

Spec == Init /\ [][Next]_vars /\ Fairness

-----------------------------------------------------------------------------

\* At any time there is one socket that may still open, or one timer that will
\* make one, never both and never two: a server that comes back is not met by
\* two connections of one page (connect and onclose of websocket.js).
OneAttempt == timers + (IF Live THEN 1 ELSE 0) <= 1

Polling == polls > 0 \/ By("poll") # {}

\* A page whose client tries no more has made all its attempts and polls instead,
\* unless its user has switched the loop off or the constructor itself threw
\* before mounted() listened (the fallbacks of index.html and inbounds.html).
NeverDark ==
    mounted /\ ~thrown /\ ~Live /\ timers = 0 /\ refresh => Polling

\* What keeps a page up to date: on the overview its socket or its intervals, on
\* the inbounds page a loop of the user's, or a server that goes on broadcasting.
Looping == <>[](page = "inbounds" /\ refresh /\ Polling)
Fed     == []<><<Broadcast>>_vars

\* However handlers overtake one another, a page ends with the data the server
\* has, once the server stays up: the overview always, the inbounds page if it
\* polls or is sent broadcasts for ever.
Converges ==
    /\ <>[](up /\ ~thrown)
    /\ <>[](page = "index") \/ Looping \/ Fed
    => <>[](shown = ver)

\* Intervals of the overview page end when its socket stays connected, however
\* many errors have started them.
IntervalsEnd == <>[](page = "index" /\ isConnected) => <>[](polls = 0)
=============================================================================
