-------------------------- MODULE PageClientProofs --------------------------
(***************************************************************************)
(* Proofs about PageClient, for any number of attempts, requests, messages *)
(* and faults: the types, that a page makes one attempt at a time, and     *)
(* that it never ends without a connection, an attempt or a poll.          *)
(***************************************************************************)
EXTENDS PageClient, TLAPS

\* What the client knows of its socket: before the first one there is no timer,
\* a constructor that threw in mounted() leaves no socket for ever, and the flag
\* isConnected is the state of the newest socket.
SocketInv ==
    /\ isConnected <=> ws = "open"
    /\ ws = "none" => timers = 0
    /\ mounted /\ ws = "none" => thrown
    /\ thrown => mounted /\ ws = "none"
    /\ ~mounted => ws = "none"

\* A closed socket without a timer leaves an interval, which outlives its
\* requests, or a loop, which is at its request or asleep.
FallbackInv ==
    ws = "closed" /\ timers = 0 /\ refresh =>
        IF page = "index" THEN polls > 0 ELSE Polling

IInv == TypeOK /\ OneAttempt /\ SocketInv /\ FallbackInv

-----------------------------------------------------------------------------

LEMMA OneMoreType == ASSUME NEW n \in 0 .. MaxPolls
                     PROVE  OneMore(n) \in 0 .. MaxPolls /\ OneMore(n) > 0
BY BoundsAssumption DEF OneMore

LEMMA BeginType ==
    ASSUME TypeOK, NEW h \in Handler, Begin(h)
    PROVE  /\ flight' \in [Slots -> Handler]
           /\ NewSlot \in Slots /\ flight'[NewSlot] = h
           /\ \A s \in Slots : Busy(s) => flight'[s] = flight[s]
BY DEF TypeOK, Begin, HasSlot, NewSlot, Busy

LEMMA HandlerTypes ==
    ASSUME NEW v \in Vers
    PROVE  /\ Request("poll") \in Handler /\ Request("mount") \in Handler
           /\ Holding("push", v) \in Handler /\ Free \in Handler
BY BoundsAssumption DEF Request, Holding, Free, Handler, Vers

\* Polls that go on: a handler of a loop stays or leaves its loop asleep.
LEMMA DonePolls ==
    ASSUME TypeOK, NEW s \in Slots, Busy(s), Done(s)
    PROVE  /\ flight' \in [Slots -> Handler] /\ polls' \in 0 .. MaxPolls
           /\ polls > 0 => polls' > 0
           /\ page = "inbounds" /\ Polling => Polling'
<1>1. flight' \in [Slots -> Handler] /\ polls' \in 0 .. MaxPolls /\ (polls > 0 => polls' > 0)
  BY OneMoreType, HandlerTypes, BoundsAssumption DEF TypeOK, Done, Vers
<1>2. ASSUME page = "inbounds", Polling PROVE Polling'
  <2>1. CASE flight[s].by = "poll"
    <3>1. polls' > 0
      BY <1>2, <2>1, OneMoreType DEF Done, TypeOK
    <3> QED BY <3>1 DEF Polling
  <2>2. CASE flight[s].by # "poll"
    <3>1. polls' = polls /\ flight' = [flight EXCEPT ![s] = Free]
      BY <2>2 DEF Done
    <3>2. By("poll") \subseteq By("poll")'
      BY <3>1, <2>2 DEF By, TypeOK
    <3> QED BY <3>1, <3>2, <1>2 DEF Polling
  <2> QED BY <2>1, <2>2
<1> QED BY <1>1, <1>2

\* An event of the socket changes what the client knows, and what it starts.
LEMMA CloseStep ==
    ASSUME IInv, NEW n \in 0 .. MaxPolls, Live,
           ws' = "closed", isConnected' = FALSE, polls' = CloseFallback(n), Reconnect,
           UNCHANGED <<page, refresh, mounted, thrown>>
    PROVE  /\ attempts' \in 0 .. MaxAttempts /\ timers' \in Nat /\ polls' \in 0 .. MaxPolls
           /\ OneAttempt' /\ SocketInv' /\ FallbackInv'
<1>1. timers = 0
  BY DEF IInv, OneAttempt, TypeOK
<1>2. polls' \in 0 .. MaxPolls
  BY OneMoreType DEF CloseFallback
<1>3. \/ attempts' = attempts + 1 /\ timers' = 1 /\ attempts < MaxAttempts
      \/ attempts >= MaxAttempts /\ UNCHANGED <<attempts, timers>>
  BY <1>1, BoundsAssumption DEF Reconnect, IInv, TypeOK
<1>4. attempts' \in 0 .. MaxAttempts /\ timers' \in Nat /\ OneAttempt'
  BY <1>1, <1>3, BoundsAssumption DEF IInv, TypeOK, OneAttempt, Live
<1>5. SocketInv'
  BY DEF IInv, SocketInv, Live
<1>6. FallbackInv'
  <2>1. SUFFICES ASSUME timers' = 0, refresh' PROVE polls' > 0
    BY DEF FallbackInv, Polling
  <2> QED BY <2>1, <1>3, OneMoreType DEF CloseFallback
<1> QED BY <1>2, <1>4, <1>5, <1>6

\* connect() on a page that has no live socket and no timer left.
LEMMA ConnectStep ==
    ASSUME IInv, connect, ~Live, timers' = 0, mounted' = TRUE,
           mounted \/ ws = "none", ~mounted => ~thrown, mounted => ws = "closed",
           UNCHANGED <<page, refresh, isConnected, attempts, flight>>
    PROVE  /\ ws' \in {"none", "connecting", "open", "closed"}
           /\ thrown' \in BOOLEAN /\ polls' \in 0 .. MaxPolls
           /\ OneAttempt' /\ SocketInv' /\ FallbackInv'
<1>1. CASE ws' = "connecting" /\ UNCHANGED <<thrown, polls>>
  BY <1>1 DEF IInv, TypeOK, OneAttempt, SocketInv, FallbackInv, Live
<1>2. CASE UNCHANGED ws /\ mounted /\ polls' = startPolling /\ UNCHANGED thrown
  <2>1. polls' \in 0 .. MaxPolls /\ (refresh => polls' > 0)
    BY <1>2, OneMoreType DEF startPolling, IInv, TypeOK
  <2> QED BY <1>2, <2>1 DEF IInv, TypeOK, OneAttempt, SocketInv, FallbackInv, Live, Polling
<1>3. CASE UNCHANGED ws /\ ~mounted /\ thrown' = TRUE /\ UNCHANGED polls
  BY <1>3 DEF IInv, TypeOK, OneAttempt, SocketInv, FallbackInv, Live
<1> QED BY <1>1, <1>2, <1>3 DEF connect

\* Steps that leave the client and the polls alone keep what they say.
LEMMA Undisturbed ==
    ASSUME IInv, UNCHANGED <<page, refresh, client>>,
           polls > 0 => polls' > 0,
           page = "inbounds" /\ refresh /\ Polling => Polling'
    PROVE  OneAttempt' /\ SocketInv' /\ FallbackInv'
BY DEF IInv, client, OneAttempt, SocketInv, FallbackInv, Live, TypeOK

-----------------------------------------------------------------------------

LEMMA InitIInv == Init => IInv
<1> SUFFICES ASSUME Init PROVE IInv
  OBVIOUS
<1>1. flight \in [Slots -> Handler]
  BY BoundsAssumption, HandlerTypes DEF Init, Vers
<1>2. wire \in Seq(Vers) /\ Len(wire) <= MaxWire
  BY BoundsAssumption DEF Init
<1>3. shown \in Vers /\ ver \in Vers /\ faults \in 0 .. MaxFaults
        /\ attempts \in 0 .. MaxAttempts /\ timers \in Nat /\ polls \in 0 .. MaxPolls
  BY BoundsAssumption DEF Init, Vers
<1>4. refresh \in BOOLEAN /\ (page = "index" => refresh)
  BY DEF Init
<1>5. TypeOK
  BY <1>1, <1>2, <1>3, <1>4 DEF Init, TypeOK
<1>6. OneAttempt /\ SocketInv /\ FallbackInv
  BY DEF Init, OneAttempt, SocketInv, FallbackInv, Live
<1> QED BY <1>5, <1>6 DEF IInv

LEMMA NextIInv == IInv /\ [Next]_vars => IInv'
<1> SUFFICES ASSUME IInv, [Next]_vars PROVE IInv'
  OBVIOUS
<1> USE DEF client, data, server
<1>a. TypeOK
  BY DEF IInv
<1>b. /\ MaxAttempts \in Nat \ {0} /\ MaxPolls \in Nat \ {0} /\ MaxFlight \in Nat \ {0}
      /\ MaxWire \in Nat \ {0} /\ MaxVer \in Nat /\ MaxFaults \in Nat
  BY BoundsAssumption
<1>1. CASE Mount
  <2>1. ws = "none" /\ timers = 0 /\ ~thrown
    BY <1>1 DEF Mount, IInv, SocketInv
  <2>2. /\ ws' \in {"none", "connecting", "open", "closed"} /\ thrown' \in BOOLEAN
        /\ polls' \in 0 .. MaxPolls /\ OneAttempt' /\ SocketInv' /\ FallbackInv'
    BY <2>1, <1>1, <1>a, ConnectStep DEF Mount, Live, IInv, TypeOK
  <2>3. TypeOK'
    BY <2>2, <1>1, <1>a DEF Mount, TypeOK
  <2> QED BY <2>2, <2>3 DEF IInv
<1>2. CASE onopen
  <2>1. TypeOK'
    BY <1>2, <1>a, <1>b DEF onopen, TypeOK
  <2> QED BY <2>1, <1>2 DEF onopen, IInv, TypeOK, OneAttempt, SocketInv, FallbackInv, Live
<1>3. CASE ConnectFails \/ Breaks \/ Cut
  <2>1. PICK n \in 0 .. MaxPolls :
          /\ ws' = "closed" /\ isConnected' = FALSE /\ wire' = <<>>
          /\ polls' = CloseFallback(n) /\ Reconnect
    <3>1. startPolling \in 0 .. MaxPolls /\ polls \in 0 .. MaxPolls
      BY <1>a, OneMoreType DEF startPolling, TypeOK
    <3> QED BY <3>1, <1>3 DEF ConnectFails, Breaks, Cut, onerrorThenClose, oncloseOnly
  <2>2. /\ attempts' \in 0 .. MaxAttempts /\ timers' \in Nat /\ polls' \in 0 .. MaxPolls
        /\ OneAttempt' /\ SocketInv' /\ FallbackInv'
    BY <2>1, <1>3, CloseStep DEF Live, ConnectFails, Breaks, Cut
  <2>3. /\ UNCHANGED <<page, refresh, mounted, thrown, flight, shown, up, ver>>
        /\ faults' \in 0 .. MaxFaults
    BY <1>3, <1>a, <1>b DEF ConnectFails, Breaks, Cut, TypeOK
  <2>4. wire' \in Seq(Vers) /\ Len(wire') <= MaxWire
    BY <2>1, <1>b
  <2>5. TypeOK'
    BY <2>1, <2>2, <2>3, <2>4, <1>a DEF TypeOK
  <2> QED BY <2>2, <2>5 DEF IInv
<1>4. CASE TimerFires
  <2>1. timers = 1 /\ ~Live /\ ws = "closed" /\ mounted /\ timers' = 0
    BY <1>4 DEF TimerFires, IInv, TypeOK, OneAttempt, SocketInv, Live
  <2>2. /\ ws' \in {"none", "connecting", "open", "closed"} /\ thrown' \in BOOLEAN
        /\ polls' \in 0 .. MaxPolls /\ OneAttempt' /\ SocketInv' /\ FallbackInv'
    BY <2>1, <1>4, ConnectStep DEF TimerFires
  <2>3. TypeOK'
    BY <2>1, <2>2, <1>4, <1>a DEF TimerFires, TypeOK
  <2> QED BY <2>2, <2>3 DEF IInv
<1>5. CASE IntervalTick
  <2>1. CASE isConnected
    <3>1. polls' \in 0 .. MaxPolls /\ UNCHANGED <<page, refresh, client, flight, shown, wire, server>>
      BY <2>1, <1>5, <1>a, <1>b DEF IntervalTick, TypeOK
    <3>2. TypeOK'
      BY <3>1, <1>a DEF TypeOK
    <3>3. ws = "open"
      BY <2>1 DEF IInv, SocketInv
    <3> QED BY <3>1, <3>2, <3>3 DEF IInv, OneAttempt, SocketInv, FallbackInv, Live
  <2>2. CASE ~isConnected
    <3>1. flight' \in [Slots -> Handler] /\ UNCHANGED <<page, refresh, client, polls, shown, wire, server>>
      BY <2>2, <1>5, <1>a, BeginType, HandlerTypes, <1>b DEF IntervalTick, Vers
    <3>2. TypeOK'
      BY <3>1, <1>a DEF TypeOK
    <3>3. page = "index" /\ polls > 0
      BY <1>5 DEF IntervalTick
    <3> QED BY <3>1, <3>2, <3>3, Undisturbed DEF IInv
  <2> QED BY <2>1, <2>2
<1>6. CASE LoopTick
  <2>0. page = "inbounds" /\ polls' = polls - 1 /\ UNCHANGED <<page, refresh, client, shown, wire, server>>
    BY <1>6 DEF LoopTick
  <2>1. polls' \in 0 .. MaxPolls
    BY <1>6, <1>a, <1>b DEF LoopTick, TypeOK
  <2>2. CASE refresh
    <3>1. /\ flight' \in [Slots -> Handler]
          /\ NewSlot \in Slots /\ flight'[NewSlot] = Request("poll")
      BY <2>2, <1>6, <1>a, BeginType, HandlerTypes, <1>b DEF LoopTick, Vers
    <3>2. Polling'
      BY <3>1 DEF Polling, By, Request
    <3>3. TypeOK'
      BY <2>0, <2>1, <3>1, <1>a DEF TypeOK
    <3> QED BY <2>0, <3>2, <3>3 DEF IInv, OneAttempt, SocketInv, FallbackInv, Live
  <2>3. CASE ~refresh
    <3>1. UNCHANGED flight
      BY <2>3, <1>6 DEF LoopTick
    <3>2. TypeOK'
      BY <2>0, <2>1, <3>1, <1>a DEF TypeOK
    <3> QED BY <2>0, <2>3, <3>2 DEF IInv, OneAttempt, SocketInv, FallbackInv, Live
  <2> QED BY <2>2, <2>3
<1>7. CASE toggleRefresh
  <2>1. /\ page = "inbounds" /\ refresh' \in BOOLEAN /\ polls' \in 0 .. MaxPolls
        /\ refresh' => polls' > 0
        /\ UNCHANGED <<page, client, data, server>>
    BY <1>7, <1>a, OneMoreType DEF toggleRefresh, TypeOK
  <2>2. TypeOK'
    BY <2>1, <1>a DEF TypeOK
  <2> QED BY <2>1, <2>2 DEF IInv, OneAttempt, SocketInv, FallbackInv, Live, Polling
<1>8. ASSUME NEW s \in Slots, Answer(s) PROVE IInv'
  <2>1. /\ flight' \in [Slots -> Handler]
        /\ UNCHANGED <<page, refresh, client, polls, shown, wire, server>>
    BY <1>8, <1>a DEF Answer, TypeOK, Handler, Holding
  <2>2. \A t \in Slots : flight'[t].by = flight[t].by
    BY <1>8, <1>a DEF Answer, TypeOK, Holding
  <2>3. TypeOK'
    BY <2>1, <1>a DEF TypeOK
  <2>4. By("poll")' = By("poll")
    BY <2>2 DEF By
  <2>5. OneAttempt' /\ SocketInv' /\ FallbackInv'
    BY <2>1, <2>4, Undisturbed DEF Polling
  <2> QED BY <2>3, <2>5 DEF IInv
<1>9. ASSUME NEW s \in Slots, RequestFails(s) \/ Apply(s) PROVE IInv'
  <2>1. /\ flight' \in [Slots -> Handler] /\ polls' \in 0 .. MaxPolls
        /\ polls > 0 => polls' > 0
        /\ page = "inbounds" /\ Polling => Polling'
    BY <1>9, <1>a, DonePolls DEF RequestFails, Apply
  <2>2. UNCHANGED <<page, refresh, client, wire, server>> /\ shown' \in Vers
    BY <1>9, <1>a DEF RequestFails, Apply, TypeOK, Handler
  <2>3. TypeOK'
    BY <2>1, <2>2, <1>a DEF TypeOK
  <2>4. OneAttempt' /\ SocketInv' /\ FallbackInv'
    BY <2>1, <2>2, Undisturbed
  <2> QED BY <2>3, <2>4 DEF IInv
<1>10. CASE Broadcast
  <2>1. wire' \in Seq(Vers) /\ Len(wire') <= MaxWire
    BY <1>10, <1>a, <1>b DEF Broadcast, TypeOK
  <2>2. UNCHANGED <<page, refresh, client, polls, flight, shown, server>>
    BY <1>10 DEF Broadcast
  <2>3. TypeOK'
    BY <2>1, <2>2, <1>a DEF TypeOK
  <2>4. OneAttempt' /\ SocketInv' /\ FallbackInv'
    BY <2>2, Undisturbed DEF Polling, By
  <2> QED BY <2>3, <2>4 DEF IInv
<1>11. CASE onmessage
  <2>1. Head(wire) \in Vers /\ wire' \in Seq(Vers) /\ Len(wire') <= MaxWire
    BY <1>11, <1>a, <1>b DEF onmessage, TypeOK
  <2>2. UNCHANGED <<page, refresh, client, polls, server>> /\ ws = "open"
    BY <1>11 DEF onmessage
  <2>3. shown' \in Vers /\ flight' \in [Slots -> Handler]
    <3>1. CASE page = "index"
      BY <3>1, <2>1, <1>11, <1>a DEF onmessage, TypeOK
    <3>2. CASE page # "index"
      BY <3>2, <2>1, <1>11, <1>a, HandlerTypes, BeginType DEF onmessage, TypeOK
    <3> QED BY <3>1, <3>2
  <2>4. TypeOK'
    BY <2>1, <2>2, <2>3, <1>a DEF TypeOK
  <2> QED BY <2>2, <2>4 DEF IInv, OneAttempt, SocketInv, FallbackInv, Live
<1>12. CASE Change \/ GoesDown \/ ComesUp
  <2>1. /\ up' \in BOOLEAN /\ ver' \in Vers /\ faults' \in 0 .. MaxFaults
        /\ UNCHANGED <<page, refresh, client, polls, data>>
    <3>1. CASE Change
      BY <3>1, <1>a, <1>b DEF Change, TypeOK, Vers
    <3>2. CASE GoesDown
      <4>1. faults \in 0 .. MaxFaults /\ ver \in Vers
        BY <1>a DEF TypeOK
      <4>2. faults' = faults + 1 /\ faults < MaxFaults
        BY <3>2 DEF GoesDown
      <4>3. faults' \in 0 .. MaxFaults
        BY <4>1, <4>2, <1>b
      <4> QED BY <3>2, <4>1, <4>3 DEF GoesDown
    <3>3. CASE ComesUp
      BY <3>3, <1>a DEF ComesUp, TypeOK
    <3> QED BY <1>12, <3>1, <3>2, <3>3
  <2>2. TypeOK'
    BY <2>1, <1>a DEF TypeOK
  <2>3. OneAttempt' /\ SocketInv' /\ FallbackInv'
    BY <2>1, Undisturbed DEF Polling, By
  <2> QED BY <2>2, <2>3 DEF IInv
<1>13. CASE UNCHANGED vars
  BY <1>13 DEF vars, IInv, TypeOK, OneAttempt, SocketInv, FallbackInv, Live, Polling, By
<1> QED
  BY <1>1, <1>2, <1>3, <1>4, <1>5, <1>6, <1>7, <1>8, <1>9, <1>10, <1>11, <1>12, <1>13 DEF Next

LEMMA InductiveIInv == Spec => []IInv
<1> QED BY InitIInv, NextIInv, PTL DEF Spec

-----------------------------------------------------------------------------

\* The variables of a page and its client keep their types.
THEOREM Types == Spec => []TypeOK
<1>1. IInv => TypeOK
  BY DEF IInv
<1> QED BY <1>1, InductiveIInv, PTL

\* A page never has two connections, nor a timer beside one.
THEOREM SingleAttempt == Spec => []OneAttempt
<1>1. IInv => OneAttempt
  BY DEF IInv
<1> QED BY <1>1, InductiveIInv, PTL

\* A page whose client tries no more polls.
THEOREM FallsBack == Spec => []NeverDark
<1>1. IInv => NeverDark
  BY DEF IInv, TypeOK, SocketInv, FallbackInv, NeverDark, Live, Polling
<1> QED BY <1>1, InductiveIInv, PTL
=============================================================================
