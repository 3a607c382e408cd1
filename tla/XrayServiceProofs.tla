-------------------------- MODULE XrayServiceProofs --------------------------
(***************************************************************************)
(* Invariance proofs for XrayService, for every number of goroutines,      *)
(* process slots and clients and every value of the bounds.                *)
(***************************************************************************)
EXTENDS XrayService, FiniteSetTheorems, TLAPS

(* The disjuncts of Next fall into the steps of RestartXray and the rest;  *)
(* every proof below walks through them in the order of the module.        *)

-----------------------------------------------------------------------------
(* Type correctness.                                                       *)

LEMMA EditType ==
    ASSUME TypeOK, NEW S, NEW F, ApiEdit(S, F)
    PROVE  /\ edits' \in 0..MaxEdit
           /\ want' \in SUBSET Client
           /\ live' \in SUBSET Client
<1>1. S \in SUBSET Client /\ F \in SUBSET S
  BY DEF ApiEdit
<1>2. Cardinality(S) \in Nat
  BY <1>1, XrayServiceAssumption, FS_Subset, FS_CardinalityType
  DEF XrayServiceAssumption
<1>3. edits' \in 0..MaxEdit
  BY <1>2, XrayServiceAssumption DEF ApiEdit, TypeOK, XrayServiceAssumption
<1>4. want' \in SUBSET Client /\ live' \in SUBSET Client
  BY <1>1 DEF ApiEdit, TypeOK
<1> QED
  BY <1>3, <1>4

LEMMA ReturnType ==
    ASSUME TypeOK, NEW t \in Thread, Return(t)
    PROVE  /\ pc' \in [Thread -> Place]
           /\ lock' \in Thread \cup {None}
           /\ snap' \in [Thread -> SUBSET Client]
           /\ kind' \in [Thread -> Kind]
           /\ checkTime' \in 0..2
           /\ phase' \in Phase
BY DEF Return, TypeOK, Place, Kind, Phase

\* The initial states and every step keep each variable in its range.
LEMMA TypeInit == Init => TypeOK
<1> SUFFICES ASSUME Init PROVE TypeOK
  OBVIOUS
<1>1. crashes \in 0..MaxCrash /\ errors \in 0..MaxError /\ edits \in 0..MaxEdit
  BY XrayServiceAssumption DEF Init, XrayServiceAssumption
<1>2. pc \in [Thread -> Place] /\ kind \in [Thread -> Kind]
  BY DEF Init, Place, Kind
<1>3. /\ os \in [Proc -> OsState] /\ snap \in [Thread -> SUBSET Client]
      /\ conf \in SUBSET Client /\ live \in SUBSET Client
      /\ want \in SUBSET Client
  BY DEF Init, OsState
<1>4. p \in Proc \cup {None} /\ lock \in Thread \cup {None} /\ phase \in Phase
  BY DEF Init, Phase
<1>5. need \in BOOLEAN /\ manual \in BOOLEAN
  BY Zenon DEF Init
<1>6. checkTime \in 0..2
  BY DEF Init
<1> QED
  BY <1>1, <1>2, <1>3, <1>4, <1>5, <1>6 DEF TypeOK

LEMMA TypeRestart ==
    ASSUME TypeOK, NEW t \in Thread, RestartXray(t)
    PROVE  TypeOK'
<1> USE DEF procVars, budgetVars, callVars
<1>1. CASE Acquire(t)
  BY <1>1 DEF Acquire, TypeOK, Place
<1>2. CASE GetXrayConfig(t)
  <2>1. /\ edits' \in 0..MaxEdit
        /\ want' \in SUBSET Client
        /\ live' \in SUBSET Client
    BY <1>2, EditType DEF GetXrayConfig
  <2>2. snap' \in [Thread -> SUBSET Client] /\ pc' \in [Thread -> Place]
    BY <1>2, <2>1 DEF GetXrayConfig, Goto, TypeOK, Place
  <2> QED
    BY <1>2, <2>1, <2>2 DEF GetXrayConfig, Goto, TypeOK
<1>3. CASE GetXrayConfigFails(t)
  <2>1. errors' \in 0..MaxError
    BY <1>3, XrayServiceAssumption
    DEF GetXrayConfigFails, TypeOK, XrayServiceAssumption
  <2> QED
    BY <1>3, <2>1, ReturnType DEF GetXrayConfigFails, TypeOK
<1>4. CASE DecideKeep(t)
  BY <1>4, ReturnType DEF DecideKeep, TypeOK
<1>5. CASE DecideReplace(t)
  BY <1>5 DEF DecideReplace, StopProcess, Goto, TypeOK, OsState, Place
<1>6. CASE StartProcess(t)
  BY <1>6 DEF StartProcess, Goto, TypeOK, OsState, Place
<1>7. CASE StartFails(t)
  <2>1. errors' \in 0..MaxError
    BY <1>7, XrayServiceAssumption
    DEF StartFails, TypeOK, XrayServiceAssumption
  <2>2. p' \in Proc \cup {None} /\ conf' \in SUBSET Client
    BY <1>7 DEF StartFails, TypeOK
  <2> QED
    BY <1>7, <2>1, <2>2, ReturnType DEF StartFails, TypeOK
<1>8. CASE StartReturns(t)
  BY <1>8, ReturnType DEF StartReturns, TypeOK
<1> QED
  BY <1>1, <1>2, <1>3, <1>4, <1>5, <1>6, <1>7, <1>8 DEF RestartXray

LEMMA TypeCallers ==
    ASSUME TypeOK, NEW t \in Thread,
           CheckTick(t) \/ NeedTick(t) \/ ForceRestart(t) \/ Reload(t)
    PROVE  TypeOK'
<1> USE DEF procVars, budgetVars, callVars, Enter, TypeOK, Place, Kind, Phase
<1>1. CASE CheckTick(t)
  BY <1>1 DEF CheckTick
<1>2. CASE NeedTick(t)
  BY <1>2 DEF NeedTick
<1>3. CASE ForceRestart(t)
  BY <1>3 DEF ForceRestart
<1>4. CASE Reload(t)
  BY <1>4 DEF Reload
<1> QED
  BY <1>1, <1>2, <1>3, <1>4

LEMMA TypeProcess ==
    ASSUME TypeOK, NEW q \in Proc,
           Spawn(q) \/ SpawnFails(q) \/ Crash(q) \/ Exit(q) \/ Finalize(q)
    PROVE  TypeOK'
<1> USE XrayServiceAssumption
    DEF callVars, ProcessOnly, Dies, TypeOK, OsState, XrayServiceAssumption
<1>1. CASE Spawn(q)
  BY <1>1 DEF Spawn
<1>2. CASE SpawnFails(q)
  BY <1>2 DEF SpawnFails
<1>3. CASE Crash(q)
  BY <1>3 DEF Crash
<1>4. CASE Exit(q)
  BY <1>4 DEF Exit
<1>5. CASE Finalize(q)
  BY <1>5 DEF Finalize
<1> QED
  BY <1>1, <1>2, <1>3, <1>4, <1>5

LEMMA TypePanel ==
    ASSUME TypeOK,
           \/ AdminStop \/ EditClients \/ ResetAllClientTraffics
           \/ BeginShutdown \/ StopCron \/ ExitPanel
    PROVE  TypeOK'
<1> USE DEF procVars, budgetVars, callVars
<1>1. CASE AdminStop
  BY <1>1 DEF AdminStop, StopXray, StopProcess, TypeOK, OsState
<1>2. CASE EditClients
  <2>1. /\ edits' \in 0..MaxEdit
        /\ want' \in SUBSET Client
        /\ live' \in SUBSET Client
    BY <1>2, EditType DEF EditClients
  <2>2. need' \in BOOLEAN
    BY <1>2 DEF EditClients, TypeOK
  <2> QED
    BY <1>2, <2>1, <2>2 DEF EditClients, TypeOK
<1>3. CASE ResetAllClientTraffics
  <2>1. PICK S \in SUBSET (Client \ want) :
            /\ edits + Cardinality(S) <= MaxEdit
            /\ edits' = edits + Cardinality(S)
            /\ want' = want \cup S
    BY <1>3 DEF ResetAllClientTraffics
  <2>2. Cardinality(S) \in Nat
    BY XrayServiceAssumption, FS_Subset, FS_CardinalityType
    DEF XrayServiceAssumption
  <2>3. edits' \in 0..MaxEdit /\ want' \in SUBSET Client
    BY <2>1, <2>2, XrayServiceAssumption DEF TypeOK, XrayServiceAssumption
  <2> QED
    BY <1>3, <2>3 DEF ResetAllClientTraffics, TypeOK
<1>4. CASE BeginShutdown
  BY <1>4 DEF BeginShutdown, StopXray, StopProcess, TypeOK, OsState, Phase
<1>5. CASE StopCron
  BY <1>5 DEF StopCron, TypeOK, Phase
<1>6. CASE ExitPanel
  BY <1>6 DEF ExitPanel, TypeOK, Phase
<1> QED
  BY <1>1, <1>2, <1>3, <1>4, <1>5, <1>6

\* Every variable of the supervision stays in its range.
THEOREM TypeCorrect == Spec => []TypeOK
<1>1. TypeOK /\ [Next]_vars => TypeOK'
  <2> SUFFICES ASSUME TypeOK, [Next]_vars PROVE TypeOK'
    OBVIOUS
  <2>1. CASE Next
    BY <2>1, TypeRestart, TypeCallers, TypeProcess, TypePanel DEF Next
  <2>2. CASE UNCHANGED vars
    BY <2>2 DEF vars, TypeOK
  <2> QED
    BY <2>1, <2>2
<1> QED
  BY TypeInit, <1>1, PTL DEF Spec

-----------------------------------------------------------------------------
(* The mutex and the processes.  ProcessInv is inductive together with     *)
(* TypeOK; OneProcess alone is not: it says nothing of who may start one.  *)

LEMMA ProcessInit == Init => ProcessInv
BY XrayServiceAssumption
DEF Init, ProcessInv, Mutex, OneProcess, SpawnAwaited, StartAlone, Alive,
    XrayServiceAssumption

\* A caller that enters the queue for the mutex is not in the critical section.
LEMMA ProcessCallers ==
    ASSUME TypeOK, ProcessInv, NEW t \in Thread,
           CheckTick(t) \/ NeedTick(t) \/ ForceRestart(t) \/ Reload(t)
    PROVE  ProcessInv'
<1>1. /\ p' = p /\ os' = os
      /\ \/ pc' = pc /\ lock' = lock
         \/ pc[t] = "idle" /\ lock' = lock /\ pc' = [pc EXCEPT ![t] = "lock"]
  BY DEF CheckTick, NeedTick, ForceRestart, Reload, Enter, procVars, callVars
<1>2. CASE pc' = pc /\ lock' = lock
  BY <1>1, <1>2
  DEF ProcessInv, Mutex, OneProcess, SpawnAwaited, StartAlone, Alive
<1>3. CASE /\ pc[t] = "idle" /\ lock' = lock
           /\ pc' = [pc EXCEPT ![t] = "lock"]
  BY <1>1, <1>3
  DEF TypeOK, ProcessInv, Mutex, OneProcess, SpawnAwaited, StartAlone, Alive
<1> QED
  BY <1>1, <1>2, <1>3

\* RestartXray gives the mutex back only when no fork is pending.
LEMMA ProcessReturn ==
    ASSUME TypeOK, ProcessInv, NEW t \in Thread, lock = t, Return(t),
           os' = os,
           EagerSpawn => /\ \A q \in Alive : q = p'
                         /\ \A q \in Proc : os[q] # "spawning"
    PROVE  ProcessInv'
<1>1. /\ lock' = None /\ pc' = [pc EXCEPT ![t] = "idle"]
      /\ None \notin Thread
  BY XrayServiceAssumption DEF Return, XrayServiceAssumption
<1>2. \A u \in Thread : pc'[u] \in {"idle", "lock"}
  BY <1>1 DEF TypeOK, Place, ProcessInv, Mutex
<1>3. Mutex'
  BY <1>1, <1>2 DEF Mutex
<1>4. (EagerSpawn => OneProcess /\ SpawnAwaited /\ StartAlone)'
  BY <1>1, <1>2 DEF OneProcess, SpawnAwaited, StartAlone, Alive
<1> QED
  BY <1>3, <1>4 DEF ProcessInv

LEMMA ProcessRestart ==
    ASSUME TypeOK, ProcessInv, NEW t \in Thread, RestartXray(t)
    PROVE  ProcessInv'
<1> USE DEF procVars, At
<1>n. None \notin Thread \cup Proc
  BY XrayServiceAssumption DEF XrayServiceAssumption
<1>1. CASE Acquire(t)
  <2>1. /\ lock = None /\ lock' = t /\ os' = os /\ p' = p /\ pc[t] = "lock"
        /\ pc' = [pc EXCEPT ![t] = "build"]
    BY <1>1 DEF Acquire
  <2>2. \A u \in Thread : pc[u] \in {"idle", "lock"}
    BY <1>n, <2>1 DEF TypeOK, Place, ProcessInv, Mutex
  <2>3. Mutex'
    BY <2>1, <2>2 DEF TypeOK, Mutex
  <2>4. (EagerSpawn => OneProcess /\ SpawnAwaited /\ StartAlone)'
    BY <2>1, <2>2
    DEF TypeOK, ProcessInv, OneProcess, SpawnAwaited, StartAlone, Alive
  <2> QED
    BY <2>3, <2>4 DEF ProcessInv
<1> SUFFICES ASSUME lock = t, pc[t] \in {"build", "decide", "start", "wait"}
             PROVE  ProcessInv'
  BY <1>1
  DEF RestartXray, GetXrayConfig, GetXrayConfigFails, DecideKeep,
      DecideReplace, StartProcess, StartFails, StartReturns, ProcessInv, Mutex
<1>o. \A u \in Thread \ {t} : pc[u] \in {"idle", "lock"}
  BY DEF TypeOK, Place, ProcessInv, Mutex
<1>2. CASE GetXrayConfig(t)
  <2>1. /\ lock' = lock /\ os' = os /\ p' = p /\ pc[t] = "build"
        /\ pc' = [pc EXCEPT ![t] = "decide"]
    BY <1>2 DEF GetXrayConfig, Goto
  <2> QED
    BY <2>1, <1>o
    DEF TypeOK, ProcessInv, Mutex, OneProcess, SpawnAwaited, StartAlone, Alive
<1>3. CASE GetXrayConfigFails(t)
  <2>1. os' = os /\ p' = p /\ pc[t] = "build" /\ Return(t)
    BY <1>3 DEF GetXrayConfigFails
  <2>2. EagerSpawn => \A q \in Proc : os[q] # "spawning"
    BY <2>1, <1>o DEF ProcessInv, SpawnAwaited
  <2> QED
    BY <2>1, <2>2, ProcessReturn DEF ProcessInv, OneProcess
<1>4. CASE DecideKeep(t)
  <2>1. os' = os /\ p' = p /\ pc[t] = "decide" /\ Return(t)
    BY <1>4 DEF DecideKeep
  <2>2. EagerSpawn => \A q \in Proc : os[q] # "spawning"
    BY <2>1, <1>o DEF ProcessInv, SpawnAwaited
  <2> QED
    BY <2>1, <2>2, ProcessReturn DEF ProcessInv, OneProcess
<1>5. CASE DecideReplace(t)
  <2>1. /\ lock' = lock /\ p' = p /\ pc[t] = "decide" /\ StopProcess
        /\ pc' = [pc EXCEPT ![t] = "start"]
    BY <1>5 DEF DecideReplace, Goto
  <2>2. Mutex'
    BY <2>1, <1>o DEF TypeOK, ProcessInv, Mutex
  <2>3. EagerSpawn => Alive' = {}
    <3> SUFFICES ASSUME EagerSpawn, NEW q \in Proc
                 PROVE  os'[q] \notin {"spawning", "up"}
      BY DEF Alive
    <3>1. os[q] # "spawning"
      BY <2>1, <1>o DEF ProcessInv, SpawnAwaited
    <3>2. os[q] = "up" => q = p
      BY DEF ProcessInv, OneProcess, Alive
    <3> QED
      BY <2>1, <3>1, <3>2, <1>n DEF StopProcess, IsRunning, TypeOK
  <2>4. EagerSpawn => SpawnAwaited'
    BY <2>3 DEF SpawnAwaited, Alive
  <2> QED
    BY <2>2, <2>3, <2>4 DEF ProcessInv, OneProcess, StartAlone
<1>6. CASE StartProcess(t)
  <2>1. PICK q \in Proc : p' = q /\ os' = [os EXCEPT ![q] = "spawning"]
    BY <1>6 DEF StartProcess
  <2>2. /\ lock' = lock /\ pc[t] = "start" /\ pc' = [pc EXCEPT ![t] = "wait"]
    BY <1>6 DEF StartProcess, Goto
  <2>3. Mutex'
    BY <2>2, <1>o DEF TypeOK, ProcessInv, Mutex
  <2>4. \A u \in Thread : pc'[u] # "start"
    BY <2>2, <1>o DEF TypeOK
  <2>5. pc'[t] = "wait"
    BY <2>2 DEF TypeOK
  <2>6. EagerSpawn => OneProcess'
    BY <2>1, <2>2 DEF TypeOK, ProcessInv, StartAlone, OneProcess, Alive
  <2> QED
    BY <2>3, <2>4, <2>5, <2>6 DEF ProcessInv, SpawnAwaited, StartAlone
<1>7. CASE StartFails(t)
  <2>1. os' = os /\ pc[t] = "start" /\ Return(t)
    BY <1>7 DEF StartFails
  <2>2. EagerSpawn => Alive = {}
    BY <2>1 DEF ProcessInv, StartAlone
  <2> QED
    BY <2>1, <2>2, ProcessReturn DEF Alive
<1>8. CASE StartReturns(t)
  <2>1. /\ os' = os /\ p' = p /\ Return(t)
        /\ EagerSpawn => os[p] # "spawning"
    BY <1>8 DEF StartReturns
  <2>2. EagerSpawn => \A q \in Proc : os[q] # "spawning"
    BY <2>1 DEF ProcessInv, OneProcess, Alive
  <2> QED
    BY <2>1, <2>2, ProcessReturn DEF ProcessInv, OneProcess
<1> QED
  BY <1>1, <1>2, <1>3, <1>4, <1>5, <1>6, <1>7, <1>8 DEF RestartXray

\* A step outside RestartXray forks nothing and revives no process.
Shrinks == \A r \in Proc :
    /\ os'[r] = "spawning" => os[r] = "spawning"
    /\ os'[r] = "up" => os[r] \in {"spawning", "up"}

LEMMA ProcessShrink ==
    ProcessInv /\ p' = p /\ lock' = lock /\ pc' = pc /\ Shrinks => ProcessInv'
<1> SUFFICES ASSUME ProcessInv, p' = p, lock' = lock, pc' = pc, Shrinks
             PROVE  ProcessInv'
  OBVIOUS
<1> USE DEF Shrinks
<1>1. Mutex'
  BY DEF ProcessInv, Mutex
<1>2. ASSUME EagerSpawn PROVE OneProcess'
  BY <1>2 DEF ProcessInv, OneProcess, Alive
<1>3. ASSUME EagerSpawn PROVE SpawnAwaited'
  BY <1>3 DEF ProcessInv, SpawnAwaited
<1>4. ASSUME EagerSpawn PROVE StartAlone'
  <2>1. Alive' \subseteq Alive
    BY DEF Alive
  <2> QED
    BY <1>4, <2>1 DEF ProcessInv, StartAlone
<1> QED
  BY <1>1, <1>2, <1>3, <1>4 DEF ProcessInv

LEMMA ProcessOs ==
    ASSUME TypeOK, ProcessInv, NEW q \in Proc,
           Spawn(q) \/ SpawnFails(q) \/ Crash(q) \/ Exit(q) \/ Finalize(q)
    PROVE  ProcessInv'
<1>1. p' = p /\ lock' = lock /\ pc' = pc
  BY DEF Spawn, SpawnFails, Crash, Exit, Finalize, ProcessOnly, callVars
<1>2. \/ os[q] = "spawning" /\ os' = [os EXCEPT ![q] = "up"]
      \/ os' = [os EXCEPT ![q] = "off"]
      \/ os' = [os EXCEPT ![q] = "stopping"]
  BY DEF Spawn, SpawnFails, Crash, Exit, Finalize, Dies
<1>3. Shrinks
  BY <1>2 DEF TypeOK, Shrinks
<1> QED
  BY <1>1, <1>3, ProcessShrink

LEMMA ProcessPanel ==
    ASSUME TypeOK, ProcessInv,
           \/ AdminStop \/ EditClients \/ ResetAllClientTraffics
           \/ BeginShutdown \/ StopCron \/ ExitPanel
    PROVE  ProcessInv'
<1>1. /\ p' = p /\ lock' = lock /\ pc' = pc
      /\ os' = os \/ StopProcess
  BY DEF AdminStop, EditClients, ResetAllClientTraffics, BeginShutdown,
         StopCron, ExitPanel, StopXray, callVars, procVars
<1>2. Shrinks
  BY <1>1 DEF StopProcess, TypeOK, Shrinks
<1> QED
  BY <1>1, <1>2, ProcessShrink

LEMMA ProcessStep == TypeOK /\ ProcessInv /\ [Next]_vars => ProcessInv'
<1> SUFFICES ASSUME TypeOK, ProcessInv, [Next]_vars PROVE ProcessInv'
  OBVIOUS
<1>1. CASE Next
  BY <1>1, ProcessCallers, ProcessRestart, ProcessOs, ProcessPanel DEF Next
<1>2. CASE UNCHANGED vars
  BY <1>2
  DEF vars, ProcessInv, Mutex, OneProcess, SpawnAwaited, StartAlone, Alive
<1> QED
  BY <1>1, <1>2

\* The mutex serialises RestartXray, and with a fork that is over by the time
\* Start returns, no two xray processes are ever alive without one of them
\* having been told to stop.
THEOREM ProcessCorrect == Spec => []ProcessInv
BY TypeCorrect, ProcessInit, ProcessStep, PTL DEF Spec

\* At most one xray process is alive, and StopXray can reach it.
THEOREM AtMostOneProcess == Spec /\ EagerSpawn => []OneProcess
<1> SUFFICES ASSUME EagerSpawn PROVE Spec => []OneProcess
  OBVIOUS
<1>1. ProcessInv => OneProcess
  BY DEF ProcessInv
<1> QED
  BY <1>1, ProcessCorrect, PTL

-----------------------------------------------------------------------------
(* The manual stop.                                                        *)

\* A stop takes the mutex, and whoever takes it next clears the mark.
StopsFree == manual => lock = None

LEMMA StopFree == Spec => []StopsFree
<1>1. Init => StopsFree
  BY DEF Init, StopsFree
<1>2. TypeOK /\ StopsFree /\ [Next]_vars => StopsFree'
  <2> SUFFICES ASSUME TypeOK, StopsFree, [Next]_vars PROVE StopsFree'
    OBVIOUS
  <2> USE DEF StopsFree, procVars, budgetVars, callVars
  <2>1. ASSUME NEW t \in Thread,
               CheckTick(t) \/ NeedTick(t) \/ ForceRestart(t) \/ Reload(t)
        PROVE  lock' = lock /\ manual' = manual
    BY <2>1 DEF CheckTick, NeedTick, ForceRestart, Reload, Enter
  <2>2. ASSUME NEW t \in Thread, RestartXray(t)
        PROVE  ~manual' \/ (manual' = manual /\ lock' \in {lock, None})
    BY <2>2
    DEF RestartXray, Acquire, GetXrayConfig, GetXrayConfigFails, DecideKeep,
        DecideReplace, StartProcess, StartFails, StartReturns, Goto, Return
  <2>3. ASSUME AdminStop \/ BeginShutdown PROVE lock' = None
    BY <2>3 DEF AdminStop, BeginShutdown, StopXray
  <2>4. ASSUME \/ EditClients \/ ResetAllClientTraffics \/ StopCron \/ ExitPanel
               \/ \E q \in Proc : \/ Spawn(q) \/ SpawnFails(q) \/ Crash(q) \/ Exit(q)
                                  \/ Finalize(q)
        PROVE  lock' = lock /\ manual' = manual
    BY <2>4
    DEF EditClients, ResetAllClientTraffics, StopCron, ExitPanel, Spawn, SpawnFails,
        Crash, Exit, Finalize, ProcessOnly
  <2> QED
    BY <2>1, <2>2, <2>3, <2>4 DEF Next, vars
<1> QED
  BY TypeCorrect, <1>1, <1>2, PTL DEF Spec

\* With no job's call waiting for the mutex, an xray that was stopped by hand is
\* brought back only by a request: the flag, or a forced call or a reload.
THEOREM StopRespected == Spec => StopStaysStopped
<1> DEFINE Forces(t) == pc[t] = "lock" /\ kind[t] \in {"force", "boot"} /\ lock' = t
           Step == StayingStopped =>
                      StayingStopped' \/ need' \/ \E t \in Thread : Forces(t)
<1>1. TypeOK /\ StopsFree /\ Mutex /\ [Next]_vars => [Step]_vars
  <2> SUFFICES ASSUME TypeOK, StopsFree, Mutex, Next, StayingStopped PROVE Step
    BY DEF Step
  <2>1. manual /\ ~need /\ Alive = {} /\ lock = None /\ JobsIdle
    BY DEF StayingStopped, StopsFree
  <2> USE DEF procVars, budgetVars, callVars
  <2>2. ASSUME NEW t \in Thread, CheckTick(t) PROVE StayingStopped'
    BY <2>1, <2>2 DEF CheckTick, DidXrayCrash, StayingStopped, JobsIdle, Alive
  <2>3. ASSUME NEW t \in Thread, NeedTick(t) PROVE FALSE
    BY <2>1, <2>3 DEF NeedTick
  <2>4. ASSUME NEW t \in Thread, ForceRestart(t) \/ Reload(t) PROVE StayingStopped'
    <3>1. /\ manual' = manual /\ need' = need /\ os' = os
          /\ pc' = [pc EXCEPT ![t] = "lock"]
          /\ \E k \in {"force", "boot"} : kind' = [kind EXCEPT ![t] = k]
      BY <2>4 DEF ForceRestart, Reload, Enter
    <3>2. JobsIdle'
      BY <2>1, <3>1 DEF JobsIdle, TypeOK
    <3> QED
      BY <2>1, <3>1, <3>2 DEF StayingStopped, Alive
  <2>5. ASSUME NEW t \in Thread, RestartXray(t) PROVE Forces(t)
    <3>1. None \notin Thread
      BY XrayServiceAssumption DEF XrayServiceAssumption
    <3>2. pc[t] \notin {"build", "decide", "start", "wait"}
      BY <2>1, <3>1 DEF Mutex
    <3>3. Acquire(t)
      BY <2>5, <3>2
      DEF RestartXray, GetXrayConfig, GetXrayConfigFails, DecideKeep, DecideReplace,
          StartProcess, StartFails, StartReturns, At
    <3> QED
      BY <2>1, <3>3 DEF Acquire, At, JobsIdle
  <2>6. ASSUME NEW q \in Proc,
               Spawn(q) \/ SpawnFails(q) \/ Crash(q) \/ Exit(q) \/ Finalize(q)
        PROVE  StayingStopped'
    <3>1. manual' = manual /\ need' = need /\ pc' = pc /\ kind' = kind
      BY <2>6 DEF Spawn, SpawnFails, Crash, Exit, Finalize, ProcessOnly
    <3>2. os[q] \notin {"spawning", "up"}
      BY <2>1 DEF Alive
    <3>3. os' = [os EXCEPT ![q] = "off"]
      BY <2>6, <3>2 DEF Spawn, SpawnFails, Crash, Exit, Finalize, Dies
    <3>4. Alive' = {}
      BY <2>1, <3>3 DEF Alive, TypeOK
    <3> QED
      BY <2>1, <3>1, <3>4 DEF StayingStopped, JobsIdle
  <2>7. ASSUME AdminStop \/ BeginShutdown PROVE StayingStopped'
    BY <2>1, <2>7
    DEF AdminStop, BeginShutdown, StopXray, StopProcess, StayingStopped,
        JobsIdle, Alive, TypeOK
  <2>8. ASSUME EditClients PROVE StayingStopped' \/ need'
    BY <2>1, <2>8 DEF EditClients, StayingStopped, JobsIdle, Alive
  <2>9. ASSUME ResetAllClientTraffics PROVE need'
    BY <2>9 DEF ResetAllClientTraffics
  <2>10. ASSUME StopCron \/ ExitPanel PROVE StayingStopped'
    <3>1. manual' = manual /\ need' = need /\ pc' = pc /\ kind' = kind /\ os' = os
      BY <2>10 DEF StopCron, ExitPanel
    <3> QED
      BY <2>1, <3>1 DEF StayingStopped, JobsIdle, Alive
  <2> QED
    BY <2>2, <2>3, <2>4, <2>5, <2>6, <2>7, <2>8, <2>9, <2>10 DEF Next, Step
<1>2. ProcessInv => Mutex
  BY DEF ProcessInv
<1> QED
  BY TypeCorrect, StopFree, ProcessCorrect, <1>1, <1>2, PTL DEF Spec, StopStaysStopped, Step
==============================================================================
