----------------------------- MODULE XrayService -----------------------------
(***************************************************************************)
(* The panel's supervision of the xray-core process: the globals p, lock,  *)
(* isNeedXrayRestart and isManuallyStopped of web/service/xray.go, the OS  *)
(* processes of xray/process.go, the cron jobs that watch them, and the    *)
(* handlers that change the clients of the running process over its API.   *)
(*                                                                         *)
(* A configuration is the set of clients it admits.  want is what          *)
(* GetXrayConfig would generate from the database now, conf is what the    *)
(* current process was started with and live is what it admits after the   *)
(* API calls made since; only the first two are compared by RestartXray.   *)
(***************************************************************************)
EXTENDS Naturals, FiniteSets

CONSTANTS
    Thread,       \* goroutines that may call RestartXray (cron runs, handlers)
    Proc,         \* slots for xray processes; NewProcess takes a free one
    Client,       \* clients of the inbounds
    None,         \* no process, no lock owner
    EagerSpawn,   \* TRUE: cmd.Run has forked by the time Start returns
    MayShutdown,  \* TRUE: the panel may be asked to shut down
    MaxCrash,     \* bound: xray processes that die by themselves
    MaxError,     \* bound: RestartXray calls that fail (config, file, fork)
    MaxEdit       \* bound: client changes made by handlers and jobs

ASSUME XrayServiceAssumption ==
    /\ None \notin Thread \cup Proc
    /\ IsFiniteSet(Client)
    /\ EagerSpawn \in BOOLEAN
    /\ MayShutdown \in BOOLEAN
    /\ MaxCrash \in Nat
    /\ MaxError \in Nat
    /\ MaxEdit \in Nat

VARIABLES
    p,          \* the current process object, or None before the first start
    os,         \* state of the OS process behind each slot
    conf, live, \* clients p was started with (p.GetConfig()) / admits now
    want,       \* clients the database entitles now
    need,       \* isNeedXrayRestart
    manual,     \* isManuallyStopped
    checkTime,  \* CheckXrayRunningJob.checkTime, saturated at 2
    lock,       \* owner of the mutex
    pc, kind, snap, \* per goroutine: place in RestartXray, caller, xrayConfig
    phase,      \* life of the panel's web server
    crashes, errors, edits  \* use of the bounds

procVars   == <<p, os, conf>>
budgetVars == <<crashes, errors, edits>>
callVars   == <<lock, pc, kind, snap>>
vars == <<p, os, conf, live, want, need, manual, checkTime, lock, pc, kind,
          snap, phase, crashes, errors, edits>>

OsState == {"off", "spawning", "up", "stopping"}
Place   == {"idle", "lock", "build", "decide", "start", "wait"}
Kind    == {"boot", "check", "need", "force"}
Phase   == {"boot", "run", "halting", "halted", "exited"}

TypeOK ==
    /\ p \in Proc \cup {None}
    /\ os \in [Proc -> OsState]
    /\ conf \in SUBSET Client
    /\ live \in SUBSET Client
    /\ want \in SUBSET Client
    /\ need \in BOOLEAN
    /\ manual \in BOOLEAN
    /\ checkTime \in 0..2
    /\ lock \in Thread \cup {None}
    /\ pc \in [Thread -> Place]
    /\ kind \in [Thread -> Kind]
    /\ snap \in [Thread -> SUBSET Client]
    /\ phase \in Phase
    /\ crashes \in 0..MaxCrash
    /\ errors \in 0..MaxError
    /\ edits \in 0..MaxEdit

\* cmd.Process is set by the fork and cmd.ProcessState by the wait, so a
\* process that was only sent SIGTERM still counts as running.
IsRunning == p # None /\ os[p] \in {"up", "stopping"}

\* Variant: the crash check forgets the manual stop.
DidXrayCrashOrStop == ~IsRunning

DidXrayCrash == ~IsRunning /\ ~manual

Forced(k) == k \in {"boot", "force"}

\* (*process).Stop: SIGTERM, without waiting for the exit.
StopProcess == os' = IF IsRunning THEN [os EXCEPT ![p] = "stopping"] ELSE os

Init ==
    /\ p = None
    /\ os = [q \in Proc |-> "off"]
    /\ conf = {}
    /\ live = {}
    /\ want \in SUBSET Client
    /\ need = FALSE
    /\ manual = FALSE
    /\ checkTime = 0
    /\ lock = None
    /\ \E t \in Thread :
          /\ pc = [u \in Thread |-> IF u = t THEN "lock" ELSE "idle"]
          /\ kind = [u \in Thread |-> IF u = t THEN "boot" ELSE "force"]
    /\ snap = [u \in Thread |-> {}]
    /\ phase = "boot"
    /\ crashes = 0
    /\ errors = 0
    /\ edits = 0

-----------------------------------------------------------------------------
(* The callers of RestartXray.                                             *)

Enter(t, k) ==
    /\ pc[t] = "idle"
    /\ pc' = [pc EXCEPT ![t] = "lock"]
    /\ kind' = [kind EXCEPT ![t] = k]
    /\ UNCHANGED <<lock, snap>>

JobsRun == phase \in {"run", "halting"}

\* CheckXrayRunningJob.Run, every second.
CheckTick(t) ==
    /\ JobsRun
    /\ pc[t] = "idle"
    /\ \/ /\ ~DidXrayCrash
          /\ checkTime' = 0
          /\ UNCHANGED callVars
       \/ /\ DidXrayCrash
          /\ checkTime = 0
          /\ checkTime' = 1
          /\ UNCHANGED callVars
       \/ /\ DidXrayCrash
          /\ checkTime > 0
          /\ checkTime' = 2
          /\ Enter(t, "check")
    /\ UNCHANGED <<procVars, budgetVars, live, want, need, manual, phase>>

\* The 30 s job: the flag is cleared before RestartXray(false) is called.
NeedTick(t) ==
    /\ JobsRun
    /\ need
    /\ need' = FALSE
    /\ Enter(t, "need")
    /\ UNCHANGED <<procVars, budgetVars, live, want, manual, checkTime, phase>>

\* The restart button, SIGUSR1, the bot's /restart and the geofile update.
ForceRestart(t) ==
    /\ phase # "exited"
    /\ Enter(t, "force")
    /\ UNCHANGED <<procVars, budgetVars, live, want, need, manual, checkTime,
                   phase>>

-----------------------------------------------------------------------------
(* RestartXray, from lock.Lock() to the deferred lock.Unlock().            *)

At(t, place) == phase # "exited" /\ pc[t] = place

Goto(t, place) ==
    /\ pc' = [pc EXCEPT ![t] = place]
    /\ UNCHANGED <<lock, kind>>

\* Return and unlock; the check job then clears its counter, and the server's
\* startTask goes on to schedule the jobs.
Return(t) ==
    /\ pc' = [pc EXCEPT ![t] = "idle"]
    /\ lock' = None
    /\ snap' = [snap EXCEPT ![t] = {}]
    /\ kind' = [kind EXCEPT ![t] = "force"]
    /\ checkTime' = IF kind[t] = "check" THEN 0 ELSE checkTime
    /\ phase' = IF kind[t] = "boot" THEN "run" ELSE phase

\* Variant: RestartXray without the mutex.
AcquireUnlocked(t) ==
    /\ At(t, "lock")
    /\ lock' = t
    /\ pc' = [pc EXCEPT ![t] = "build"]
    /\ manual' = FALSE
    /\ UNCHANGED <<procVars, budgetVars, live, want, need, checkTime, kind,
                   snap, phase>>

Acquire(t) ==
    /\ At(t, "lock")
    /\ lock = None
    /\ lock' = t
    /\ pc' = [pc EXCEPT ![t] = "build"]
    /\ manual' = FALSE
    /\ UNCHANGED <<procVars, budgetVars, live, want, need, checkTime, kind,
                   snap, phase>>

\* Clients S change sides in the database; for those not in F the API call
\* that tells the running process succeeded.  A call fails when there is no
\* process to answer, and AddUser fails for a user who is already there.
ApiEdit(S, F) ==
    /\ S \in SUBSET Client
    /\ F \in SUBSET S
    /\ ~IsRunning => F = S
    /\ (S \ F) \cap live \subseteq want
    /\ edits + Cardinality(S) <= MaxEdit
    /\ edits' = edits + Cardinality(S)
    /\ want' = (want \ S) \cup (S \ want)
    /\ live' = (live \ (S \ F)) \cup ((S \ F) \ want)

\* GetXrayConfig first runs AddTraffic(nil, nil), which renews and disables
\* clients and whose needRestart result is dropped, then reads the database.
GetXrayConfig(t) ==
    /\ At(t, "build")
    /\ \E S \in SUBSET Client : \E F \in SUBSET S : ApiEdit(S, F)
    /\ snap' = [snap EXCEPT ![t] = want']
    /\ Goto(t, "decide")
    /\ UNCHANGED <<procVars, need, manual, checkTime, phase, crashes, errors>>

GetXrayConfigFails(t) ==
    /\ At(t, "build")
    /\ errors < MaxError
    /\ errors' = errors + 1
    /\ Return(t)
    /\ UNCHANGED <<procVars, live, want, need, manual, crashes, edits>>

\* Variants: the comparison without its IsXrayRunning, or without Equals.
UnneededIfEqual(t) == ~Forced(kind[t]) /\ conf = snap[t] /\ ~need
UnneededIfRunning(t) == IsRunning /\ ~Forced(kind[t]) /\ ~need

\* "It does not need to restart Xray".
Unneeded(t) ==
    IsRunning /\ ~Forced(kind[t]) /\ conf = snap[t] /\ ~need

DecideKeep(t) ==
    /\ At(t, "decide")
    /\ Unneeded(t)
    /\ Return(t)
    /\ UNCHANGED <<procVars, budgetVars, live, want, need, manual>>

DecideReplace(t) ==
    /\ At(t, "decide")
    /\ ~Unneeded(t)
    /\ StopProcess
    /\ Goto(t, "start")
    /\ UNCHANGED <<p, conf, budgetVars, live, want, need, manual, checkTime,
                   snap, phase>>

\* p = NewProcess(config); Start writes the file and leaves cmd.Run to a
\* goroutine while it asks the binary for its version.
StartProcess(t) ==
    /\ At(t, "start")
    /\ \E q \in Proc \ {p} :
          /\ os[q] = "off"
          /\ p' = q
          /\ os' = [os EXCEPT ![q] = "spawning"]
    /\ conf' = snap[t]
    /\ live' = snap[t]
    /\ Goto(t, "wait")
    /\ UNCHANGED <<budgetVars, want, need, manual, checkTime, snap, phase>>

\* Start could not write the configuration file: p names a dead object.
StartFails(t) ==
    /\ At(t, "start")
    /\ errors < MaxError
    /\ errors' = errors + 1
    /\ \E q \in Proc \ {p} :
          /\ os[q] = "off"
          /\ p' = q
    /\ conf' = snap[t]
    /\ live' = {}
    /\ Return(t)
    /\ UNCHANGED <<os, want, need, manual, crashes, edits>>

StartReturns(t) ==
    /\ At(t, "wait")
    /\ EagerSpawn => os[p] # "spawning"
    /\ Return(t)
    /\ UNCHANGED <<procVars, budgetVars, live, want, need, manual>>

RestartXray(t) ==
    \/ Acquire(t)
    \/ GetXrayConfig(t) \/ GetXrayConfigFails(t)
    \/ DecideKeep(t) \/ DecideReplace(t)
    \/ StartProcess(t) \/ StartFails(t) \/ StartReturns(t)

\* StopXray takes the lock and gives it back without waiting in between.
StopXray ==
    /\ lock = None
    /\ manual' = TRUE
    /\ StopProcess
    /\ UNCHANGED <<p, conf, budgetVars, live, want, need, checkTime, callVars>>

AdminStop == phase # "exited" /\ StopXray /\ UNCHANGED phase

-----------------------------------------------------------------------------
(* Handlers and jobs that change clients.                                  *)

\* A client is added, edited, renewed or disabled over the API; a call that
\* failed makes the caller ask for a restart.
EditClients ==
    /\ phase # "exited"
    /\ p # None
    /\ \E S \in SUBSET Client : \E F \in SUBSET S :
          /\ S # {}
          /\ ApiEdit(S, F)
          /\ need' = (need \/ F # {})
    /\ UNCHANGED <<procVars, callVars, manual, checkTime, phase, crashes,
                   errors>>

\* ResetAllClientTraffics re-enables rows without the API; its handler asks
\* for a restart instead.
ResetAllClientTraffics ==
    /\ phase # "exited"
    /\ \E S \in SUBSET (Client \ want) :
          /\ S # {}
          /\ edits + Cardinality(S) <= MaxEdit
          /\ edits' = edits + Cardinality(S)
          /\ want' = want \cup S
    /\ need' = TRUE
    /\ UNCHANGED <<procVars, callVars, live, manual, checkTime, phase, crashes,
                   errors>>

-----------------------------------------------------------------------------
(* The operating system and the Go runtime.                                *)

ProcessOnly == UNCHANGED <<p, conf, want, need, manual, checkTime,
                           callVars, phase, edits>>

\* A process that is gone admits nobody.
Dies(q) ==
    /\ os' = [os EXCEPT ![q] = "off"]
    /\ live' = IF q = p THEN {} ELSE live

Spawn(q) ==
    /\ os[q] = "spawning"
    /\ os' = [os EXCEPT ![q] = "up"]
    /\ UNCHANGED <<live, crashes, errors>>
    /\ ProcessOnly

SpawnFails(q) ==
    /\ os[q] = "spawning"
    /\ errors < MaxError
    /\ errors' = errors + 1
    /\ Dies(q)
    /\ UNCHANGED crashes
    /\ ProcessOnly

Crash(q) ==
    /\ os[q] = "up"
    /\ crashes < MaxCrash
    /\ crashes' = crashes + 1
    /\ Dies(q)
    /\ UNCHANGED errors
    /\ ProcessOnly

Exit(q) ==
    /\ os[q] = "stopping"
    /\ Dies(q)
    /\ UNCHANGED <<crashes, errors>>
    /\ ProcessOnly

\* The finalizer set by NewProcess stops a process whose object was dropped.
Finalize(q) ==
    /\ phase # "exited"
    /\ q # p
    /\ os[q] = "up"
    /\ os' = [os EXCEPT ![q] = "stopping"]
    /\ UNCHANGED <<live, crashes, errors>>
    /\ ProcessOnly

-----------------------------------------------------------------------------
(* Server.Stop, called by the signal loop of main.go.                      *)

BeginShutdown ==
    /\ MayShutdown
    /\ phase = "run"
    /\ StopXray
    /\ phase' = "halting"

\* cron.Stop launches no new run but does not wait for those in progress.
StopCron ==
    /\ phase = "halting"
    /\ phase' = "halted"
    /\ UNCHANGED <<procVars, budgetVars, callVars, live, want, need, manual,
                   checkTime>>

\* SIGTERM: the panel exits with its goroutines; its children live on.
ExitPanel ==
    /\ phase = "halted"
    /\ phase' = "exited"
    /\ UNCHANGED <<procVars, budgetVars, callVars, live, want, need, manual,
                   checkTime>>

\* SIGHUP: a new server in the same program calls RestartXray(true).
Reload(t) ==
    /\ phase = "halted"
    /\ phase' = "boot"
    /\ Enter(t, "boot")
    /\ UNCHANGED <<procVars, budgetVars, live, want, need, manual, checkTime>>

-----------------------------------------------------------------------------

Next ==
    \/ \E t \in Thread : CheckTick(t) \/ NeedTick(t) \/ ForceRestart(t)
                         \/ RestartXray(t) \/ Reload(t)
    \/ AdminStop \/ EditClients \/ ResetAllClientTraffics
    \/ \E q \in Proc : Spawn(q) \/ SpawnFails(q) \/ Crash(q) \/ Exit(q)
                       \/ Finalize(q)
    \/ BeginShutdown \/ StopCron \/ ExitPanel

\* Goroutines that hold what they need go on, a mutex in Go is not starved
\* (its starvation mode), cron launches its runs while others are blocked,
\* and a process that was told to stop exits.  People and crashes are not fair.
Fairness ==
    /\ \A t \in Thread :
          /\ SF_vars(Acquire(t))
          /\ WF_vars(GetXrayConfig(t))
          /\ WF_vars(DecideKeep(t) \/ DecideReplace(t))
          /\ WF_vars(StartProcess(t))
          /\ WF_vars(StartReturns(t))
    /\ SF_vars(\E t \in Thread : CheckTick(t))
    /\ SF_vars(\E t \in Thread : NeedTick(t))
    /\ \A q \in Proc : WF_vars(Spawn(q)) /\ WF_vars(Exit(q))

Spec == Init /\ [][Next]_vars
FairSpec == Spec /\ Fairness

-----------------------------------------------------------------------------
(* Properties.                                                             *)

Alive == {q \in Proc : os[q] \in {"spawning", "up"}}

\* At most one xray process is alive and not told to stop, the current one:
\* overlapping cron runs, admin commands and crashes never leave a second
\* process that no later Stop can reach (p is overwritten by RestartXray).
OneProcess == \A q \in Alive : q = p

\* What OneProcess rests on.  The mutex serialises RestartXray from its first
\* step to its last; a fork is only pending while the call that asked for it
\* waits; and nothing is alive when a call is about to start a process.
Mutex == \A t \in Thread :
    lock = t <=> pc[t] \in {"build", "decide", "start", "wait"}
SpawnAwaited == \A q \in Proc :
    os[q] = "spawning" => \E t \in Thread : pc[t] = "wait"
StartAlone == \A t \in Thread : pc[t] = "start" => Alive = {}
ProcessInv ==
    /\ Mutex
    /\ EagerSpawn => OneProcess /\ SpawnAwaited /\ StartAlone

JobsIdle == \A t \in Thread : pc[t] # "idle" => kind[t] \in {"force", "boot"}
StayingStopped == manual /\ ~need /\ JobsIdle /\ Alive = {}

\* An xray that was stopped from the panel stays stopped until someone asks for
\* a restart, with the flag or by a forced call that takes the mutex.  It speaks of
\* a stop that no job is already waiting to undo: the crash check reads
\* DidXrayCrash before it waits for the mutex (check_xray_running_job.go:23), and
\* RestartXray does not look at isManuallyStopped again, so that one does undo it.
StopStaysStopped ==
    [][StayingStopped =>
         \/ StayingStopped'
         \/ need'
         \/ \E t \in Thread : pc[t] = "lock" /\ kind[t] \in {"force", "boot"} /\ lock' = t]_vars

\* While the panel serves, an xray that is down and was not stopped by hand
\* is brought back by the crash check, whatever else calls RestartXray.
Supervised ==
    (phase = "run" /\ ~IsRunning /\ ~manual)
        ~> (IsRunning \/ manual \/ phase # "run")

\* A requested restart leaves xray started with the configuration that the
\* database gives, when no further call fails and no further change comes.
RequestLoadsConfig ==
    \A S \in SUBSET Client :
        (need /\ want = S /\ errors = MaxError)
            ~> (want # S \/ phase # "run" \/ (p # None /\ conf = S))

\* web.go:305 and xray.go:263: a restart that was requested because a change
\* did not reach the running xray makes xray admit the clients of the database.
RequestedRestartSyncs ==
    \A S \in SUBSET Client :
        (need /\ want = S /\ errors = MaxError)
            ~> (want # S \/ phase # "run" \/ (IsRunning /\ live = S))

\* web.go:470: Server.Stop "gracefully shuts down the web server, stops Xray,
\* cron jobs": the panel leaves no xray process behind that nobody stops.
ShutdownStopsXray == phase = "exited" => Alive = {}
==============================================================================
