---------------------------- MODULE ControlPanel ----------------------------
(***************************************************************************)
(* Local plugin lifecycle of the plugin daemon on one node.                *)
(*                                                                         *)
(*  - the control panel: LaunchLocalPlugin with its per-plugin granularity *)
(*    lock, the launching semaphore and the once-guarded ready/failed      *)
(*    notifier; ShutdownLocalPluginGracefully; the watchdog's ingest loop  *)
(*    (handleNewLocalPlugins) and evict loop (removeUnusedLocalPlugins);   *)
(*  - the local runtime: Schedule, scheduleLoop, startNewInstance with the *)
(*    first-heartbeat timeout, GracefulStop and Stop(false);               *)
(*  - plugin instances: first heartbeat, process exit, pipe close, monitor;*)
(*  - the plugin manager's installLocal and the uninstall service, which   *)
(*    call into the control panel.                                         *)
(*                                                                         *)
(* Data is abstracted away: a plugin is a model value, a runtime is the    *)
(* index of its construction, an instance is a slot of its runtime.        *)
(***************************************************************************)
EXTENDS Naturals, FiniteSets, RetryBackoff

CONSTANTS
    Plugins,              \* plugin unique identifiers
    InstallRequests,      \* installLocal invocations
    RequestPlugin,        \* [InstallRequests -> Plugins]
    LaunchingConcurrent,  \* capacity of localPluginLaunchingSemaphore
    MaxRuntimes,          \* bound: runtimes constructed in one behaviour
    MaxInstances,         \* bound: instances spawned by one runtime
    NoRuntime             \* model value: nil runtime

ASSUME
    /\ Plugins \cap InstallRequests = {}
    /\ RequestPlugin \in [InstallRequests -> Plugins]
    /\ LaunchingConcurrent \in Nat \ {0}
    /\ {MaxRuntimes, MaxInstances} \subseteq Nat \ {0}

Runtimes == 1..MaxRuntimes
Slots    == 1..MaxInstances

\* The goroutine handleNewLocalPlugins submits for plugin p is named p;
\* an installLocal goroutine is named by its request.
Launchers == Plugins \cup InstallRequests
PluginOf(c) == IF c \in Plugins THEN c ELSE RequestPlugin[c]

VARIABLES
    installed,            \* installedBucket: plugins with an installed marker
    ignoreList,           \* localPluginWatchIgnoreList
    lockHeld,             \* localPluginInstallationLock, per plugin
    semaphore,            \* slots taken in localPluginLaunchingSemaphore
    localPluginRuntimes,  \* plugin -> runtime stored by the ready notifier
    failsRecord,          \* localPluginFailsRecord RetryCount (0 = no record)
    caller,               \* program counter and runtime of each launcher
    built,                \* number of runtimes constructed so far
    runtime,              \* LocalPluginRuntime state of each constructed runtime
    outcome,              \* the control panel's once: pending, ready or failed
    instance,             \* PluginInstance state per runtime and slot
    runlockFault          \* an RUnlock of the unlocked instanceLocker happened

vars == <<installed, ignoreList, lockHeld, semaphore, localPluginRuntimes,
          failsRecord, caller, built, runtime, outcome, instance, runlockFault>>

CallerPC == {"idle", "new", "lock", "sem", "build", "wait", "stopping", "done"}
LoopPC   == {"unbuilt", "check", "wait", "tick", "drain", "closed"}
Proc     == {"none", "live", "closing", "dead"}

\* instanceNums after the single ScaleUp of LaunchLocalPlugin
instanceNums == 1

NoInstance == [started |-> FALSE, proc |-> "none"]
Unbuilt == [pid |-> CHOOSE p \in Plugins : TRUE, scheduleStatus |-> "stopped",
            loop |-> "unbuilt", cur |-> 0, graceful |-> FALSE]

\* r.instances: appended on the first heartbeat, removed on shutdown
Listed(r)  == {k \in Slots : instance[r][k].started /\ instance[r][k].proc # "dead"}
Spawned(r) == {k \in Slots : instance[r][k].proc # "none"}

-----------------------------------------------------------------------------
(* The once-guarded notifier LaunchLocalPlugin mounts on its runtime.      *)

ReleaseLockAndSemaphore(p) ==
    /\ lockHeld' = [lockHeld EXCEPT ![p] = FALSE]
    /\ semaphore' = semaphore - 1

\* mutation variant: the ready handler forgets <-c.localPluginLaunchingSemaphore
OnInstanceReadyKeepsSemaphore(r) ==
    IF outcome[r] = "pending"
    THEN /\ localPluginRuntimes' = [localPluginRuntimes EXCEPT ![runtime[r].pid] = r]
         /\ lockHeld' = [lockHeld EXCEPT ![runtime[r].pid] = FALSE]
         /\ UNCHANGED semaphore
         /\ outcome' = [outcome EXCEPT ![r] = "ready"]
    ELSE UNCHANGED <<localPluginRuntimes, lockHeld, semaphore, outcome>>

\* OnInstanceReadyImpl: store the runtime, release, ch <- nil (first time only)
OnInstanceReady(r) ==
    IF outcome[r] = "pending"
    THEN /\ localPluginRuntimes' = [localPluginRuntimes EXCEPT ![runtime[r].pid] = r]
         /\ ReleaseLockAndSemaphore(runtime[r].pid)
         /\ outcome' = [outcome EXCEPT ![r] = "ready"]
    ELSE UNCHANGED <<localPluginRuntimes, lockHeld, semaphore, outcome>>

\* mutation variant: the failed handler without once.Do
OnInstanceLaunchFailedUnguarded(r) ==
    /\ ReleaseLockAndSemaphore(runtime[r].pid)
    /\ outcome' = [outcome EXCEPT ![r] = "failed"]

\* OnInstanceLaunchFailedImpl: release, ch <- err (first time only)
OnInstanceLaunchFailed(r) ==
    IF outcome[r] = "pending"
    THEN /\ ReleaseLockAndSemaphore(runtime[r].pid)
         /\ outcome' = [outcome EXCEPT ![r] = "failed"]
    ELSE UNCHANGED <<lockHeld, semaphore, outcome>>

\* mutation variant: GracefulStop without stopSchedule
GracefulStopNoStopSchedule(rs) ==
    runtime' = [r \in Runtimes |->
                  IF r \in rs THEN [runtime[r] EXCEPT !.graceful = TRUE] ELSE runtime[r]]

\* PluginRuntime.Stop and stopSchedule of GracefulStop(false) on each runtime
\* of rs; the goroutine ShutdownLocalPluginGracefully submits then drains it.
GracefulStop(rs) ==
    runtime' = [r \in Runtimes |->
                  IF r \in rs
                  THEN [runtime[r] EXCEPT !.scheduleStatus = "stopped", !.graceful = TRUE]
                  ELSE runtime[r]]

\* ShutdownLocalPluginGracefully(p): ErrLocalPluginRuntimeNotFound if absent
ShutdownLocalPluginGracefully(p) ==
    GracefulStop(IF localPluginRuntimes[p] = NoRuntime THEN {} ELSE {localPluginRuntimes[p]})

\* InstallToLocal: the package is copied into installedBucket, which marks
\* the plugin installed, and its manifest is decoded
InstallToLocal(p) == installed' = installed \cup {p}

\* RemoveLocalPlugin: the package is deleted from installedBucket
RemoveLocalPlugin(p) == installed' = installed \ {p}

\* DisableLocalPluginAutoLaunch / EnableLocalPluginAutoLaunch: the plugin
\* is stored in / deleted from localPluginWatchIgnoreList
DisableLocalPluginAutoLaunch(p) == ignoreList' = ignoreList \cup {p}

EnableLocalPluginAutoLaunch(p) == ignoreList' = ignoreList \ {p}

\* the deferred cleanup of a failed installLocal before runtime.Stop(false):
\* RemoveLocalPlugin then EnableLocalPluginAutoLaunch
InstallFailedCleanup(p) ==
    /\ RemoveLocalPlugin(p)
    /\ EnableLocalPluginAutoLaunch(p)

-----------------------------------------------------------------------------
(* LaunchLocalPlugin, run by a launcher c.                                 *)

\* Lock(p), then the ErrorPluginAlreadyLaunched early return, which keeps
\* the lock; installLocal takes that error as success.
LaunchLock(c) ==
    LET p == PluginOf(c) IN
    /\ caller[c].pc = "lock"
    /\ ~lockHeld[p]
    /\ lockHeld' = [lockHeld EXCEPT ![p] = TRUE]
    /\ caller' = [caller EXCEPT ![c].pc =
                    IF localPluginRuntimes[p] = NoRuntime THEN "sem"
                    ELSE IF c \in Plugins THEN "idle" ELSE "done"]
    /\ UNCHANGED <<installed, ignoreList, semaphore, localPluginRuntimes, failsRecord,
                   built, runtime, outcome, instance, runlockFault>>

\* c.localPluginLaunchingSemaphore <- true
LaunchAcquireSemaphore(c) ==
    /\ caller[c].pc = "sem"
    /\ semaphore < LaunchingConcurrent
    /\ semaphore' = semaphore + 1
    /\ caller' = [caller EXCEPT ![c].pc = "build"]
    /\ UNCHANGED <<installed, ignoreList, lockHeld, localPluginRuntimes, failsRecord,
                   built, runtime, outcome, instance, runlockFault>>

\* buildLocalPluginRuntime or InitEnvironment fails: release and return err.
\* The watchdog goroutine just logs; installLocal runs its failure cleanup.
LaunchBuildFailed(c) ==
    LET p == PluginOf(c) IN
    /\ caller[c].pc = "build"
    /\ ReleaseLockAndSemaphore(p)
    /\ IF c \in Plugins
       THEN /\ caller' = [caller EXCEPT ![c].pc = "idle"]
            /\ UNCHANGED <<installed, ignoreList>>
       ELSE /\ caller' = [caller EXCEPT ![c].pc = "done"]
            /\ InstallFailedCleanup(p)
    /\ UNCHANGED <<localPluginRuntimes, failsRecord, built, runtime, outcome,
                   instance, runlockFault>>

\* mutation variant: releaseLockAndSemaphore's unlock done right after Schedule
LaunchScheduledReleasingLock(c) ==
    LET p == PluginOf(c)
        r == built + 1 IN
    /\ caller[c].pc = "build"
    /\ built < MaxRuntimes
    /\ built' = r
    /\ lockHeld' = [lockHeld EXCEPT ![p] = FALSE]
    /\ runtime' = [runtime EXCEPT ![r] = [pid |-> p, scheduleStatus |-> "running",
                                          loop |-> "check", cur |-> 0, graceful |-> FALSE]]
    /\ outcome' = [outcome EXCEPT ![r] = "pending"]
    /\ caller' = [caller EXCEPT ![c] = [pc |-> "wait", rt |-> r]]
    /\ UNCHANGED <<installed, ignoreList, semaphore, localPluginRuntimes,
                   failsRecord, instance, runlockFault>>

\* Build succeeded: mount the notifier, ScaleUp, Schedule (the CAS on a fresh
\* runtime succeeds) and return the runtime and ch to the caller.
LaunchScheduled(c) ==
    LET p == PluginOf(c)
        r == built + 1 IN
    /\ caller[c].pc = "build"
    /\ built < MaxRuntimes
    /\ built' = r
    /\ runtime' = [runtime EXCEPT ![r] = [pid |-> p, scheduleStatus |-> "running",
                                          loop |-> "check", cur |-> 0, graceful |-> FALSE]]
    /\ outcome' = [outcome EXCEPT ![r] = "pending"]
    /\ caller' = [caller EXCEPT ![c] = [pc |-> "wait", rt |-> r]]
    /\ UNCHANGED <<installed, ignoreList, lockHeld, semaphore, localPluginRuntimes,
                   failsRecord, instance, runlockFault>>

-----------------------------------------------------------------------------
(* scheduleLoop of runtime r. Each check reads scheduleStatus, then len of *)
(* r.instances against instanceNums; a tick separates two checks.         *)

\* loop condition false: OnRuntimeStopSchedule deletes the map entry of the
\* plugin, whichever runtime it holds, then waitForAllInstancesToBeShutdown
LoopExit(r) ==
    /\ runtime[r].loop = "check"
    /\ runtime[r].scheduleStatus = "stopped"
    /\ runtime' = [runtime EXCEPT ![r].loop = "drain"]
    /\ localPluginRuntimes' = [localPluginRuntimes EXCEPT ![runtime[r].pid] = NoRuntime]
    /\ UNCHANGED <<installed, ignoreList, lockHeld, semaphore, failsRecord, caller,
                   built, outcome, instance, runlockFault>>

\* startNewInstance up to the wait for the first heartbeat. getInstanceCmd,
\* getInstanceStdio or cmd.Start may fail: OnInstanceLaunchFailed, next tick.
StartNewInstance(r) ==
    LET k == Cardinality(Spawned(r)) + 1 IN
    /\ runtime[r].loop = "check"
    /\ runtime[r].scheduleStatus = "running"
    /\ Cardinality(Listed(r)) < instanceNums
    /\ \/ /\ OnInstanceLaunchFailed(r)
          /\ runtime' = [runtime EXCEPT ![r].loop = "tick"]
          /\ UNCHANGED <<localPluginRuntimes, instance>>
       \/ /\ k <= MaxInstances
          /\ instance' = [instance EXCEPT ![r][k] = [started |-> FALSE, proc |-> "live"]]
          /\ runtime' = [runtime EXCEPT ![r].loop = "wait", ![r].cur = k]
          /\ UNCHANGED <<localPluginRuntimes, lockHeld, semaphore, outcome>>
    /\ UNCHANGED <<installed, ignoreList, failsRecord, caller, built, runlockFault>>

\* gracefullyStopLowestLoadInstance: GracefulStop (no session modelled) = Stop
ScaleDownInstance(r) ==
    /\ runtime[r].loop = "check"
    /\ runtime[r].scheduleStatus = "running"
    /\ Cardinality(Listed(r)) > instanceNums
    /\ \E k \in Listed(r) :
          instance' = [instance EXCEPT ![r][k].proc = IF @ = "live" THEN "closing" ELSE @]
    /\ runtime' = [runtime EXCEPT ![r].loop = "tick"]
    /\ UNCHANGED <<installed, ignoreList, lockHeld, semaphore, localPluginRuntimes,
                   failsRecord, caller, built, outcome, runlockFault>>

\* the instance count matches: nothing to do before the tick
LoopInstancesMatch(r) ==
    /\ runtime[r].loop = "check"
    /\ runtime[r].scheduleStatus = "running"
    /\ Cardinality(Listed(r)) = instanceNums
    /\ runtime' = [runtime EXCEPT ![r].loop = "tick"]
    /\ UNCHANGED <<installed, ignoreList, lockHeld, semaphore, localPluginRuntimes,
                   failsRecord, caller, built, outcome, instance, runlockFault>>

\* mutation variant: wait for launchChannel with no heartbeat timeout
AwaitFirstHeartbeatNoTimeout(r) ==
    /\ runtime[r].loop = "wait"
    /\ instance[r][runtime[r].cur].started
    /\ runtime' = [runtime EXCEPT ![r].loop = "tick", ![r].cur = 0]
    /\ UNCHANGED <<installed, ignoreList, lockHeld, semaphore, localPluginRuntimes,
                   failsRecord, caller, built, outcome, instance, runlockFault>>

\* select in startNewInstance: launchChannel closed by the ready handler, or
\* the MAX_HEARTBEAT_INTERVAL timer (either when both are ready). On timeout
\* instance.Stop(), then the deferred and the loop's OnInstanceLaunchFailed.
AwaitFirstHeartbeat(r) ==
    LET k == runtime[r].cur IN
    /\ runtime[r].loop = "wait"
    /\ runtime' = [runtime EXCEPT ![r].loop = "tick", ![r].cur = 0]
    /\ \/ /\ instance[r][k].started
          /\ UNCHANGED <<lockHeld, semaphore, outcome, instance>>
       \/ /\ instance' = [instance EXCEPT ![r][k].proc = IF @ = "live" THEN "closing" ELSE @]
          /\ OnInstanceLaunchFailed(r)
    /\ UNCHANGED <<installed, ignoreList, localPluginRuntimes, failsRecord, caller,
                   built, runlockFault>>

\* <-ticker.C
LoopTick(r) ==
    /\ runtime[r].loop = "tick"
    /\ runtime' = [runtime EXCEPT ![r].loop = "check"]
    /\ UNCHANGED <<installed, ignoreList, lockHeld, semaphore, localPluginRuntimes,
                   failsRecord, caller, built, outcome, instance, runlockFault>>

\* waitForAllInstancesToBeShutdown returns, OnRuntimeClose
LoopClose(r) ==
    /\ runtime[r].loop = "drain"
    /\ Listed(r) = {}
    /\ runtime' = [runtime EXCEPT ![r].loop = "closed"]
    /\ UNCHANGED <<installed, ignoreList, lockHeld, semaphore, localPluginRuntimes,
                   failsRecord, caller, built, outcome, instance, runlockFault>>

-----------------------------------------------------------------------------
(* A plugin instance k of runtime r: its stdout pump and monitor.          *)

\* first heartbeat line handled by StartStdout (possibly read just before a
\* concurrent Stop closed the pipe): the runtime's OnInstanceReady, then
\* started = true and the append to r.instances
InstanceReady(r, k) ==
    /\ ~instance[r][k].started
    /\ instance[r][k].proc \in {"live", "closing"}
    /\ OnInstanceReady(r)
    /\ instance' = [instance EXCEPT ![r][k].started = TRUE]
    /\ UNCHANGED <<installed, ignoreList, failsRecord, caller, built, runtime, runlockFault>>

\* StartStdout returns: OnInstanceShutdown removes the instance from
\* r.instances and, when it never started, fires OnInstanceLaunchFailed
InstanceShutdown(r, k) ==
    /\ instance' = [instance EXCEPT ![r][k] = [started |-> FALSE, proc |-> "dead"]]
    /\ IF instance[r][k].started
       THEN UNCHANGED <<lockHeld, semaphore, outcome>>
       ELSE OnInstanceLaunchFailed(r)
    /\ UNCHANGED <<installed, ignoreList, localPluginRuntimes, failsRecord, caller,
                   built, runtime, runlockFault>>

\* the plugin process exits by itself: stdout reaches EOF
InstanceExit(r, k) ==
    /\ instance[r][k].proc = "live"
    /\ InstanceShutdown(r, k)

\* Stop() closed the pipes: scanner.Scan breaks, the process is killed
InstancePipeClosed(r, k) ==
    /\ instance[r][k].proc = "closing"
    /\ InstanceShutdown(r, k)

\* Monitor: no heartbeat for MAX_HEARTBEAT_INTERVAL, OnInstanceLaunchFailed
\* (a no-op once the launch resolved), then Stop()
InstanceMonitorTimeout(r, k) ==
    /\ instance[r][k].started
    /\ instance[r][k].proc = "live"
    /\ instance' = [instance EXCEPT ![r][k].proc = "closing"]
    /\ OnInstanceLaunchFailed(r)
    /\ UNCHANGED <<installed, ignoreList, localPluginRuntimes, failsRecord, caller,
                   built, runtime, runlockFault>>

-----------------------------------------------------------------------------
(* Stopping a runtime.                                                     *)

\* stopAndWaitForAllInstancesToBeShutdown: GracefulStop r.instances[0]
\* (listeners are not modelled, so it is Stop) while the list is not empty
GracefulDrainStep(r) ==
    /\ runtime[r].graceful
    /\ \E k \in Listed(r) :
          /\ instance[r][k].proc = "live"
          /\ instance' = [instance EXCEPT ![r][k].proc = "closing"]
    /\ UNCHANGED <<installed, ignoreList, lockHeld, semaphore, localPluginRuntimes,
                   failsRecord, caller, built, runtime, outcome, runlockFault>>

\* the list is empty: the shutdown goroutine closes its channel
GracefulDrainDone(r) ==
    /\ runtime[r].graceful
    /\ Listed(r) = {}
    /\ runtime' = [runtime EXCEPT ![r].graceful = FALSE]
    /\ UNCHANGED <<installed, ignoreList, lockHeld, semaphore, localPluginRuntimes,
                   failsRecord, caller, built, outcome, instance, runlockFault>>

-----------------------------------------------------------------------------
(* The watchdog (startLocalMonitor and removeUnusedLocalPlugins).          *)

\* plugins handleNewLocalPlugins may launch: installed, not ignored, not in
\* the map, fewer than MAX_RETRY_COUNT failures
LaunchCandidates ==
    {p \in installed \ ignoreList :
        /\ localPluginRuntimes[p] = NoRuntime
        /\ failsRecord[p] < MAX_RETRY_COUNT}

\* A tick of handleNewLocalPlugins once the previous one's wg.Wait returned.
\* A candidate with a non-zero wait is launched only if the wait elapsed,
\* which time, not modelled, decides.
WatchdogTick ==
    LET due == {p \in LaunchCandidates : CalculateWaitTime(failsRecord[p]) = 0} IN
    /\ \A p \in Plugins : caller[p].pc = "idle"
    /\ \E elapsed \in SUBSET (LaunchCandidates \ due) :
          caller' = [c \in Launchers |->
                       IF c \in due \cup elapsed THEN [caller[c] EXCEPT !.pc = "lock"]
                       ELSE caller[c]]
    /\ UNCHANGED <<installed, ignoreList, lockHeld, semaphore, localPluginRuntimes,
                   failsRecord, built, runtime, outcome, instance, runlockFault>>

\* err = <-ch in the watchdog goroutine: a failure stores RetryCount + 1,
\* success deletes the record
WatchdogLaunchResult(p) ==
    /\ caller[p].pc = "wait"
    /\ outcome[caller[p].rt] \in {"ready", "failed"}
    /\ failsRecord' = [failsRecord EXCEPT ![p] =
                         IF outcome[caller[p].rt] = "failed" THEN @ + 1 ELSE 0]
    /\ caller' = [caller EXCEPT ![p] = [pc |-> "idle", rt |-> NoRuntime]]
    /\ UNCHANGED <<installed, ignoreList, lockHeld, semaphore, localPluginRuntimes,
                   built, runtime, outcome, instance, runlockFault>>

\* removeUnusedLocalPlugins: every mapped plugin whose installed marker is
\* gone is shut down gracefully
EvictTick ==
    /\ GracefulStop({localPluginRuntimes[p] :
                       p \in {q \in Plugins \ installed : localPluginRuntimes[q] # NoRuntime}})
    /\ UNCHANGED <<installed, ignoreList, lockHeld, semaphore, localPluginRuntimes,
                   failsRecord, caller, built, outcome, instance, runlockFault>>

-----------------------------------------------------------------------------
(* installLocal of request i, and the uninstall service.                   *)

\* DisableLocalPluginAutoLaunch, then InstallToLocal; on its error the
\* deferred cleanup runs (no runtime yet)
InstallBegin(i) ==
    LET p == RequestPlugin[i] IN
    /\ caller[i].pc = "new"
    /\ \/ /\ InstallToLocal(p)
          /\ DisableLocalPluginAutoLaunch(p)
          /\ caller' = [caller EXCEPT ![i].pc = "lock"]
       \/ /\ InstallFailedCleanup(p)
          /\ caller' = [caller EXCEPT ![i].pc = "done"]
    /\ UNCHANGED <<lockHeld, semaphore, localPluginRuntimes, failsRecord, built,
                   runtime, outcome, instance, runlockFault>>

\* select over ch and the PythonEnvInitTimeout timer. ch <- nil is success
\* (the plugin stays in the ignore list); ch <- err or the timer runs the
\* deferred cleanup and runtime.Stop(false): PluginRuntime.Stop, stopSchedule.
\* The timer (120 s by default) is taken not to fire before the schedule
\* loop, started by Schedule, has spawned its first instance.
InstallAwaitLaunch(i) ==
    LET p == RequestPlugin[i]
        r == caller[i].rt IN
    /\ caller[i].pc = "wait"
    /\ \/ /\ outcome[r] = "ready"
          /\ caller' = [caller EXCEPT ![i] = [pc |-> "done", rt |-> NoRuntime]]
          /\ UNCHANGED <<installed, ignoreList, runtime>>
       \/ /\ outcome[r] = "failed" \/ Spawned(r) # {}
          /\ InstallFailedCleanup(p)
          /\ runtime' = [runtime EXCEPT ![r].scheduleStatus = "stopped"]
          /\ caller' = [caller EXCEPT ![i].pc = "stopping"]
    /\ UNCHANGED <<lockHeld, semaphore, localPluginRuntimes, failsRecord, built,
                   outcome, instance, runlockFault>>

\* forcefullyShutdownAllInstances: Stop r.instances[0], then the extra
\* r.instanceLocker.RUnlock() on a lock no reader holds
ForcefulShutdownStep(i) ==
    LET r == caller[i].rt IN
    /\ caller[i].pc = "stopping"
    /\ \E k \in Listed(r) :
          instance' = [instance EXCEPT ![r][k].proc = IF @ = "live" THEN "closing" ELSE @]
    /\ runlockFault' = TRUE
    /\ UNCHANGED <<installed, ignoreList, lockHeld, semaphore, localPluginRuntimes,
                   failsRecord, caller, built, runtime, outcome>>

\* the list is empty: forcefullyShutdownAllInstances and
\* waitForAllInstancesToBeShutdown return, installLocal ends
ForcefulShutdownDone(i) ==
    /\ caller[i].pc = "stopping"
    /\ Listed(caller[i].rt) = {}
    /\ caller' = [caller EXCEPT ![i] = [pc |-> "done", rt |-> NoRuntime]]
    /\ UNCHANGED <<installed, ignoreList, lockHeld, semaphore, localPluginRuntimes,
                   failsRecord, built, runtime, outcome, instance, runlockFault>>

\* UninstallPlugin (or RemovePluginIfNeeded on upgrade): RemoveLocalPlugin,
\* then ShutdownLocalPluginGracefully, whose not-found error is success
Uninstall(p) ==
    /\ RemoveLocalPlugin(p)
    /\ ShutdownLocalPluginGracefully(p)
    /\ UNCHANGED <<ignoreList, lockHeld, semaphore, localPluginRuntimes, failsRecord,
                   caller, built, outcome, instance, runlockFault>>

-----------------------------------------------------------------------------

\* NewControlPanel at daemon start, with whatever markers the bucket holds
Init ==
    /\ installed \in SUBSET Plugins
    /\ ignoreList = {}
    /\ lockHeld = [p \in Plugins |-> FALSE]
    /\ semaphore = 0
    /\ localPluginRuntimes = [p \in Plugins |-> NoRuntime]
    /\ failsRecord = [p \in Plugins |-> 0]
    /\ caller = [c \in Launchers |-> [pc |-> IF c \in Plugins THEN "idle" ELSE "new",
                                      rt |-> NoRuntime]]
    /\ built = 0
    /\ runtime = [r \in Runtimes |-> Unbuilt]
    /\ outcome = [r \in Runtimes |-> "none"]
    /\ instance = [r \in Runtimes |-> [k \in Slots |-> NoInstance]]
    /\ runlockFault = FALSE

LauncherStep(c) ==
    \/ LaunchLock(c)
    \/ LaunchAcquireSemaphore(c)
    \/ LaunchBuildFailed(c)
    \/ LaunchScheduled(c)

ScheduleLoopStep(r) ==
    \/ LoopExit(r)
    \/ StartNewInstance(r)
    \/ ScaleDownInstance(r)
    \/ LoopInstancesMatch(r)
    \/ AwaitFirstHeartbeat(r)
    \/ LoopTick(r)
    \/ LoopClose(r)

InstanceStep(r, k) ==
    \/ InstanceReady(r, k)
    \/ InstanceExit(r, k)
    \/ InstancePipeClosed(r, k)
    \/ InstanceMonitorTimeout(r, k)

Next ==
    \/ \E c \in Launchers : LauncherStep(c)
    \/ \E r \in Runtimes : ScheduleLoopStep(r)
    \/ \E r \in Runtimes, k \in Slots : InstanceStep(r, k)
    \/ \E r \in Runtimes : GracefulDrainStep(r) \/ GracefulDrainDone(r)
    \/ WatchdogTick
    \/ \E p \in Plugins : WatchdogLaunchResult(p)
    \/ EvictTick
    \/ \E i \in InstallRequests :
          InstallBegin(i) \/ InstallAwaitLaunch(i)
          \/ ForcefulShutdownStep(i) \/ ForcefulShutdownDone(i)
    \/ \E p \in Plugins : Uninstall(p)

\* Goroutines that are runnable progress, and timers fire: the schedule
\* loop, the heartbeat timeout, pipe-close EOF, the drains, the watchdog
\* loops and installLocal's select. Blocking lock and semaphore acquisition
\* is strongly fair. The plugin process (heartbeat, exit, hang) and the
\* install and uninstall requests are the environment and get no fairness.
Fairness ==
    /\ \A c \in Launchers :
          /\ SF_vars(LaunchLock(c))
          /\ SF_vars(LaunchAcquireSemaphore(c))
          /\ WF_vars(LaunchBuildFailed(c) \/ LaunchScheduled(c))
    /\ \A r \in Runtimes :
          /\ WF_vars(ScheduleLoopStep(r))
          /\ WF_vars(GracefulDrainStep(r) \/ GracefulDrainDone(r))
          /\ \A k \in Slots : WF_vars(InstancePipeClosed(r, k))
    /\ WF_vars(WatchdogTick)
    /\ \A p \in Plugins : WF_vars(WatchdogLaunchResult(p))
    /\ WF_vars(EvictTick)
    /\ \A i \in InstallRequests :
          WF_vars(InstallAwaitLaunch(i) \/ ForcefulShutdownStep(i) \/ ForcefulShutdownDone(i))

Spec == Init /\ [][Next]_vars /\ Fairness

-----------------------------------------------------------------------------
(* Properties.                                                             *)

TypeOK ==
    /\ installed \subseteq Plugins
    /\ ignoreList \subseteq Plugins
    /\ lockHeld \in [Plugins -> BOOLEAN]
    /\ semaphore \in 0..LaunchingConcurrent
    /\ localPluginRuntimes \in [Plugins -> Runtimes \cup {NoRuntime}]
    /\ failsRecord \in [Plugins -> 0..MAX_RETRY_COUNT]
    /\ caller \in [Launchers -> [pc : CallerPC, rt : Runtimes \cup {NoRuntime}]]
    /\ built \in 0..MaxRuntimes
    /\ runtime \in [Runtimes -> [pid : Plugins, scheduleStatus : {"running", "stopped"},
                                 loop : LoopPC, cur : 0..MaxInstances, graceful : BOOLEAN]]
    /\ outcome \in [Runtimes -> {"none", "pending", "ready", "failed"}]
    /\ instance \in [Runtimes -> [Slots -> [started : BOOLEAN, proc : Proc]]]
    /\ runlockFault \in BOOLEAN

\* Launches between semaphore acquisition and their release: a launcher
\* building its runtime, or a runtime whose once has not fired yet.
SemaphoreHolders ==
    Cardinality({c \in Launchers : caller[c].pc = "build"})
      + Cardinality({r \in Runtimes : outcome[r] = "pending"})

\* localPluginLaunchingSemaphore holds exactly one slot per launch in
\* progress: every path out of LaunchLocalPlugin (build error, environment
\* error, first instance ready, first instance failed by spawn error, early
\* exit or heartbeat timeout) gives its slot back exactly once.
SemaphoreAccounting == semaphore = SemaphoreHolders

\* The granularity lock admits one launch of a plugin at a time: at most
\* one launcher is past the map check (waiting for the semaphore or
\* building) or has a runtime whose first instance has not resolved, and
\* while there is one the plugin's lock is held.
OneLaunchPerPlugin ==
    \A p \in Plugins :
        LET inFlight ==
                Cardinality({c \in Launchers : PluginOf(c) = p /\ caller[c].pc \in {"sem", "build"}})
                  + Cardinality({r \in Runtimes : runtime[r].pid = p /\ outcome[r] = "pending"})
        IN /\ inFlight <= 1
           /\ inFlight = 1 => lockHeld[p]

\* Every launch resolves: once a runtime is scheduled its once fires with
\* ready or failed (the first heartbeat or the MAX_HEARTBEAT_INTERVAL
\* timeout), so the caller's <-ch returns.
LaunchResolves ==
    \A r \in Runtimes : outcome[r] = "pending" ~> outcome[r] \in {"ready", "failed"}

\* A plugin uninstalled elsewhere in the cluster leaves the map: while its
\* marker stays absent the evict loop's graceful shutdown makes the
\* schedule loop exit and OnRuntimeStopSchedule delete the entry.
EvictionCompletes ==
    \A p \in Plugins :
        (p \notin installed /\ localPluginRuntimes[p] # NoRuntime)
            ~> (p \in installed \/ localPluginRuntimes[p] = NoRuntime)

\* Every LaunchLocalPlugin call that waits for the plugin's granularity lock
\* eventually gets past it.
LaunchCallReturns ==
    \A c \in Launchers : caller[c].pc = "lock" ~> caller[c].pc # "lock"

\* A plugin is launched at most once per node: no two runtimes of the same
\* plugin run their schedule loop at the same time.
AtMostOneScheduledRuntime ==
    \A p \in Plugins :
        Cardinality({r \in Runtimes : runtime[r].pid = p /\ runtime[r].loop # "unbuilt"
                                       /\ runtime[r].scheduleStatus = "running"}) <= 1

\* After the schedule loop exits, all instances shut down and
\* OnRuntimeClose fires.
DrainCompletes ==
    \A r \in Runtimes : runtime[r].loop = "drain" ~> runtime[r].loop = "closed"


=============================================================================
