---------------------------- MODULE InstallTasks ----------------------------
(***************************************************************************)
(* Install-task bookkeeping of one request (service/install_plugin.go,    *)
(* tasks/install_plugin.go, tasks/install_plugin_utils.go,                 *)
(* tasks/recycle.go, and the Reinstall stream of                           *)
(* plugin_manager/installer.go).  The request is one of:                  *)
(*  - InstallMultiplePluginsToTenant: one InstallTask row per tenant (the  *)
(*    tenant, plus the global tenant when orphans are allowed), each       *)
(*    listing every plugin as pending, and one ProcessInstallJob goroutine *)
(*    per plugin, all sharing the same task ids;                           *)
(*  - UpgradePlugin to an identifier not installed yet: the same rows for  *)
(*    the new plugin and one ProcessUpgradeJob;                            *)
(*  - ReinstallPluginFromIdentifier: one row for the global tenant and a   *)
(*    goroutine that follows manager.Reinstall's stream.                   *)
(* A job writes its plugin's status into every task, one row-locked        *)
(* transaction per task, in taskIDs order.                                 *)
(* Alongside a reinstall, GetPluginRuntime looks the plugin's serverless  *)
(* runtime row up through its cache (ServerlessRuntimeCache, as SR).      *)
(***************************************************************************)
EXTENDS Integers, Sequences, FiniteSets

CONSTANTS
    Plugins,        \* the plugin identifiers of the request, one job each
    TaskIDs,        \* the task ids in registry order, one per tenant; the
                    \* last is the global tenant's
    MaxEvents       \* bound on the events one installation stream yields

Tasks == {TaskIDs[i] : i \in 1..Len(TaskIDs)}

Kinds == {"install", "upgrade", "reinstall"}

\* the task of constants.GlobalTenantId
GlobalTaskID == TaskIDs[Len(TaskIDs)]

\* what the serverless connector has returned to a reinstall so far
FunctionParts == {"name", "url"}

Status == {"pending", "running", "success", "failed"}
Final == {"success", "failed"}

\* pc of a job: "new" (submitted, not yet running), "save" (no runtime
\* install needed), "install" (calling manager.Install), "stream"
\* (in installationStream.Process, or a reinstall's reinstallStream.Process),
\* "update" (inside the taskIDs loop of
\* SetTaskStatusForOnePlugin / SetTaskMessageForOnePlugin), "end" (the
\* deferred endTasks) and "done".
JobPC == {"new", "save", "install", "stream", "update", "end", "done"}

VARIABLES
    kind,            \* the request: install, upgrade or reinstall
    requested,       \* the plugins of the request, one job each
    taskIDs,         \* taskRegistry.IDs() of the request
    needsRuntime,    \* job.NeedsRuntimeInstall, fixed by the request
    platform,        \* config.Platform: local or serverless
    exists,          \* the task row is still in the database
    taskStatus,      \* InstallTask.Status
    completed,       \* InstallTask.CompletedPlugins
    pluginStatus,    \* InstallTask.Plugins[i].Status, per task and plugin
    installingTasks, \* the installingTasks map of recycle.go (its keys)
    job,             \* per plugin: pc, loop index, status being written,
                     \* continuation, events, terminal event seen, and a
                     \* reinstall's functionName / functionUrl
    delTimer,        \* tasks with a pending time.AfterFunc delete
    down,            \* the shutdown finalizers have run and the process exited
    srModel,         \* the reinstalled plugin's serverless runtime row,
    srCache,         \* its cache entry, and a GetPluginRuntime lookup of
    lookup           \* it (see ServerlessRuntimeCache)

\* the serverless runtime model of a reinstalled plugin and its cache
SR == INSTANCE ServerlessRuntimeCache

serverlessVars == <<srModel, srCache, lookup>>

vars == <<kind, requested, taskIDs, needsRuntime, platform, exists, taskStatus, completed, pluginStatus,
          installingTasks, job, delTimer, down, srModel, srCache, lookup>>

\* the rows of this request
ReqTasks == {taskIDs[i] : i \in 1..Len(taskIDs)}

-----------------------------------------------------------------------------
(* SetTaskStatusForOnePlugin's modifier followed by UpdateTaskStatus's    *)
(* recount, for task t, plugin p and status st.  "message" stands for     *)
(* SetTaskMessageForOnePlugin, whose modifier touches only the message.   *)

NewPluginStatus(t, p, st) ==
    IF st = "message" THEN pluginStatus[t] ELSE [pluginStatus[t] EXCEPT ![p] = st]

\* mutation variants: the counter is bumped on every success, or never
\* taken back on a later failure
NewCompletedEverySuccess(t, p, st) ==
    LET inc == IF st = "success" THEN completed[t] + 1 ELSE completed[t]
    IN  IF st = "failed" /\ pluginStatus[t][p] = "success" /\ inc > 0 THEN inc - 1 ELSE inc

NewCompletedNoDecrement(t, p, st) ==
    IF st = "success" /\ pluginStatus[t][p] # "success" THEN completed[t] + 1 ELSE completed[t]

\* the CompletedPlugins adjustment of SetTaskStatusForOnePlugin's modifier
NewCompleted(t, p, st) ==
    LET prev == pluginStatus[t][p]
        inc  == IF st = "success" /\ prev # "success" THEN completed[t] + 1 ELSE completed[t]
    IN  IF st = "failed" /\ prev = "success" /\ inc > 0 THEN inc - 1 ELSE inc

AllSucceeded(ps) == \A q \in DOMAIN ps : ps[q] = "success"

\* UpdateTaskStatus: a missing row is skipped; otherwise the modifier runs,
\* the task becomes "success" once every plugin succeeded, and that arms
\* the 120 s delete timer.
UpdateTaskStatus(t, p, st) ==
    IF ~exists[t]
    THEN UNCHANGED <<taskStatus, completed, pluginStatus, delTimer>>
    ELSE LET ps == NewPluginStatus(t, p, st)
             s1 == IF st = "failed" THEN "failed" ELSE taskStatus[t]
         IN  /\ pluginStatus' = [pluginStatus EXCEPT ![t] = ps]
             /\ completed' = [completed EXCEPT ![t] = NewCompleted(t, p, st)]
             /\ taskStatus' = [taskStatus EXCEPT ![t] = IF AllSucceeded(ps) THEN "success" ELSE s1]
             /\ delTimer' = IF AllSucceeded(ps) THEN delTimer \cup {t} ELSE delTimer

\* enter the taskIDs loop writing st, then continue at pc next
BeginSet(p, st, next) ==
    job' = [job EXCEPT ![p] = [@ EXCEPT !.pc = "update", !.i = 1, !.st = st, !.next = next]]

SetPC(p, pc) == job' = [job EXCEPT ![p] = [@ EXCEPT !.pc = pc]]

-----------------------------------------------------------------------------
(* Job steps.  Every step is disabled once the process has exited.  The   *)
(* request's kind, plugins, task ids and platform never change after Init. *)

Fixed == <<kind, requested, taskIDs, needsRuntime, platform>>

\* a step that moves only the job's own goroutine
RowsKept == UNCHANGED <<Fixed, exists, taskStatus, completed, pluginStatus,
                       installingTasks, delTimer, down>>

JobOnly == RowsKept /\ UNCHANGED serverlessVars

\* where a job goes once its plugin's outcome is written: the deferred
\* endTasks, except for the reinstall goroutine, which has none
Finish == IF kind = "reinstall" THEN "done" ELSE "end"

\* ProcessInstallJob and ProcessUpgradeJob start: startTasks(taskIDs), then
\* either the save-only path or "running" before manager.Install.
JobStart(p) ==
    /\ ~down
    /\ job[p].pc = "new"
    /\ installingTasks' = installingTasks \cup ReqTasks
    /\ IF needsRuntime[p] THEN BeginSet(p, "running", "install") ELSE SetPC(p, "save")
    /\ UNCHANGED <<Fixed, serverlessVars, exists, taskStatus, completed, pluginStatus, delTimer, down>>

\* SaveInstallationForTenantsToDB succeeds or fails, then the final status
JobSave(p) ==
    /\ ~down
    /\ job[p].pc = "save"
    /\ \E st \in Final : BeginSet(p, st, "end")
    /\ JobOnly

\* manager.Install: installLocal always returns its stream; installServerless
\* fails when InstallToServerless does
JobInstall(p) ==
    /\ ~down
    /\ job[p].pc = "install"
    /\ \/ platform = "serverless" /\ BeginSet(p, "failed", "end")
       \/ SetPC(p, "stream")
    /\ JobOnly

\* manager.Reinstall: ErrReinstallNotSupported on the local platform, or
\* ReinstallToServerless fails; the plugin is set failed and the goroutine
\* returns. Otherwise the reinstall stream is followed.
ManagerReinstall(p) ==
    /\ ~down
    /\ job[p].pc = "install"
    /\ IF platform = "local"
       THEN BeginSet(p, "failed", "done")
       ELSE \/ BeginSet(p, "failed", "done")
            \/ SetPC(p, "stream")
    /\ JobOnly

-----------------------------------------------------------------------------
(* The job's callback on one event of the stream it follows: e is Info,   *)
(* Error or Done.  It writes the resulting status st into every task, then *)
(* continues at next.                                                      *)

HandleEvent(p, st, next) ==
    job' = [job EXCEPT ![p] = [@ EXCEPT !.pc = "update", !.i = 1, !.st = st, !.next = next,
                                        !.events = @ + 1, !.term = @ \/ st \in Final]]

\* ProcessInstallJob's callback: Info sets the message, Error the failed
\* status, Done saves the installation and sets success (or failed when
\* the save fails) and then arms the 60 s delete of every task
JobEvent(p, e) ==
    CASE e = "info"  -> HandleEvent(p, "message", "stream")
      [] e = "error" -> HandleEvent(p, "failed", "stream")
      [] OTHER       -> \/ HandleEvent(p, "success", "arm")
                        \/ HandleEvent(p, "failed", "stream")

\* ProcessUpgradeJob's callback: Done runs curd.UpgradePlugin for each
\* tenant and sets failed at the first error, or success; no delete
UpgradeEvent(p, e) ==
    CASE e = "info"  -> HandleEvent(p, "message", "stream")
      [] e = "error" -> HandleEvent(p, "failed", "stream")
      [] OTHER       -> \E st \in Final : HandleEvent(p, st, "stream")

\* the reinstall goroutine's callback: Done runs curd.InstallPlugin for the
\* global tenant, success unless it fails other than already installed
ReinstallHandle(p, e) ==
    CASE e = "info"  -> HandleEvent(p, "message", "stream")
      [] e = "error" -> HandleEvent(p, "failed", "stream")
      [] OTHER       -> \E st \in Final : HandleEvent(p, st, "stream")

Consume(p, e) ==
    CASE kind = "install" -> JobEvent(p, e)
      [] kind = "upgrade" -> UpgradeEvent(p, e)
      [] OTHER            -> ReinstallHandle(p, e)

-----------------------------------------------------------------------------
(* The streams.  A Function or FunctionUrl event is kept in job[p].fn; a  *)
(* repeat changes nothing the model tells apart, so it is not a step.     *)

\* An Info only rewrites the plugin's message and recounts rows that every
\* other job's write recounts as well, so a run of Infos changes nothing a
\* single one does not: the model lets a stream's first event be an Info.
FirstInfo(p) == job[p].events = 0 /\ Consume(p, "info")

\* installLocal: ticker Infos while it waits for the plugin, then exactly
\* one Error or Done, then the stream is closed
InstallLocalEvent(p) ==
    /\ ~down
    /\ platform = "local"
    /\ job[p].pc = "stream"
    /\ ~job[p].term
    /\ \/ FirstInfo(p)
       \/ \E e \in {"error", "done"} : Consume(p, e)
    /\ JobOnly

\* Reinstall's Done with both parts: updateServerlessRuntimeModel fails and
\* an Error is written; or the row is updated and clearServerlessRuntimeCache
\* fails, again an Error; or both succeed and Done is written
ReinstallDoneSteps(p) ==
    \/ Consume(p, "error") /\ UNCHANGED serverlessVars
    \/ Consume(p, "error") /\ SR!UpdateServerlessRuntimeModel /\ UNCHANGED <<srCache, lookup>>
    \/ Consume(p, "done") /\ SR!UpdateServerlessRuntimeModel /\ SR!ClearServerlessRuntimeCache
       /\ UNCHANGED lookup

\* installServerless's Done with both parts: the GetOne / Create of the
\* plugin's runtime row fails with an Error, or Done is written (the row of
\* a plugin being installed is not the reinstalled one tracked in srModel)
InstallDoneSteps(p) ==
    \E e \in {"error", "done"} : Consume(p, e) /\ UNCHANGED serverlessVars

\* serverless.Done: without a function url or name an Error is written;
\* otherwise the database steps of the request's kind
ConnectorDone(p) ==
    IF job[p].fn = FunctionParts
    THEN IF kind = "reinstall" THEN ReinstallDoneSteps(p) ELSE InstallDoneSteps(p)
    ELSE Consume(p, "error") /\ UNCHANGED serverlessVars

\* one event of the serverless connector's stream as installServerless's
\* or Reinstall's callback translates it: Info and Error are forwarded;
\* Function and FunctionUrl are stored and write nothing; Done as above;
\* an unknown event is WriteError, and Process ends with that error
ConnectorEvent(p) ==
    /\ ~down
    /\ platform = "serverless"
    /\ job[p].pc = "stream"
    /\ \/ /\ job[p].events < MaxEvents
          /\ \/ FirstInfo(p) /\ UNCHANGED serverlessVars
             \/ Consume(p, "error") /\ UNCHANGED serverlessVars
             \/ ConnectorDone(p)
       \/ /\ \E part \in FunctionParts \ job[p].fn :
                job' = [job EXCEPT ![p].fn = @ \cup {part}]
          /\ UNCHANGED serverlessVars
       \/ BeginSet(p, "failed", Finish) /\ UNCHANGED serverlessVars
    /\ RowsKept

JobStreamEnd(p) ==
    /\ ~down
    /\ job[p].pc = "stream"
    /\ \/ platform = "serverless" /\ BeginSet(p, "failed", Finish)
       \/ job[p].term /\ SetPC(p, Finish)
    /\ JobOnly

-----------------------------------------------------------------------------
\* one iteration of the taskIDs loop: one UpdateTaskStatus transaction
JobUpdate(p) ==
    /\ ~down
    /\ job[p].pc = "update"
    /\ job[p].i <= Len(taskIDs)
    /\ UpdateTaskStatus(taskIDs[job[p].i], p, job[p].st)
    /\ job' = [job EXCEPT ![p].i = @ + 1]
    /\ UNCHANGED <<Fixed, serverlessVars, exists, installingTasks, down>>

\* mutation variant: the taskIDs loop stops one task early
JobUpdateDoneEarly(p) ==
    /\ ~down
    /\ job[p].pc = "update"
    /\ job[p].i >= Len(taskIDs)
    /\ SetPC(p, IF job[p].next = "arm" THEN "stream" ELSE job[p].next)
    /\ delTimer' = IF job[p].next = "arm" THEN delTimer \cup ReqTasks ELSE delTimer
    /\ UNCHANGED <<Fixed, serverlessVars, exists, taskStatus, completed, pluginStatus,
                   installingTasks, down>>

\* the loop is over; after an install's successful Done the 60 s delete of
\* every task id is armed and the stream goes on
JobUpdateDone(p) ==
    /\ ~down
    /\ job[p].pc = "update"
    /\ job[p].i > Len(taskIDs)
    /\ SetPC(p, IF job[p].next = "arm" THEN "stream" ELSE job[p].next)
    /\ delTimer' = IF job[p].next = "arm" THEN delTimer \cup ReqTasks ELSE delTimer
    /\ UNCHANGED <<Fixed, serverlessVars, exists, taskStatus, completed, pluginStatus,
                   installingTasks, down>>

\* the deferred endTasks(taskIDs)
JobEnd(p) ==
    /\ ~down
    /\ job[p].pc = "end"
    /\ installingTasks' = installingTasks \ ReqTasks
    /\ SetPC(p, "done")
    /\ UNCHANGED <<Fixed, serverlessVars, exists, taskStatus, completed, pluginStatus, delTimer, down>>

-----------------------------------------------------------------------------
\* a time.AfterFunc delete (DeleteTask or db.Delete) fires
DeleteTimerFires(t) ==
    /\ ~down
    /\ t \in delTimer
    /\ exists' = [exists EXCEPT ![t] = FALSE]
    /\ delTimer' = delTimer \ {t}
    /\ UNCHANGED <<Fixed, serverlessVars, taskStatus, completed, pluginStatus,
                   installingTasks, job, down>>

\* RecycleTasks, the shutdown finalizer: every task in installingTasks
\* still running or pending is set failed with all its plugins; then the
\* process exits
RecycleTasks ==
    /\ ~down
    /\ LET hit == {t \in installingTasks :
                      exists[t] /\ taskStatus[t] \in {"running", "pending"}}
       IN  /\ taskStatus' = [t \in Tasks |-> IF t \in hit THEN "failed" ELSE taskStatus[t]]
           /\ pluginStatus' = [t \in Tasks |->
                                 IF t \in hit THEN [q \in requested |-> "failed"]
                                              ELSE pluginStatus[t]]
    /\ down' = TRUE
    /\ UNCHANGED <<Fixed, serverlessVars, exists, completed, installingTasks, job, delTimer>>

-----------------------------------------------------------------------------
\* createInstallTasks with buildTaskStatuses: one row per tenant of ids,
\* "running", no plugin completed, every plugin of ps pending
CreateInstallTasks(ids, ps) ==
    /\ exists = [t \in Tasks |-> \E i \in 1..Len(ids) : ids[i] = t]
    /\ taskStatus = [t \in Tasks |-> "running"]
    /\ completed = [t \in Tasks |-> 0]
    /\ pluginStatus = [t \in Tasks |-> [q \in ps |-> "pending"]]

\* a job goroutine of the request for p, before its first step
NewJob(p, pc) ==
    [pc |-> pc, i |-> 1, st |-> "message", next |-> "end", events |-> 0,
     term |-> FALSE, fn |-> {}]

\* InstallMultiplePluginsToTenant once the tasks exist: at least one plugin
\* needs a runtime install (otherwise no task is created) and no job has
\* run yet
InstallRequest ==
    /\ kind = "install"
    /\ requested = Plugins
    /\ taskIDs = TaskIDs
    /\ needsRuntime \in {f \in [Plugins -> BOOLEAN] : \E p \in Plugins : f[p]}
    /\ CreateInstallTasks(TaskIDs, Plugins)
    /\ job = [p \in Plugins |-> NewJob(p, "new")]

\* UpgradePlugin when the new identifier p is not installed yet: tasks for
\* every tenant listing p, and ProcessUpgradeJob submitted
UpgradeRequest ==
    \E p \in Plugins :
        /\ kind = "upgrade"
        /\ requested = {p}
        /\ taskIDs = TaskIDs
        /\ needsRuntime = [q \in Plugins |-> TRUE]
        /\ CreateInstallTasks(TaskIDs, {p})
        /\ job = [q \in Plugins |-> NewJob(q, IF q = p THEN "new" ELSE "done")]

\* ReinstallPluginFromIdentifier: one task for the global tenant, and the
\* goroutine about to call manager.Reinstall
ReinstallRequest ==
    \E p \in Plugins :
        /\ kind = "reinstall"
        /\ requested = {p}
        /\ taskIDs = <<GlobalTaskID>>
        /\ needsRuntime = [q \in Plugins |-> TRUE]
        /\ CreateInstallTasks(<<GlobalTaskID>>, {p})
        /\ job = [q \in Plugins |-> NewJob(q, IF q = p THEN "install" ELSE "done")]

Init ==
    /\ platform \in {"local", "serverless"}
    /\ InstallRequest \/ UpgradeRequest \/ ReinstallRequest
    /\ installingTasks = {}
    /\ delTimer = {}
    /\ down = FALSE
    /\ SR!Init
    /\ kind # "reinstall" => srCache = "miss"

\* everything but the serverless runtime row, its cache and the lookup
Bookkeeping == <<Fixed, exists, taskStatus, completed, pluginStatus,
                 installingTasks, job, delTimer, down>>

\* a GetPluginRuntime of the reinstalled plugin, which only the serverless
\* platform answers from the runtime row (runtime.go); it runs on a
\* request goroutine of the daemon
RuntimeLookup ==
    /\ ~down
    /\ kind = "reinstall"
    /\ platform = "serverless"
    /\ SR!LookupCache \/ SR!LookupDB \/ SR!LookupStore
    /\ UNCHANGED Bookkeeping

\* the cache entry's TTL runs out, whether or not the daemon still runs
CacheExpires ==
    /\ SR!Expire
    /\ UNCHANGED Bookkeeping

ProcessInstallJob(p) ==
    /\ kind = "install"
    /\ \/ JobStart(p) \/ JobSave(p) \/ JobInstall(p)
       \/ InstallLocalEvent(p) \/ ConnectorEvent(p) \/ JobStreamEnd(p) \/ JobUpdate(p) \/ JobUpdateDone(p) \/ JobEnd(p)

ProcessUpgradeJob(p) ==
    /\ kind = "upgrade"
    /\ \/ JobStart(p) \/ JobInstall(p)
       \/ InstallLocalEvent(p) \/ ConnectorEvent(p) \/ JobStreamEnd(p) \/ JobUpdate(p) \/ JobUpdateDone(p) \/ JobEnd(p)

ReinstallJob(p) ==
    /\ kind = "reinstall"
    /\ \/ ManagerReinstall(p) \/ ConnectorEvent(p) \/ JobStreamEnd(p)
       \/ JobUpdate(p) \/ JobUpdateDone(p)

Next ==
    \/ \E p \in Plugins : ProcessInstallJob(p) \/ ProcessUpgradeJob(p) \/ ReinstallJob(p)
    \/ \E t \in Tasks : DeleteTimerFires(t)
    \/ RecycleTasks
    \/ RuntimeLookup
    \/ CacheExpires

\* Each job is a goroutine of the routine pool, AfterFunc timers fire, a
\* lookup in progress completes and a Redis TTL runs out;
\* the shutdown signal is external and gets no fairness.
Fairness ==
    /\ \A p \in Plugins : /\ WF_vars(ProcessInstallJob(p))
                          /\ WF_vars(ProcessUpgradeJob(p))
                          /\ WF_vars(ReinstallJob(p))
    /\ \A t \in Tasks : WF_vars(DeleteTimerFires(t))
    /\ WF_vars(RuntimeLookup)
    /\ WF_vars(CacheExpires)

Spec == Init /\ [][Next]_vars /\ Fairness

-----------------------------------------------------------------------------
TypeOK ==
    /\ kind \in Kinds
    /\ requested \in SUBSET Plugins \ {{}}
    /\ ReqTasks \subseteq Tasks
    /\ needsRuntime \in [Plugins -> BOOLEAN]
    /\ platform \in {"local", "serverless"}
    /\ exists \in [Tasks -> BOOLEAN]
    /\ taskStatus \in [Tasks -> Status]
    /\ completed \in [Tasks -> 0..Cardinality(requested)]
    /\ pluginStatus \in [Tasks -> [requested -> Status]]
    /\ installingTasks \subseteq Tasks
    /\ \A p \in Plugins :
          /\ job[p].pc \in JobPC
          /\ job[p].i \in 1..Len(taskIDs) + 1
          /\ job[p].st \in Status \cup {"message"}
          /\ job[p].next \in {"install", "stream", "arm", "end", "done"}
          /\ job[p].events \in 0..MaxEvents + 1
          /\ job[p].term \in BOOLEAN
          /\ job[p].fn \subseteq FunctionParts
    /\ delTimer \subseteq Tasks
    /\ down \in BOOLEAN
    /\ SR!TypeOK

SuccessCount(t) == Cardinality({p \in requested : pluginStatus[t][p] = "success"})

\* CompletedPlugins of a task row equals the number of its plugins whose
\* status is success, however the jobs' SetTaskStatusForOnePlugin calls
\* interleave and however often a stream repeats Done or Error
\* (install_plugin_utils.go's modifier adjusts the counter incrementally).
CompletedCountsSuccesses ==
    ~down => \A t \in Tasks : exists[t] => completed[t] = SuccessCount(t)

\* The task rows of the tenant and of the global tenant show the same
\* progress whenever no job is inside its taskIDs loop: each job writes
\* every task in one transaction per task, and different jobs' loops
\* interleave.
TasksAgree ==
    (\A p \in Plugins : job[p].pc # "update") =>
        \A t1, t2 \in Tasks :
            exists[t1] /\ exists[t2] =>
                /\ pluginStatus[t1] = pluginStatus[t2]
                /\ taskStatus[t1] = taskStatus[t2]
                /\ completed[t1] = completed[t2]

RuntimeCacheConverges ==
    <>[](srCache \in {"miss", srModel})

\* A task row is deleted only once every plugin in it has a final status,
\* so that a client polling the task sees each plugin's outcome (the 120 s
\* delete of UpdateTaskStatus waits for all plugins to succeed).
TaskKeptUntilSettled ==
    \A t \in ReqTasks : ~exists[t] => \A p \in requested : pluginStatus[t][p] \in Final

=============================================================================
