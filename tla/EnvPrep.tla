------------------------------ MODULE EnvPrep ------------------------------
(***************************************************************************)
(* Preparation of a local plugin's environment, for the Python runner:     *)
(* LaunchLocalPlugin calling InitEnvironment, which calls                  *)
(* extractPluginToWorkingPath and InitPythonEnvironment                    *)
(* (local_runtime/environment.go, environment_python.go,                   *)
(* setup_python_environment.go, patch.go).                                 *)
(*                                                                         *)
(* The working directory <identity>@<checksum> and its .venv outlive a     *)
(* launch and a restart of the daemon. The state is therefore what is on   *)
(* disk, plus the step an InitEnvironment call is at. Any step that runs a *)
(* command or writes files can fail. It returns an error or the daemon     *)
(* dies in it; both leave the disk as the step left it, which may be half  *)
(* done. Such faults are bounded by MaxFaults and happen only at the steps *)
(* in FaultSteps. The watchdog launches the plugin again after a failure. *)
(* The code never counts an InitEnvironment error (LaunchLocalPlugin       *)
(* returns before a retry is recorded), so it relaunches without end;     *)
(* MaxAttempts is the model's bound on the launches it explores, not a    *)
(* limit of the code.                                                      *)
(***************************************************************************)
EXTENDS Naturals, Sequences, FiniteSetsExt

CONSTANTS
    MaxFaults,          \* faults (errors or crashes) the environment may inject
    MaxAttempts,        \* bound: launches explored (the code has no limit)
    FaultSteps,         \* the steps at which a fault may happen
    RequirementsFiles,  \* the dify-plugin lines a package's requirements.txt may hold
    V0_1_1              \* version 0.1.1, below which the SDK is patched

Steps == {"extract", "uv", "create", "delete", "install", "precompile",
          "patch", "mark"}

(***************************************************************************)
(* A dify-plugin line of requirements.txt, as getPluginSdkVersion's        *)
(* regular expressions see it: an operator and a version, and an optional  *)
(* second constraint after a comma. Versions are naturals in version       *)
(* order; NoVersion stands for an absent one.                              *)
(***************************************************************************)
NoVersion == 0
Constraint == [op1 : {"~=", "==", ">=", ">", "<=", "<"}, v1 : Nat \ {0},
               op2 : {"", ">=", ">", "<=", "<", "=="}, v2 : Nat]

ASSUME /\ FaultSteps \subseteq Steps
       /\ MaxFaults \in Nat /\ MaxAttempts \in Nat /\ V0_1_1 \in Nat
       /\ \A r \in RequirementsFiles : \A i \in DOMAIN r : r[i] \in Constraint

VARIABLES
    wd,        \* the working directory: "absent", "empty", "partial_noreq"
               \* (some files, no requirements.txt), "partial_req" (some files
               \* with requirements.txt), or "complete"
    venv,      \* .venv: "absent", "partial" (no bin/python) or "python"
    deps,      \* packages installed in .venv: "none", "partial" or "full"
    valid,     \* .venv/dify/plugin.json, the validity marker, exists
    sdk,       \* the SDK files patchPluginSdk overwrites: "stock", "patched",
               \* or "torn" (a write truncated them)
    requirements, \* the package's dify-plugin lines
    pc,        \* step of the current InitEnvironment call, "idle" between calls
    outcome,   \* result of the last call: "none", "running", "ok" or "err"
    faults,    \* faults injected so far
    attempts   \* InitEnvironment calls so far

vars == <<wd, venv, deps, valid, sdk, requirements, pc, outcome, faults,
          attempts>>
disk == <<wd, venv, deps, valid, sdk, requirements>>

WdStates == {"absent", "empty", "partial_noreq", "partial_req", "complete"}
PCs == {"idle", "extract", "uv", "check", "delete", "create", "install",
        "precompile", "patch", "repatch", "mark"}

(***************************************************************************)
(* getPluginSdkVersion. The first expression takes the first `~=` or `==`  *)
(* line. The second matches every line but `~=`; since                     *)
(* FindAllStringSubmatch returns all five groups for each match, the loop  *)
(* only ever reads the second constraint's version, so the highest second  *)
(* constraint wins. With none, the first match's version is returned.      *)
(***************************************************************************)
GetPluginSdkVersion(reqs) ==
    LET exact  == SelectSeq(reqs, LAMBDA c : c.op1 \in {"~=", "=="})
        ranged == SelectSeq(reqs, LAMBDA c : c.op1 # "~=")
        second == {ranged[i].v2 : i \in DOMAIN ranged} \ {NoVersion}
    IN  CASE exact # <<>>  -> Head(exact).v1
          [] ranged = <<>> -> NoVersion
          [] second # {}   -> Max(second)
          [] OTHER         -> Head(ranged).v1

\* patchPluginSdk writes files only for an SDK version it could parse and
\* that is below 0.1.1 (0.0.1b70's file is among them).
NeedsPatch ==
    LET v == GetPluginSdkVersion(requirements) IN v # NoVersion /\ v < V0_1_1

\* Mutant: a check that takes any .venv with bin/python as valid.
CheckPythonVirtualEnvironmentNoMarker ==
    CASE venv = "absent"  -> "NotFound"
      [] venv = "partial" -> "NoPython"
      [] OTHER            -> "OK"

(***************************************************************************)
(* checkPythonVirtualEnvironment: the three Stat calls, in the code's      *)
(* order. A .venv without bin/python gives a plain error, which is neither *)
(* ErrVirtualEnvironmentNotFound nor ErrVirtualEnvironmentInvalid.         *)
(***************************************************************************)
CheckPythonVirtualEnvironment ==
    CASE venv = "absent"  -> "NotFound"
      [] venv = "partial" -> "NoPython"
      [] ~valid           -> "Invalid"
      [] OTHER            -> "OK"

\* The working directory holds requirements.txt: the last Stat of
\* createVirtualEnvironment.
HasRequirements == wd \in {"partial_req", "complete"}

\* An instance can start: getVirtualEnvironmentPythonPath finds
\* bin/python, and the plugin's code and the SDK's files are whole.
Spawnable == wd = "complete" /\ venv = "python" /\ sdk # "torn"

\* A fault at step s is possible.
CanFault(s) == s \in FaultSteps /\ faults < MaxFaults

\* The call ends with an error: LaunchLocalPlugin reports start_failed.
Fail == pc' = "idle" /\ outcome' = "err"

\* A fault at step s: the call ends with an error (or the daemon dies) and
\* the disk keeps what the step had done so far.
Fault(s) == CanFault(s) /\ faults' = faults + 1 /\ Fail

(***************************************************************************)
(* The watchdog (or an install request) launches the plugin and            *)
(* LaunchLocalPlugin calls InitEnvironment. It does so after a failed      *)
(* call, and after a call that returned nil but whose instance could not   *)
(* start.                                                                  *)
(***************************************************************************)
Launch ==
    /\ pc = "idle"
    /\ attempts < MaxAttempts   \* exploration bound, not in the code
    /\ \/ outcome \in {"none", "err"}
       \/ outcome = "ok" /\ ~Spawnable
    /\ pc' = "extract"
    /\ outcome' = "running"
    /\ attempts' = attempts + 1
    /\ UNCHANGED <<disk, faults>>

(***************************************************************************)
(* extractPluginToWorkingPath: create the directory if it is missing and   *)
(* extract the package if the directory is missing or empty. A directory   *)
(* with any entry is used as it is.                                        *)
(***************************************************************************)
Extract ==
    /\ pc = "extract"
    /\ wd' = IF wd \in {"absent", "empty"} THEN "complete" ELSE wd
    /\ pc' = "uv"
    /\ UNCHANGED <<venv, deps, valid, sdk, requirements, outcome, faults,
                   attempts>>

\* MkdirAll or ExtractTo fails, or the daemon dies during them: the
\* directory may be left empty or with part of the package's files.
ExtractFault ==
    /\ pc = "extract"
    /\ wd \in {"absent", "empty"}
    /\ Fault("extract")
    /\ wd' \in {"empty", "partial_noreq", "partial_req"}
    /\ UNCHANGED <<venv, deps, valid, sdk, requirements, attempts>>

\* prepareUV: locate uv. It changes nothing on disk.
PrepareUV ==
    /\ pc = "uv"
    /\ pc' = "check"
    /\ UNCHANGED <<disk, outcome, faults, attempts>>

PrepareUVFault ==
    /\ pc = "uv"
    /\ Fault("uv")
    /\ UNCHANGED <<disk, attempts>>

(***************************************************************************)
(* InitPythonEnvironment's switch on checkPythonVirtualEnvironment:        *)
(* NotFound creates the environment, Invalid deletes and recreates it, a   *)
(* valid one is only patched before the call returns nil, and any other    *)
(* error ends the call.                                                    *)
(***************************************************************************)
CheckEnvironment ==
    /\ pc = "check"
    /\ LET r == CheckPythonVirtualEnvironment IN
         CASE r = "NotFound" -> pc' = "create" /\ UNCHANGED outcome
           [] r = "Invalid"  -> pc' = "delete" /\ UNCHANGED outcome
           [] r = "OK"       -> pc' = "repatch" /\ UNCHANGED outcome
           [] r = "NoPython" -> Fail
    /\ UNCHANGED <<disk, faults, attempts>>

\* deleteVirtualEnvironment: RemoveAll(.venv). Its error is ignored, and a
\* partial removal is overwritten by `uv venv` next, so only a crash in the
\* middle of it matters.
DeleteVirtualEnvironment ==
    /\ pc = "delete"
    /\ venv' = "absent" /\ deps' = "none" /\ sdk' = "stock"
    /\ pc' = "create"
    /\ UNCHANGED <<wd, valid, requirements, outcome, faults, attempts>>

\* The daemon dies while RemoveAll runs. Some of .venv is gone; bin/python
\* may be among it.
DeleteFault ==
    /\ pc = "delete"
    /\ Fault("delete")
    /\ venv' \in {"partial", "python"}
    /\ deps' = IF venv' = "python" THEN "partial" ELSE "none"
    /\ UNCHANGED <<wd, valid, sdk, requirements, attempts>>

(***************************************************************************)
(* createVirtualEnvironment: `uv venv .venv --python 3.12`, then Stat      *)
(* bin/python and requirements.txt.                                        *)
(***************************************************************************)
CreateVirtualEnvironment ==
    /\ pc = "create"
    /\ venv' = "python" /\ deps' = "none" /\ sdk' = "stock"
    /\ IF HasRequirements THEN pc' = "install" /\ UNCHANGED outcome
                          ELSE Fail
    /\ UNCHANGED <<wd, valid, requirements, faults, attempts>>

\* `uv venv` fails or is killed: .venv may exist without bin/python.
CreateFault ==
    /\ pc = "create"
    /\ Fault("create")
    /\ venv' \in {"absent", "partial"}
    /\ deps' = "none" /\ sdk' = "stock"
    /\ UNCHANGED <<wd, valid, requirements, attempts>>

\* installDependencies: `uv pip install -r requirements.txt`.
InstallDependencies ==
    /\ pc = "install"
    /\ deps' = "full" /\ sdk' = "stock"
    /\ pc' = "precompile"
    /\ UNCHANGED <<wd, venv, valid, requirements, outcome, faults, attempts>>

\* Mutant: a pip failure that is only logged, as patchPluginSdk's is.
InstallFaultLogged ==
    /\ pc = "install"
    /\ CanFault("install")
    /\ faults' = faults + 1
    /\ deps' = "partial"
    /\ pc' = "precompile"
    /\ UNCHANGED <<wd, venv, valid, sdk, requirements, outcome, attempts>>

\* pip fails, or the inactivity monitor or the 10 minute context kills it:
\* part of the packages are installed.
InstallFault ==
    /\ pc = "install"
    /\ Fault("install")
    /\ deps' = "partial"
    /\ UNCHANGED <<wd, venv, valid, sdk, requirements, attempts>>

\* preCompile: compileall's own failure is only logged; the call fails
\* only when the command cannot be started.
PreCompile ==
    /\ pc = "precompile"
    /\ pc' = "patch"
    /\ UNCHANGED <<disk, outcome, faults, attempts>>

PreCompileFault ==
    /\ pc = "precompile"
    /\ Fault("precompile")
    /\ UNCHANGED <<disk, attempts>>

\* Where a call goes after patchPluginSdk: to the marker after an install,
\* or straight to `return nil` for a valid environment.
AfterPatch ==
    IF pc = "patch" THEN pc' = "mark" /\ UNCHANGED outcome
                    ELSE pc' = "idle" /\ outcome' = "ok"

\* patchPluginSdk: overwrite the SDK's files with the embedded ones when
\* the version parsed from requirements.txt is old enough.
PatchPluginSdk ==
    /\ pc \in {"patch", "repatch"}
    /\ sdk' = IF NeedsPatch THEN "patched" ELSE sdk
    /\ AfterPatch
    /\ UNCHANGED <<wd, venv, deps, valid, requirements, faults, attempts>>

\* find_spec, a Stat or a WriteFile fails. The error is only logged and
\* the call goes on; a failed WriteFile has truncated its file.
PatchError ==
    /\ pc \in {"patch", "repatch"}
    /\ NeedsPatch
    /\ CanFault("patch")
    /\ faults' = faults + 1
    /\ sdk' \in {sdk, "torn"}
    /\ AfterPatch
    /\ UNCHANGED <<wd, venv, deps, valid, requirements, attempts>>

\* The daemon dies in the middle of the overwrites.
PatchCrash ==
    /\ pc \in {"patch", "repatch"}
    /\ NeedsPatch
    /\ Fault("patch")
    /\ sdk' \in {sdk, "torn"}
    /\ UNCHANGED <<wd, venv, deps, valid, requirements, attempts>>

\* markVirtualEnvironmentAsValid writes .venv/dify/plugin.json, and the
\* call returns nil.
MarkVirtualEnvironmentAsValid ==
    /\ pc = "mark"
    /\ valid' = TRUE
    /\ pc' = "idle" /\ outcome' = "ok"
    /\ UNCHANGED <<wd, venv, deps, sdk, requirements, faults, attempts>>

\* The marker cannot be written: the error is logged and the call still
\* returns nil. (A crash here is a crash before the marker: the next call
\* sees an Invalid environment.)
MarkFault ==
    /\ pc = "mark"
    /\ CanFault("mark")
    /\ faults' = faults + 1
    /\ pc' = "idle" /\ outcome' = "ok"
    /\ UNCHANGED <<disk, attempts>>

\* A fresh working directory for the package <identity>@<checksum>.
Init ==
    /\ wd = "absent" /\ venv = "absent" /\ deps = "none" /\ valid = FALSE
    /\ sdk = "stock" /\ requirements \in RequirementsFiles
    /\ pc = "idle" /\ outcome = "none"
    /\ faults = 0 /\ attempts = 0

\* The steps the code takes by itself, without a fault.
Step ==
    \/ Extract \/ PrepareUV \/ CheckEnvironment \/ DeleteVirtualEnvironment
    \/ CreateVirtualEnvironment \/ InstallDependencies \/ PreCompile
    \/ PatchPluginSdk \/ MarkVirtualEnvironmentAsValid

Faults ==
    \/ ExtractFault \/ PrepareUVFault \/ DeleteFault \/ CreateFault
    \/ InstallFault \/ PreCompileFault \/ PatchError \/ PatchCrash
    \/ MarkFault

Next == Launch \/ Step \/ Faults

\* A call runs to its end, and the watchdog relaunches a failed plugin on
\* a later tick. Faults are the environment's and get no fairness.
Spec == Init /\ [][Next]_vars /\ WF_vars(Step) /\ WF_vars(Launch)

-----------------------------------------------------------------------------

TypeOK ==
    /\ wd \in WdStates
    /\ venv \in {"absent", "partial", "python"}
    /\ deps \in {"none", "partial", "full"}
    /\ valid \in BOOLEAN
    /\ sdk \in {"stock", "patched", "torn"}
    /\ requirements \in RequirementsFiles
    /\ pc \in PCs
    /\ outcome \in {"none", "running", "ok", "err"}
    /\ faults \in 0..MaxFaults
    /\ attempts \in 0..MaxAttempts

\* The plugin's environment is ready: an instance can start and its
\* packages are all installed.
EnvironmentReady == Spawnable /\ deps = "full"

(***************************************************************************)
(* The validity marker is only ever beside a complete dependency install.  *)
(* A call that sees the marker skips install and precompile and returns    *)
(* nil (environment_python.go:35), so a marker over partial packages would *)
(* never be repaired. Faults in the middle of create, delete and install,  *)
(* followed by later calls, are what could break it.                       *)
(***************************************************************************)
ValidMeansInstalled ==
    valid => venv = "python" /\ deps = "full"

(***************************************************************************)
(* When InitEnvironment returns nil, the dependencies are fully installed  *)
(* in .venv, whether this call installed them or found a marker.           *)
(***************************************************************************)
InstalledWhenInitSucceeds ==
    outcome = "ok" => venv = "python" /\ deps = "full"

(***************************************************************************)
(* The spec's error taxonomy: an environment error is retried by the       *)
(* reconciler. So after the faults stop, some launch eventually gets a     *)
(* nil from InitEnvironment with an environment an instance can start in.  *)
(***************************************************************************)
EnvironmentEventuallyReady ==
    <>(outcome = "ok" /\ EnvironmentReady)

=============================================================================
