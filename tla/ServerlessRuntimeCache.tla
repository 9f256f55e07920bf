----------------------- MODULE ServerlessRuntimeCache -----------------------
(***************************************************************************)
(* The serverless runtime model of one plugin and its cache-aside lookup  *)
(* (plugin_manager/serverless.go, and updateServerlessRuntimeModel /      *)
(* clearServerlessRuntimeCache of plugin_manager/installer.go).           *)
(*                                                                         *)
(* srModel is the models.ServerlessRuntime row: which function (the one   *)
(* of the "old" launch or of a reinstall's "new" one) its FunctionURL and  *)
(* FunctionName name.  srCache is the Redis entry under                    *)
(* serverless:runtime:<identifier>: "miss" or the function it holds.       *)
(* lookup is one getServerlessPluginRuntimeModel call of GetPluginRuntime *)
(* in progress: its pc and the row it read from the database.             *)
(***************************************************************************)
VARIABLES srModel, srCache, lookup

Functions == {"old", "new"}

runtime == <<srModel, srCache, lookup>>

LookupPC == {"idle", "db", "store"}

TypeOK ==
    /\ srModel \in Functions
    /\ srCache \in Functions \cup {"miss"}
    /\ lookup \in [pc : LookupPC, v : Functions]

\* the plugin was launched once and its row names that launch's function
Init ==
    /\ srModel = "old"
    /\ srCache \in {"miss", "old"}
    /\ lookup = [pc |-> "idle", v |-> "old"]

-----------------------------------------------------------------------------
(* One GetPluginRuntime on the serverless platform.  A hit returns the    *)
(* cached row and changes nothing; a miss reads the row and stores it for *)
(* 30 minutes.  The row exists (the plugin is installed), so the database *)
(* read does not fail with not-found.                                      *)

LookupCache ==
    /\ lookup.pc = "idle"
    /\ srCache = "miss"
    /\ lookup' = [lookup EXCEPT !.pc = "db"]
    /\ UNCHANGED <<srModel, srCache>>

LookupDB ==
    /\ lookup.pc = "db"
    /\ lookup' = [pc |-> "store", v |-> srModel]
    /\ UNCHANGED <<srModel, srCache>>

LookupStore ==
    /\ lookup.pc = "store"
    /\ srCache' = lookup.v
    /\ lookup' = [lookup EXCEPT !.pc = "idle"]
    /\ UNCHANGED srModel

\* mutation variant: the row is cached without an expiry
ExpireNever == FALSE /\ UNCHANGED runtime

\* the 30-minute TTL of cache.Store runs out
Expire ==
    /\ srCache # "miss"
    /\ srCache' = "miss"
    /\ UNCHANGED <<srModel, lookup>>

-----------------------------------------------------------------------------
(* The two writes of Reinstall's Done handler.                             *)

\* updateServerlessRuntimeModel: GetOne and Update of the row
UpdateServerlessRuntimeModel == srModel' = "new"

\* clearServerlessRuntimeCache: cache.Del of the entry
ClearServerlessRuntimeCache == srCache' = "miss"

=============================================================================
