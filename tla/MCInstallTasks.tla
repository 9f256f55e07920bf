--------------------------- MODULE MCInstallTasks ---------------------------
EXTENDS InstallTasks, TLC

CONSTANTS p1, p2, t1, t2

\* the tenant's task and the global tenant's task, in registry order
MCTaskIDs == <<t1, t2>>

=============================================================================
