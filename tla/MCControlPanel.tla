--------------------------- MODULE MCControlPanel ---------------------------
(***************************************************************************)
(* Model constants for ControlPanel: plugins and install requests are     *)
(* model values given in the .cfg files.  It also checks the watchdog's   *)
(* backoff, calculateWaitTime, over every retry count the watchdog        *)
(* reaches and every iteration order of RETRY_WAIT_INTERVAL_MAP.          *)
(***************************************************************************)
EXTENDS ControlPanel, TLC

LOCAL INSTANCE FiniteSetsExt
LOCAL INSTANCE SequencesExt

CONSTANTS p1, p2, i1, i2

\* every install request installs p1
MCRequestPlugin == [i \in InstallRequests |-> p1]

\* install requests of the same plugin are interchangeable
InstallSymmetry == Permutations(InstallRequests)

\* the orders in which Go's range over RETRY_WAIT_INTERVAL_MAP may visit it
BackoffOrders == SetToSeqs(DOMAIN RETRY_WAIT_INTERVAL_MAP)

\* Reference from the documented step table: the wait of the largest
\* threshold not above the count.
ReferenceWaitTime(n) ==
    RETRY_WAIT_INTERVAL_MAP[Max({c \in DOMAIN RETRY_WAIT_INTERVAL_MAP : c <= n})]

\* the retry counts a plugin's record can still reach from its current one
CountsAhead(p) == failsRecord[p]..MAX_RETRY_COUNT

\* the retry counts at which calculateWaitTime gives the step table's wait
\* whatever order Go's map iteration visits RETRY_WAIT_INTERVAL_MAP in
CountsMatchingTable ==
    {n \in 0..MAX_RETRY_COUNT :
        \A o \in BackoffOrders : WaitTimeInOrder(n, 0, o) = ReferenceWaitTime(n)}

\* the retry counts from which one more recorded failure does not shorten
\* the wait
CountsNotShrinking ==
    {n \in 0..MAX_RETRY_COUNT :
        n < MAX_RETRY_COUNT => CalculateWaitTime(n + 1) >= CalculateWaitTime(n)}

\* For every plugin, calculateWaitTime gives the step table's wait at its
\* current RetryCount and at every count it can still reach, whatever
\* order Go's map iteration visits RETRY_WAIT_INTERVAL_MAP in.
WaitTimeMatchesTable ==
    \A p \in Plugins : CountsAhead(p) \subseteq CountsMatchingTable

\* No failure the watchdog records for a plugin from now on shortens the
\* wait before its next attempt: the backoff is monotone in RetryCount.
BackoffNeverShrinks ==
    \A p \in Plugins : CountsAhead(p) \subseteq CountsNotShrinking

=============================================================================
