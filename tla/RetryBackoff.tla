---------------------------- MODULE RetryBackoff ----------------------------
(***************************************************************************)
(* The watchdog's retry backoff: the wait before the next launch attempt  *)
(* of a plugin that has failed retryCount times (calculateWaitTime).      *)
(* Durations are in seconds.                                               *)
(***************************************************************************)
EXTENDS Naturals, Sequences, TLC

\* MAX_RETRY_COUNT: the watchdog skips a plugin with this many failures
MAX_RETRY_COUNT == 15

\* RETRY_WAIT_INTERVAL_MAP: retry count threshold -> wait
RETRY_WAIT_INTERVAL_MAP == (0 :> 0) @@ (3 :> 30) @@ (8 :> 60) @@ (MAX_RETRY_COUNT :> 240)

\* mutation variant: the last reached threshold wins, whatever its wait
WaitStepLastMatch(retryCount, waitTime, c) ==
    IF retryCount >= c THEN RETRY_WAIT_INTERVAL_MAP[c] ELSE waitTime

\* one iteration of the range loop: keep v if the threshold c is reached and
\* v is not below the best wait found so far
WaitStep(retryCount, waitTime, c) ==
    IF retryCount >= c /\ RETRY_WAIT_INTERVAL_MAP[c] >= waitTime
    THEN RETRY_WAIT_INTERVAL_MAP[c]
    ELSE waitTime

\* calculateWaitTime with the map visited in the order given by keys
RECURSIVE WaitTimeInOrder(_, _, _)
WaitTimeInOrder(retryCount, waitTime, keys) ==
    IF keys = <<>>
    THEN waitTime
    ELSE WaitTimeInOrder(retryCount, WaitStep(retryCount, waitTime, Head(keys)), Tail(keys))

\* Go randomises map iteration; this order is the one the literal lists
KeyOrder == <<0, 3, 8, MAX_RETRY_COUNT>>

\* mutation variant: a direct map lookup of the count
CalculateWaitTimeExact(retryCount) ==
    IF retryCount \in DOMAIN RETRY_WAIT_INTERVAL_MAP THEN RETRY_WAIT_INTERVAL_MAP[retryCount] ELSE 0

CalculateWaitTime(retryCount) == WaitTimeInOrder(retryCount, 0, KeyOrder)

=============================================================================
