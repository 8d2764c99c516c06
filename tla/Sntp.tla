-------------------------------- MODULE Sntp --------------------------------
(***************************************************************************)
(* sntp_esp32-master: sntp_helper_init starts the client and polls until   *)
(* the time is set; then the program prints the time for ever.             *)
(***************************************************************************)
EXTENDS Naturals

CONSTANT RetryAttempts \* RETRY_ATTEMPTS, 10 in the code

ASSUME SntpAssumption == RetryAttempts \in Nat \ {0}

VARIABLES
    sntp_at,        \* start, poll, shown
    sntp_retry,     \* retry
    sntp_completed, \* the status is SNTP_SYNC_STATUS_COMPLETED
    sntp_set,       \* history: the time has been set
    sntp_told       \* history: on_connected_cb has been called

sntp_vars == <<sntp_at, sntp_retry, sntp_completed, sntp_set, sntp_told>>

SntpTypeOK ==
    /\ sntp_at \in {"start", "poll", "shown"} /\ sntp_retry \in 0..RetryAttempts
    /\ {sntp_completed, sntp_set, sntp_told} \subseteq BOOLEAN

SntpInit ==
    /\ sntp_at = "start" /\ sntp_retry = 0
    /\ sntp_completed = FALSE /\ sntp_set = FALSE /\ sntp_told = FALSE

SntpHelperInit ==
    /\ sntp_at = "start" /\ sntp_at' = "poll"
    /\ UNCHANGED <<sntp_retry, sntp_completed, sntp_set, sntp_told>>

\* The server answers, at any time and more than once; the callback is called.
TimeSyncNotificationCb ==
    /\ sntp_at # "start"
    /\ sntp_completed' = TRUE /\ sntp_set' = TRUE /\ sntp_told' = TRUE
    /\ UNCHANGED <<sntp_at, sntp_retry>>

\* One round of the loop.  Reading the status resets it.  The return of ESP_FAIL
\* inside the loop is never reached, because the loop ends first: the caller is
\* told ESP_OK either way.
SntpPoll ==
    /\ sntp_at = "poll"
    /\ sntp_completed' = FALSE
    /\ sntp_retry' = IF sntp_completed THEN sntp_retry ELSE sntp_retry + 1
    /\ sntp_at' = IF ~sntp_completed /\ sntp_retry' < RetryAttempts THEN "poll" ELSE "shown"
    /\ UNCHANGED <<sntp_set, sntp_told>>

SntpNext == SntpHelperInit \/ TimeSyncNotificationCb \/ SntpPoll

\* A time that was never set is printed only after all attempts, and a time that
\* was set before the last attempt ends the wait at once.
SntpWaits ==
    /\ sntp_at = "shown" /\ sntp_retry < RetryAttempts => sntp_set
    /\ sntp_at = "poll" /\ sntp_set => sntp_completed
    /\ sntp_set => sntp_told
=============================================================================
