--------------------------- MODULE AnalysisClient ---------------------------
(***************************************************************************)
(* TradingAgentsClient of pipeline/analysis_client.py as a worker of the   *)
(* dispatcher uses it: submit_one, then poll_one until the task ends, the  *)
(* time is up or the service is given up, then _fetch_result. The headers  *)
(* belong to the worker: a token renewed in poll_one is used by all later  *)
(* requests. The TradingAgents service is external: a task runs as long as *)
(* it likes, and a token expires at any time.                              *)
(*                                                                         *)
(* Time is counted in rounds of the polling loop.                          *)
(***************************************************************************)
EXTENDS Integers

CONSTANTS
    Timeout,       \* rounds until the timeout of the worker has passed
    MaxConnErrors, \* _max_consecutive_conn_errors
    MaxExpiries    \* bound: how often a token expires during one analysis

ASSUME ClientAssumption ==
    /\ Timeout \in Nat
    /\ MaxConnErrors \in Nat \ {0}
    /\ MaxExpiries \in Nat

Refresh == 3       \* consecutive 401 answers after which poll_one logs in

VARIABLES
    pc,        \* submit, poll, login (inside poll), fetch, done
    elapsed,   \* rounds since poll_one began; Timeout: the time is up
    c401,      \* consecutive_401
    conn,      \* consecutive_conn_errors
    result,    \* what became of the analysis; "raised" for an exception
    token,     \* the token in the headers, as the service sees it
    task,      \* the task, as the service sees it
    lag,       \* history: rounds made after the task had ended
    faults,    \* history: requests of this analysis that did not get an answer
    expiries,  \* history: tokens that expired, counting one expired at the start
    refused,   \* history: logins that failed
    outage     \* history: requests in a row that found no connection

counters == <<elapsed, c401, conn>>
history  == <<lag, faults, expiries, refused, outage>>
clientVars     == <<pc, counters, result, token, task, history>>

Results == {"none", "raised", "timeout", "failed", "unavailable", "noResult", "completed"}
Ended   == task \in {"completed", "failed"}

ClientInit ==
    /\ pc = "submit" /\ result = "none"
    /\ elapsed = 0 /\ c401 = 0 /\ conn = 0
    /\ token = "valid" /\ task = "none"
    /\ lag = 0 /\ faults = 0 /\ expiries = 0 /\ refused = 0 /\ outage = 0

(* The round ends: sleep(_poll_interval) and back to the timeout check *)
Round ==
    /\ pc' = "poll"
    /\ elapsed' = elapsed + 1
    /\ lag' = IF Ended THEN lag + 1 ELSE lag

Return(r) == pc' = "done" /\ result' = r

-----------------------------------------------------------------------------
(* Plausible mistakes, used by no specification *)

(* the elapsed time wraps round, as timedelta.seconds does after a day *)
PollRunningWraps ==
    /\ pc = "poll" /\ elapsed < Timeout
    /\ token = "valid" /\ task = "running"
    /\ c401' = 0 /\ conn' = 0 /\ outage' = 0
    /\ elapsed' = IF faults = 0 THEN (elapsed + 1) % Timeout ELSE elapsed + 1
    /\ UNCHANGED <<pc, result, token, task, lag, faults, expiries, refused>>

(* the login comes one answer late *)
Poll401Late ==
    /\ pc = "poll" /\ elapsed < Timeout
    /\ token = "expired"
    /\ conn' = 0 /\ outage' = 0
    /\ c401' = c401 + 1
    /\ IF c401' > Refresh THEN pc' = "login" /\ UNCHANGED <<elapsed, lag>> ELSE Round
    /\ UNCHANGED <<result, token, task, faults, expiries, refused>>

(* an error answer does not end the row of connection errors *)
PollErrorKeepsConn ==
    /\ pc = "poll" /\ elapsed < Timeout
    /\ c401' = 0 /\ outage' = 0
    /\ faults' = faults + 1
    /\ Round
    /\ UNCHANGED <<conn, result, token, task, expiries, refused>>

-----------------------------------------------------------------------------
(* submit_one raises unless the service answers 200 with a task id *)
Submit ==
    /\ pc = "submit" /\ token = "valid"
    /\ pc' = "poll" /\ task' = "running"
    /\ UNCHANGED <<counters, result, token, history>>

SubmitFails ==
    /\ pc = "submit"
    /\ Return("raised")
    /\ UNCHANGED <<counters, token, task, history>>

-----------------------------------------------------------------------------
(* poll_one *)

PollTimeout ==
    /\ pc = "poll" /\ elapsed >= Timeout
    /\ Return("timeout")
    /\ UNCHANGED <<counters, token, task, history>>

(* status 401: after three in a row the client logs in again *)
Poll401 ==
    /\ pc = "poll" /\ elapsed < Timeout
    /\ token = "expired"
    /\ conn' = 0 /\ outage' = 0
    /\ c401' = c401 + 1
    /\ IF c401' >= Refresh THEN pc' = "login" /\ UNCHANGED <<elapsed, lag>> ELSE Round
    /\ UNCHANGED <<result, token, task, faults, expiries, refused>>

(* _login returns a token, or None after three attempts *)
LoginSucceeds ==
    /\ pc = "login"
    /\ token' = "valid" /\ c401' = 0
    /\ Round
    /\ UNCHANGED <<conn, result, task, faults, expiries, refused, outage>>

LoginFails ==
    /\ pc = "login"
    /\ refused' = refused + 1
    /\ Round
    /\ UNCHANGED <<c401, conn, result, token, task, faults, expiries, outage>>

(* any other status than 200, and any exception but a connection error *)
PollError ==
    /\ pc = "poll" /\ elapsed < Timeout
    /\ c401' = 0 /\ conn' = 0 /\ outage' = 0
    /\ faults' = faults + 1
    /\ Round
    /\ UNCHANGED <<result, token, task, expiries, refused>>

PollConnError ==
    /\ pc = "poll" /\ elapsed < Timeout
    /\ conn' = conn + 1 /\ outage' = outage + 1
    /\ faults' = faults + 1
    /\ IF conn' >= MaxConnErrors
       THEN Return("unavailable") /\ UNCHANGED <<elapsed, lag>>
       ELSE Round /\ UNCHANGED result
    /\ UNCHANGED <<c401, token, task, expiries, refused>>

(* status 200 *)
PollRunning ==
    /\ pc = "poll" /\ elapsed < Timeout
    /\ token = "valid" /\ task = "running"
    /\ c401' = 0 /\ conn' = 0 /\ outage' = 0
    /\ Round
    /\ UNCHANGED <<result, token, task, faults, expiries, refused>>

PollFailed ==
    /\ pc = "poll" /\ elapsed < Timeout
    /\ token = "valid" /\ task = "failed"
    /\ c401' = 0 /\ conn' = 0 /\ outage' = 0
    /\ Return("failed")
    /\ UNCHANGED <<elapsed, token, task, lag, faults, expiries, refused>>

PollCompleted ==
    /\ pc = "poll" /\ elapsed < Timeout
    /\ token = "valid" /\ task = "completed"
    /\ c401' = 0 /\ conn' = 0 /\ outage' = 0
    /\ pc' = "fetch"
    /\ UNCHANGED <<elapsed, result, token, task, lag, faults, expiries, refused>>

(* _fetch_result: one request, whose failure fails the analysis *)
FetchResult ==
    /\ pc = "fetch"
    /\ \/ token = "valid" /\ Return("completed")
       \/ Return("noResult")
    /\ UNCHANGED <<counters, token, task, history>>

(* The worker's next analysis, with the same headers *)
Again ==
    /\ pc = "done"
    /\ pc' = "submit" /\ result' = "none" /\ task' = "none"
    /\ elapsed' = 0 /\ c401' = 0 /\ conn' = 0
    /\ lag' = 0 /\ faults' = 0 /\ refused' = 0 /\ outage' = 0
    /\ expiries' = IF token = "expired" THEN 1 ELSE 0
    /\ UNCHANGED token

Client ==
    \/ Submit \/ SubmitFails
    \/ PollTimeout \/ Poll401 \/ LoginSucceeds \/ LoginFails
    \/ PollError \/ PollConnError \/ PollRunning \/ PollFailed \/ PollCompleted
    \/ FetchResult

(* The service *)
TaskEnds ==
    /\ task = "running"
    /\ task' \in {"completed", "failed"}
    /\ UNCHANGED <<pc, counters, result, token, history>>

TokenExpires ==
    /\ token = "valid" /\ expiries < MaxExpiries
    /\ token' = "expired"
    /\ expiries' = expiries + 1
    /\ UNCHANGED <<pc, counters, result, task, lag, faults, refused, outage>>

ClientNext == Client \/ Again \/ TaskEnds \/ TokenExpires

ClientSpec == ClientInit /\ [][ClientNext]_clientVars

-----------------------------------------------------------------------------
(* Types: the elapsed time never exceeds the timeout *)
ClientTypeOK ==
    /\ pc \in {"submit", "poll", "login", "fetch", "done"}
    /\ elapsed \in 0..Timeout
    /\ c401 \in Nat /\ conn \in Nat
    /\ result \in Results
    /\ token \in {"valid", "expired"}
    /\ task \in {"none", "running", "completed", "failed"}
    /\ lag \in Nat /\ faults \in Nat /\ expiries \in Nat /\ refused \in Nat /\ outage \in Nat

(* A timeout is the service's fault, not the client's: when poll_one times *)
(* out although the task has ended, it has spent every round since then on *)
(* a failed request, on an expired token or on a refused login, and an     *)
(* expired token or a failed request costs at most three rounds. However   *)
(* 401 answers, other errors and logins alternate, the client sees the end *)
(* of the task as soon as it can.                                          *)
TimeoutOnlyIfLate ==
    result = "timeout" /\ Ended => lag <= 3 * (faults + expiries) + refused

(* The service is declared unavailable only after as many requests in a    *)
(* row without a connection, whatever came before them.                    *)
UnavailableMeansOutage == result = "unavailable" => outage = MaxConnErrors
=============================================================================
