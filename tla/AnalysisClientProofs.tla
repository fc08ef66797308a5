------------------------ MODULE AnalysisClientProofs ------------------------
(***************************************************************************)
(* Proofs about AnalysisClient, for every timeout, every limit on          *)
(* connection errors and every number of expired tokens.                   *)
(***************************************************************************)
EXTENDS AnalysisClient, TLAPS

(* The rounds that the token in the headers may still cost: none while it  *)
(* is valid, otherwise those left until poll_one logs in.                  *)
Owed == IF token = "valid" THEN 0 ELSE IF c401 < Refresh THEN Refresh - c401 ELSE 1

(* the same inside the round whose third 401 led to the login *)
OwedNow == IF pc = "login" THEN 1 ELSE Owed

(* The account of the rounds: what was made after the end of the task and  *)
(* what the token may still cost is covered by the faults so far. A valid  *)
(* token has no 401 answers counted against it.                            *)
Account == lag + OwedNow <= 3 * (faults + expiries) + refused

TokenCounts ==
    /\ token = "valid" => c401 = 0
    /\ pc = "login" => token = "expired" /\ c401 >= Refresh /\ elapsed < Timeout

(* The counter of connection errors is the length of the outage *)
ConnCounts ==
    /\ conn = outage
    /\ pc \in {"submit", "poll", "login", "fetch"} => conn < MaxConnErrors
    /\ conn <= MaxConnErrors
    /\ result = "unavailable" => pc = "done" /\ conn = MaxConnErrors

Inv == ClientTypeOK /\ Account /\ TokenCounts /\ ConnCounts

-----------------------------------------------------------------------------
LEMMA InitInv == ClientInit => Inv
  BY ClientAssumption DEF ClientInit, Inv, ClientTypeOK, Results, Account, OwedNow, Owed, TokenCounts, ConnCounts, Refresh

(* The inductive step, action by action *)
LEMMA StepInv == Inv /\ [ClientNext]_clientVars => Inv'
<1> SUFFICES ASSUME Inv, [ClientNext]_clientVars PROVE Inv'
  OBVIOUS
<1> USE ClientAssumption DEF Inv, ClientTypeOK, Results, Account, OwedNow, Owed, TokenCounts, ConnCounts,
        Refresh, counters, history
<1>1. CASE Submit
  BY <1>1 DEF Submit
<1>2. CASE SubmitFails
  BY <1>2 DEF SubmitFails, Return
<1>3. CASE PollTimeout
  BY <1>3 DEF PollTimeout, Return
<1>4. CASE Poll401
  BY <1>4 DEF Poll401, Round, Ended
<1>5. CASE LoginSucceeds
  BY <1>5 DEF LoginSucceeds, Round, Ended
<1>6. CASE LoginFails
  BY <1>6 DEF LoginFails, Round, Ended
<1>7. CASE PollError
  BY <1>7 DEF PollError, Round, Ended
<1>8. CASE PollConnError
  BY <1>8 DEF PollConnError, Round, Return, Ended
<1>9. CASE PollRunning
  BY <1>9 DEF PollRunning, Round, Ended
<1>10. CASE PollFailed
  BY <1>10 DEF PollFailed, Return
<1>11. CASE PollCompleted
  BY <1>11 DEF PollCompleted
<1>12. CASE FetchResult
  BY <1>12 DEF FetchResult, Return
<1>13. CASE Again
  BY <1>13 DEF Again
<1>14. CASE TaskEnds
  BY <1>14 DEF TaskEnds
<1>15. CASE TokenExpires
  BY <1>15 DEF TokenExpires
<1>16. CASE UNCHANGED clientVars
  BY <1>16 DEF clientVars
<1>17. QED
  BY <1>1, <1>2, <1>3, <1>4, <1>5, <1>6, <1>7, <1>8, <1>9, <1>10, <1>11, <1>12, <1>13, <1>14, <1>15, <1>16
     DEF ClientNext, Client

LEMMA Invariance == ClientSpec => []Inv
  BY InitInv, StepInv, PTL DEF ClientSpec

-----------------------------------------------------------------------------
(* TimeoutOnlyIfLate, for every timeout: poll_one sees the end of a task   *)
(* within three rounds per fault or expired token and one per refused      *)
(* login.                                                                  *)
THEOREM SeesTheEnd == ClientSpec => []TimeoutOnlyIfLate
<1>1. Inv => TimeoutOnlyIfLate
  BY DEF Inv, ClientTypeOK, Account, OwedNow, Owed, TokenCounts, TimeoutOnlyIfLate, Refresh
<1>2. QED
  BY <1>1, Invariance, PTL

(* UnavailableMeansOutage, for every limit: the service is given up only   *)
(* after that many connection errors in a row.                             *)
THEOREM GivesUpOnOutage == ClientSpec => []UnavailableMeansOutage
<1>1. Inv => UnavailableMeansOutage
  BY DEF Inv, ConnCounts, UnavailableMeansOutage
<1>2. QED
  BY <1>1, Invariance, PTL
=============================================================================
