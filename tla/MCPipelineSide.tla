---------------------------- MODULE MCPipelineSide ----------------------------
(***************************************************************************)
(* An instance of three parts of the pipeline whose models share no state: *)
(* the scheduler that starts its runs, the filter with which a run begins  *)
(* and the client with which a worker of a run has one stock after the     *)
(* other analysed. Each initial state is that of one of them, so that      *)
(* their states add up instead of multiplying.                             *)
(***************************************************************************)
EXTENDS Scheduler, StockFilter, AnalysisClient

VARIABLE part

sideVars == <<part, vars, filterVars, clientVars>>

SideInit ==
    /\ part \in {"scheduler", "filter", "client"}
    /\ Init /\ FilterInit /\ ClientInit
    /\ part # "scheduler" => holidays = {} /\ serving /\ scheduleHour = Min(ScheduleHours)

SchedulerPart(A) == part = "scheduler" /\ A /\ UNCHANGED <<part, filterVars, clientVars>>
FilterPart(A)    == part = "filter" /\ A /\ UNCHANGED <<part, vars, clientVars>>
ClientPart(A)    == part = "client" /\ A /\ UNCHANGED <<part, vars, filterVars>>

(* run_filter has returned and its threads are gone *)
Returned == phase \in {"finished", "cancelled"} /\ UNCHANGED filterVars

SideNext ==
    \/ SchedulerPart(Next)
    \/ FilterPart(FilterNext) \/ FilterPart(Returned)
    \/ ClientPart(ClientNext)

(* The threads of the filter and of the worker run, and their requests     *)
(* have timeouts; nothing is assumed of the services                       *)
SideSpec ==
    /\ SideInit /\ [][SideNext]_sideVars
    /\ WF_sideVars(FilterPart(Main))
    /\ \A w \in Pool : WF_sideVars(FilterPart(Process(w)))
    /\ WF_sideVars(ClientPart(Client))

(* run_filter returns: the pool ends its stocks and the collection of      *)
(* results does not wait for a future that was given up, wherever Ctrl+C   *)
(* falls.                                                                  *)
FilterRunEnds == part = "filter" => <>(phase \in {"finished", "cancelled"})

(* Every analysis ends, whatever the service does: also when its task      *)
(* never ends, every token expires and every request fails.                *)
AnalysisEnds == part = "client" /\ pc # "done" ~> pc = "done"

=============================================================================
