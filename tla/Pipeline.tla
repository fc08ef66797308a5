------------------------------ MODULE Pipeline ------------------------------
(***************************************************************************)
(* One run of the pipeline: PipelineOrchestrator.run of                    *)
(* pipeline/orchestrator.py around the dispatcher of StockDispatch. The    *)
(* orchestrator filters, writes an initial report, lets the dispatcher     *)
(* analyse the stocks, counts, and writes the final report. While the      *)
(* dispatcher runs, each worker thread is inside the orchestrator's        *)
(* on_result at point "success": it stores the result and rewrites the     *)
(* report file under report_lock. The final report takes no lock.          *)
(*                                                                         *)
(* A report is the set of stocks it shows an analysis for: ReportGenerator *)
(* takes it from analysis_results, or from the files the TradingAgents     *)
(* server leaves on disk, also for a task the client gave up on.           *)
(***************************************************************************)
EXTENDS StockDispatch

CONSTANTS
    NoReport,    \* there is no report file for the date
    Truncated    \* write_text has emptied the file and not yet filled it again

VARIABLES
    phase,     \* program point of PipelineOrchestrator.run
    started,   \* queue.run was called: the worker threads exist
    disk,      \* the report file: the stocks shown as analysed, NoReport or Truncated
    published, \* history: the stocks some whole report has shown as analysed
    pub,       \* program point of each worker inside on_result
    lock,      \* holder of report_lock, or Nobody
    draft,     \* what a report in the making has read so far, per writer
    files,     \* stocks whose analysis files the server has written
    counted,   \* <<analysis_completed, analysis_failed>>
    success    \* PipelineResult.success

pipeVars == <<phase, started, disk, published, pub, lock, draft, files, counted, success>>
allVars  == <<vars, pipeVars>>

(* on_result catches what its report generation raises *)
ASSUME PipelineAssumption == ~OnResultMayRaise

ASSUME ReportAssumption ==
    NoReport # Truncated /\ \A shown \in SUBSET Stocks : shown \notin {NoReport, Truncated}

Reported == {s \in Stocks : Completed(s)}
Shown    == Reported \cup files
Whole    == disk \notin {NoReport, Truncated}
Failures == UNION {{s} \X DOMAIN extras[s] : s \in Stocks}

PipelineInit ==
    /\ Init
    /\ phase = "filter"
    /\ started = FALSE
    /\ disk = NoReport
    /\ published = {}
    /\ pub = [w \in Workers |-> "idle"]
    /\ lock = Nobody
    /\ draft = [w \in Workers \cup {Nobody} |-> {}]
    /\ files = {}
    /\ counted = <<0, 0>>
    /\ success = FALSE

(* ReportGenerator.generate reads the analyses one stock at a time while   *)
(* others may still arrive (Read, Render), then write_text empties the     *)
(* file (Open) and fills it (Wrote), or breaks off in between.             *)
Read(writer)   == draft' = [draft EXCEPT ![writer] = Shown]
Render(writer) == \E seen \in SUBSET Shown :
                      draft[writer] \subseteq seen /\ draft' = [draft EXCEPT ![writer] = seen]
Open           == disk' = Truncated
Wrote(shown)   == disk' = shown /\ published' = published \cup shown

(* on_result returns to the dispatcher: what generate raised is only logged *)
LeaveOnResult(w) ==
    /\ lock' = Nobody
    /\ pub' = [pub EXCEPT ![w] = "idle"]
    /\ Goto(w, "taskDone")
    /\ UNCHANGED <<queueVars, healthVars, resultVars, extras, mainVars, expired, submits>>
    /\ UNCHANGED <<phase, started, draft, files, counted, success>>

-----------------------------------------------------------------------------
(* Plausible mistakes, used by no specification *)

(* on_result writes the report without report_lock *)
LockReportUnlocked(w) ==
    /\ pc[w] = "success" /\ pub[w] = "lock"
    /\ Read(w)
    /\ pub' = [pub EXCEPT ![w] = "gen"]
    /\ UNCHANGED <<vars, phase, started, disk, published, lock, files, counted, success>>

(* the report is generated from the worker's own result alone *)
PublishOwnOnly(w) ==
    /\ pub[w] = "write"
    /\ Wrote({task[w].stock})
    /\ LeaveOnResult(w)

(* only permanent failures are counted *)
CountFailedOnly ==
    /\ phase = "count"
    /\ phase' = "final"
    /\ counted' = <<Cardinality(Reported), Cardinality({s \in Stocks : extras[s] = <<"failed">>})>>
    /\ UNCHANGED <<vars, started, disk, published, pub, lock, draft, files, success>>

(* the final report is generated from the filter data alone *)
FinalReportFilterOnly ==
    /\ phase = "final"
    /\ phase' = "rendering"
    /\ draft' = [draft EXCEPT ![Nobody] = {}]
    /\ UNCHANGED <<vars, started, disk, published, pub, lock, files, counted, success>>

-----------------------------------------------------------------------------
(* Before the dispatcher *)

(* The filter raises or scans nothing (fatal); passes nothing (an empty    *)
(* report, whose writing or index may raise); or hands over the stocks.    *)
Filter ==
    /\ phase = "filter"
    /\ \/ phase' = "raised" /\ disk' \in {disk, {}, Truncated} /\ UNCHANGED success
       \/ phase' = "returned" /\ disk' = {} /\ success' = TRUE
       \/ phase' = "initial" /\ UNCHANGED <<disk, success>>
    /\ UNCHANGED <<vars, started, published, pub, lock, draft, files, counted>>

(* The first report is written (its index may raise after it), is broken   *)
(* off, or is not begun: whatever is raised is only logged.                *)
InitialReport ==
    /\ phase = "initial"
    /\ phase' = "available"
    /\ Wrote(files) \/ (disk' \in {disk, Truncated} /\ UNCHANGED published)
    /\ UNCHANGED <<vars, started, pub, lock, draft, files, counted, success>>

CheckAvailable ==
    /\ phase = "available"
    /\ \/ phase' = "dispatch" /\ started' = TRUE
       \/ phase' = "count" /\ UNCHANGED started
    /\ UNCHANGED <<vars, disk, published, pub, lock, draft, files, counted, success>>

-----------------------------------------------------------------------------
(* While the dispatcher runs: on_result, in the worker's thread *)

StoreResult(w) ==
    /\ pc[w] = "success" /\ pub[w] = "idle"
    /\ RecordResult(w)
    /\ pub' = [pub EXCEPT ![w] = "lock"]
    /\ UNCHANGED <<queueVars, threadVars, healthVars, primaryBy, extras, mainVars, expired, submits>>
    /\ UNCHANGED <<phase, started, disk, published, lock, draft, files, counted, success>>

LockReport(w) ==
    /\ pc[w] = "success" /\ pub[w] = "lock"
    /\ lock = Nobody
    /\ lock' = w
    /\ Read(w)
    /\ pub' = [pub EXCEPT ![w] = "gen"]
    /\ UNCHANGED <<vars, phase, started, disk, published, files, counted, success>>

(* the page is rendered and write_text opens the file *)
OpenReport(w) ==
    /\ pub[w] = "gen"
    /\ Render(w)
    /\ Open
    /\ pub' = [pub EXCEPT ![w] = "write"]
    /\ UNCHANGED <<vars, phase, started, published, lock, files, counted, success>>

(* the report is written, or its generation raised before or after the     *)
(* file was opened                                                         *)
Publish(w) ==
    /\ \/ pub[w] = "write" /\ Wrote(draft[w])
       \/ pub[w] \in {"gen", "write"} /\ UNCHANGED <<disk, published>>
    /\ LeaveOnResult(w)

OnResultSteps(w) == StoreResult(w) \/ LockReport(w) \/ OpenReport(w) \/ Publish(w)

(* Every other step of the dispatcher leaves the orchestrator alone *)
WorkerStep(w) ==
    \/ OnResultSteps(w)
    \/ /\ \/ Login(w) \/ CheckStop(w) \/ Get(w) \/ GetTimeout(w) \/ PutBack(w) \/ DeadlineSkip(w)
          \/ Begin(w) \/ ProcessFails(w) \/ ProcessSucceeds(w)
          \/ DropDead(w) \/ GiveUp(w) \/ Requeue(w) \/ TaskDone(w)
       /\ UNCHANGED pipeVars

MainStep == Main /\ UNCHANGED pipeVars

(* The server writes the files of a task it was given, at any later time *)
ServerWrites(s) ==
    /\ submits[s] > 0
    /\ files' = files \cup {s}
    /\ UNCHANGED <<vars, phase, started, disk, published, pub, lock, draft, counted, success>>

DispatchReturns ==
    /\ phase = "dispatch"
    /\ main = "done"
    /\ phase' = "count"
    /\ UNCHANGED <<vars, started, disk, published, pub, lock, draft, files, counted, success>>

-----------------------------------------------------------------------------
(* After the dispatcher *)

Count ==
    /\ phase = "count"
    /\ phase' = "final"
    /\ counted' = <<Cardinality(Reported), Cardinality(Failures)>>
    /\ UNCHANGED <<vars, started, disk, published, pub, lock, draft, files, success>>

FinalReport ==
    /\ phase = "final"
    /\ phase' = "rendering"
    /\ Read(Nobody)
    /\ UNCHANGED <<vars, started, disk, published, pub, lock, files, counted, success>>

OpenFinal ==
    /\ phase = "rendering"
    /\ phase' = "writing"
    /\ Render(Nobody)
    /\ Open
    /\ UNCHANGED <<vars, started, published, pub, lock, files, counted, success>>

(* The final report is written, and then its index too or not; or its      *)
(* generation raised before or after the file was opened.                  *)
Return ==
    /\ phase' = "returned"
    /\ \/ phase = "writing" /\ Wrote(draft[Nobody]) /\ success' \in BOOLEAN
       \/ phase \in {"rendering", "writing"} /\ UNCHANGED <<disk, published, success>>
    /\ UNCHANGED <<vars, started, pub, lock, draft, files, counted>>

Orchestrator ==
    \/ Filter \/ InitialReport \/ CheckAvailable
    \/ DispatchReturns \/ Count \/ FinalReport \/ OpenFinal \/ Return

Ended == /\ phase \in {"returned", "raised"}
         /\ UNCHANGED allVars

PipelineNext ==
    \/ Orchestrator
    \/ started /\ (MainStep \/ \E w \in Workers : WorkerStep(w))
    \/ started /\ Expire /\ UNCHANGED pipeVars
    \/ \E s \in Stocks : ServerWrites(s)
    \/ Ended

PipelineSpec == PipelineInit /\ [][PipelineNext]_allVars

(* The threads are scheduled, an analysis and a report generation end *)
PipelineFairness ==
    /\ WF_allVars(Orchestrator)
    /\ WF_allVars(started /\ MainStep)
    /\ \A w \in Workers : WF_allVars(started /\ WorkerStep(w))

PipelineFairSpec == PipelineSpec /\ PipelineFairness

-----------------------------------------------------------------------------
(* Types: the dispatcher's, and the orchestrator's own state *)
PipelineTypeOK ==
    /\ TypeOK
    /\ phase \in {"filter", "initial", "available", "dispatch", "count", "final",
                  "rendering", "writing", "returned", "raised"}
    /\ started \in BOOLEAN
    /\ disk \in (SUBSET Stocks) \cup {NoReport, Truncated}
    /\ published \in SUBSET Stocks
    /\ pub \in [Workers -> {"idle", "lock", "gen", "write"}]
    /\ lock \in Workers \cup {Nobody}
    /\ draft \in [Workers \cup {Nobody} -> SUBSET Stocks]
    /\ files \in SUBSET Stocks
    /\ success \in BOOLEAN

(* One writer at a time works on the report file: the workers exclude each *)
(* other with report_lock, and the final report, which takes no lock, is   *)
(* written only when no worker can still be in on_result.                  *)
OneWriter ==
    /\ \A v, w \in Workers : pub[v] \in {"gen", "write"} /\ pub[w] \in {"gen", "write"} => v = w
    /\ phase \in {"count", "final", "rendering", "writing", "returned"} =>
          \A w \in Workers : pub[w] = "idle" /\ pc[w] # "success"

(* Every whole report on disk shows all that any whole report before it    *)
(* showed, whichever worker or the orchestrator wrote them and whatever    *)
(* broke off between: an emptied file is made good by the next report      *)
(* that is written to its end, never by an older one.                      *)
ReportLosesNothing ==
    /\ Whole => published \subseteq disk
    /\ disk = NoReport => published = {}

(* A run that returns success has every completed analysis in its report,  *)
(* and shows no stock that was neither completed nor finished by the       *)
(* server.                                                                 *)
FinalReportComplete ==
    phase = "returned" /\ success /\ started => Whole /\ Reported \subseteq disk /\ disk \subseteq Shown

(* The two counters of PipelineResult account for every stock, unless the  *)
(* round ended with every worker dead.                                     *)
CountsAddUp ==
    phase = "returned" /\ started /\ dead # Workers => counted[1] + counted[2] = Len(StockList)

(* A run ends: it returns a result or raises the filter's fatal error.     *)
RunEnds == <>(phase \in {"returned", "raised"})

(* The report has one writer and ends complete: the parts above as one     *)
(* invariant.                                                              *)
ReportInv == PipelineTypeOK /\ OneWriter /\ FinalReportComplete

=============================================================================
