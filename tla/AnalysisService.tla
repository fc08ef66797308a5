--------------------------- MODULE AnalysisService ---------------------------
(***************************************************************************)
(* The life of an analysis task in the TradingAgents-CN server, as the     *)
(* pipeline's client drives it: POST /api/analysis/batch creates a task    *)
(* for its one stock and starts execute_analysis_background of             *)
(* SimpleAnalysisService as a task of the event loop (POST /single does so *)
(* too), the analysis itself runs in a thread of a shared pool, and the    *)
(* client polls the status and fetches the result. A task is kept twice: in MemoryStateManager, which  *)
(* a restart of the server empties, and as documents of MongoDB. Every     *)
(* operation writes memory first and the document after an await, so that  *)
(* the jobs, the pool's threads and the administrator's requests (mark as  *)
(* failed, delete, clean up zombies) interleave between the two. A write   *)
(* to MongoDB may fail: the server logs it and goes on.                    *)
(***************************************************************************)
EXTENDS Naturals, Sequences, FiniteSets

CONSTANTS
    Tasks,         \* tasks the clients submit
    PoolSize,      \* max_workers of the shared ThreadPoolExecutor
    MaxDbFaults,   \* bound: writes to MongoDB that fail
    MaxCrashes,    \* bound: times the server process dies and is restarted
    MaxRequests    \* bound: requests of administrators

ASSUME ServiceAssumption ==
    /\ PoolSize \in Nat \ {0}
    /\ MaxDbFaults \in Nat
    /\ MaxCrashes \in Nat
    /\ MaxRequests \in Nat

VARIABLES
    job,        \* program point of each task's request and background job
    mem,        \* status in MemoryStateManager, "none" without an entry
    memResult,  \* tasks whose entry in memory holds result_data
    doc,        \* document in analysis_tasks
    reports,    \* tasks with a document in analysis_reports
    pool,       \* analyses submitted to the pool and not started, in order
    admin,      \* program point of an administrator's request for a task
    zombie,     \* program point of cleanup_zombie_tasks
    requests,   \* administrators' requests so far
    dbFaults,   \* writes that have failed so far
    crashes,    \* restarts so far
    trouble,    \* what has happened to a task: history of faults
    deleted     \* tasks whose deletion has been confirmed: history

taskVars  == <<job, pool>>
memVars   == <<mem, memResult>>
faultVars == <<dbFaults, trouble>>
vars == <<job, mem, memResult, doc, reports, pool, admin, zombie, requests,
          dbFaults, crashes, trouble, deleted>>

Unfinished == {"pending", "processing", "running"}
Terminal   == {"completed", "failed"}
JobPoints  == {"new", "created", "accepted", "doc10", "mem20", "doc20",
               "queued", "running", "ran", "raised", "reported", "unsaved",
               "saved", "completing", "failing", "done", "dead"}
NoDoc == [status |-> "none", started |-> FALSE, result |-> "none"]

(* A task is known from its creation on *)
Known(t)  == job[t] # "new"
Running   == {t \in Tasks : job[t] = "running"}

Init ==
    /\ job = [t \in Tasks |-> "new"]
    /\ mem = [t \in Tasks |-> "none"]
    /\ memResult = {}
    /\ doc = [t \in Tasks |-> NoDoc]
    /\ reports = {}
    /\ pool = <<>>
    /\ admin = [t \in Tasks |-> "idle"]
    /\ zombie = "idle"
    /\ requests = 0
    /\ dbFaults = 0
    /\ crashes = 0
    /\ trouble = [t \in Tasks |-> {}]
    /\ deleted = {}

-----------------------------------------------------------------------------
(* The two stores *)

(* update_task_status of the memory manager: nothing for an unknown task *)
SetMemory(t, status) == mem' = [mem EXCEPT ![t] = IF @ = "none" THEN @ ELSE status]

(* a write to MongoDB raises *)
DbFault(t) ==
    /\ dbFaults < MaxDbFaults
    /\ dbFaults' = dbFaults + 1
    /\ trouble' = [trouble EXCEPT ![t] = @ \cup {"db"}]

(* update_one creates a document that is missing *)
SetDocUpserting(t, new) == doc' = [doc EXCEPT ![t] = new]

(* update_one without upsert: nothing for a document that is missing *)
SetDoc(t, new) == doc' = [doc EXCEPT ![t] = IF @.status = "none" THEN @ ELSE new]

WriteDoc(t, new) ==
    \/ SetDoc(t, new) /\ UNCHANGED faultVars
    \/ DbFault(t) /\ UNCHANGED doc

-----------------------------------------------------------------------------
(* GET /tasks/{id}/status and /result: memory first, then the documents *)

StatusOf(t) ==
    IF mem[t] # "none" THEN mem[t]
    ELSE IF doc[t].status # "none" THEN doc[t].status
    ELSE IF t \in reports THEN "completed" ELSE "none"

ResultOf(t) ==
    IF \/ mem[t] = "completed" /\ t \in memResult
       \/ t \in reports
    THEN "full" ELSE doc[t].result

-----------------------------------------------------------------------------
(* The request POST /single and the background job of a task *)

Goto(t, point) == job' = [job EXCEPT ![t] = point]

-----------------------------------------------------------------------------
(* Plausible mistakes, used by no specification *)

(* the pool holds one waiting analysis and drops another *)
MarkProcessingDropping(t) ==
    /\ job[t] \in {"doc10", "doc20"}
    /\ Goto(t, IF job[t] = "doc10" THEN "mem20" ELSE "queued")
    /\ pool' = IF job[t] = "doc20" /\ pool = <<>> THEN <<t>> ELSE pool
    /\ WriteDoc(t, [doc[t] EXCEPT !.status = "processing",
                                  !.started = @ \/ job[t] = "doc10"])
    /\ UNCHANGED <<memVars, reports, admin, zombie, requests, crashes, deleted>>

(* progress is still reported when the analysis is over *)
ReportProgressLate(t) ==
    /\ job[t] \in {"running", "done"}
    /\ SetMemory(t, "running")
    /\ UNCHANGED <<taskVars, memResult, doc, reports, admin, zombie, requests, faultVars, crashes, deleted>>

(* result_data is not passed on *)
CompleteMemoryBare(t) ==
    /\ job[t] = "saved"
    /\ Goto(t, "completing")
    /\ SetMemory(t, "completed")
    /\ UNCHANGED <<memResult, doc, reports, pool, admin, zombie, requests, faultVars, crashes, deleted>>

(* the failure is noted in memory only *)
FailDocForgotten(t) ==
    /\ job[t] = "failing"
    /\ Goto(t, "done")
    /\ UNCHANGED <<memVars, doc, reports, pool, admin, zombie, requests, faultVars, crashes, deleted>>

-----------------------------------------------------------------------------
(* create_analysis_task: the entry in memory *)
CreateTask(t) ==
    /\ job[t] = "new"
    /\ Goto(t, "created")
    /\ mem' = [mem EXCEPT ![t] = "pending"]
    /\ UNCHANGED <<memResult, doc, reports, pool, admin, zombie, requests, faultVars, crashes, deleted>>

(* ... and the document ($setOnInsert, upsert); a failure is only logged. *)
(* The client gets the task's id and the background job is scheduled.     *)
SaveTask(t) ==
    /\ job[t] = "created"
    /\ Goto(t, "accepted")
    /\ \/ /\ doc' = [doc EXCEPT ![t] = IF @.status = "none"
                                       THEN [NoDoc EXCEPT !.status = "pending"] ELSE @]
          /\ UNCHANGED faultVars
       \/ DbFault(t) /\ UNCHANGED doc
    /\ UNCHANGED <<memVars, reports, pool, admin, zombie, requests, crashes, deleted>>

(* status running in memory: at 10 percent when the stock is valid and the *)
(* progress tracker exists, and again at 20 percent                        *)
MarkRunning(t) ==
    /\ job[t] \in {"accepted", "mem20"}
    /\ Goto(t, IF job[t] = "accepted" THEN "doc10" ELSE "doc20")
    /\ SetMemory(t, "running")
    /\ UNCHANGED <<memResult, doc, reports, pool, admin, zombie, requests, faultVars, crashes, deleted>>

(* status processing in the document, started_at at 10 percent; at 20 the *)
(* analysis is submitted to the pool                                      *)
MarkProcessing(t) ==
    /\ job[t] \in {"doc10", "doc20"}
    /\ Goto(t, IF job[t] = "doc10" THEN "mem20" ELSE "queued")
    /\ pool' = IF job[t] = "doc20" THEN Append(pool, t) ELSE pool
    /\ WriteDoc(t, [doc[t] EXCEPT !.status = "processing",
                                  !.started = @ \/ job[t] = "doc10"])
    /\ UNCHANGED <<memVars, reports, admin, zombie, requests, crashes, deleted>>

(* a thread of the pool takes the next analysis *)
StartAnalysis ==
    /\ pool # <<>>
    /\ Cardinality(Running) < PoolSize
    /\ Goto(Head(pool), "running")
    /\ pool' = Tail(pool)
    /\ UNCHANGED <<memVars, doc, reports, admin, zombie, requests, faultVars, crashes, deleted>>

(* update_progress_sync and graph_progress_callback, from the thread: the *)
(* status in memory becomes running, whatever it was; the document only   *)
(* gets the percentage                                                    *)
ReportProgress(t) ==
    /\ job[t] = "running"
    /\ SetMemory(t, "running")
    /\ UNCHANGED <<taskVars, memResult, doc, reports, admin, zombie, requests, faultVars, crashes, deleted>>

(* _run_analysis_sync returns a result or raises *)
EndAnalysis(t) ==
    /\ job[t] = "running"
    /\ \E point \in {"ran", "raised"} : Goto(t, point)
    /\ UNCHANGED <<memVars, doc, reports, pool, admin, zombie, requests, faultVars, crashes, deleted>>

(* _save_analysis_result_web_style: the report, then the result in the    *)
(* task's document, or after a failure of either a short result there     *)
SaveReport(t) ==
    /\ job[t] = "ran"
    /\ \/ /\ Goto(t, "reported")
          /\ reports' = reports \cup {t}
          /\ UNCHANGED faultVars
       \/ /\ Goto(t, "unsaved")
          /\ DbFault(t)
          /\ UNCHANGED reports
    /\ UNCHANGED <<memVars, doc, pool, admin, zombie, requests, crashes, deleted>>

SaveResult(t) ==
    /\ job[t] = "reported"
    /\ \/ /\ Goto(t, "saved")
          /\ SetDoc(t, [doc[t] EXCEPT !.result = "full"])
          /\ UNCHANGED faultVars
       \/ Goto(t, "unsaved") /\ DbFault(t) /\ UNCHANGED doc
    /\ UNCHANGED <<memVars, reports, pool, admin, zombie, requests, crashes, deleted>>

SaveShortResult(t) ==
    /\ job[t] = "unsaved"
    /\ Goto(t, "saved")
    /\ WriteDoc(t, [doc[t] EXCEPT !.result = "short"])
    /\ UNCHANGED <<memVars, reports, pool, admin, zombie, requests, crashes, deleted>>

(* status completed in memory, with result_data, then in the document *)
CompleteMemory(t) ==
    /\ job[t] = "saved"
    /\ Goto(t, "completing")
    /\ SetMemory(t, "completed")
    /\ memResult' = IF mem[t] = "none" THEN memResult ELSE memResult \cup {t}
    /\ UNCHANGED <<doc, reports, pool, admin, zombie, requests, faultVars, crashes, deleted>>

CompleteDoc(t) ==
    /\ job[t] = "completing"
    /\ Goto(t, "done")
    /\ WriteDoc(t, [doc[t] EXCEPT !.status = "completed"])
    /\ UNCHANGED <<memVars, reports, pool, admin, zombie, requests, crashes, deleted>>

(* an unknown stock, the five minutes of the validation, or an exception: *)
(* of the progress tracker before either mark, or of the analysis         *)
FailMemory(t) ==
    /\ job[t] \in {"accepted", "mem20", "raised"}
    /\ Goto(t, "failing")
    /\ SetMemory(t, "failed")
    /\ UNCHANGED <<memResult, doc, reports, pool, admin, zombie, requests, faultVars, crashes, deleted>>

FailDoc(t) ==
    /\ job[t] = "failing"
    /\ Goto(t, "done")
    /\ WriteDoc(t, [doc[t] EXCEPT !.status = "failed"])
    /\ UNCHANGED <<memVars, reports, pool, admin, zombie, requests, crashes, deleted>>

-----------------------------------------------------------------------------
(* The administrator's requests, one at a time for a task *)

Request == requests < MaxRequests /\ requests' = requests + 1

Touched(ts) == [t \in Tasks |-> IF t \in ts THEN trouble[t] \cup {"admin"} ELSE trouble[t]]

(* POST /tasks/{id}/mark-failed *)
MarkFailedMemory(t) ==
    /\ Request
    /\ Known(t)
    /\ admin[t] = "idle"
    /\ admin' = [admin EXCEPT ![t] = "marking"]
    /\ SetMemory(t, "failed")
    /\ trouble' = Touched({t})
    /\ UNCHANGED <<taskVars, memResult, doc, reports, zombie, dbFaults, crashes, deleted>>

MarkFailedDoc(t) ==
    /\ admin[t] = "marking"
    /\ admin' = [admin EXCEPT ![t] = "idle"]
    /\ WriteDoc(t, [doc[t] EXCEPT !.status = "failed"])
    /\ UNCHANGED <<taskVars, memVars, reports, zombie, requests, crashes, deleted>>

(* DELETE /tasks/{id}; the report stays. A task that is deleted before its *)
(* creation has written the document is not counted as deleted.            *)
DeleteMemory(t) ==
    /\ Request
    /\ Known(t)
    /\ admin[t] = "idle"
    /\ admin' = [admin EXCEPT ![t] = "deleting"]
    /\ mem' = [mem EXCEPT ![t] = "none"]
    /\ memResult' = memResult \ {t}
    /\ trouble' = Touched({t})
    /\ UNCHANGED <<taskVars, doc, reports, zombie, dbFaults, crashes, deleted>>

DeleteDoc(t) ==
    /\ admin[t] = "deleting"
    /\ admin' = [admin EXCEPT ![t] = "idle"]
    /\ \/ /\ doc' = [doc EXCEPT ![t] = NoDoc]
          /\ deleted' = IF job[t] = "created" THEN deleted ELSE deleted \cup {t}
          /\ UNCHANGED faultVars
       \/ DbFault(t) /\ UNCHANGED <<doc, deleted>>
    /\ UNCHANGED <<taskVars, memVars, reports, zombie, requests, crashes>>

(* cleanup_zombie_tasks: first the entries in memory that are not finished *)
(* and older than max_running_hours (any of them may be), then the         *)
(* documents with an old started_at. The second update may change nothing: *)
(* MongoDB refuses a filter that, as the one for created_at does, holds a  *)
(* field name among the operators.                                         *)
CleanZombieMemory ==
    /\ Request
    /\ zombie = "idle"
    /\ zombie' = "docs"
    /\ \E zombies \in SUBSET {t \in Tasks : mem[t] \in {"pending", "running"}} :
          /\ mem' = [t \in Tasks |-> IF t \in zombies THEN "failed" ELSE mem[t]]
          /\ trouble' = Touched(zombies)
    /\ UNCHANGED <<taskVars, memResult, doc, reports, admin, dbFaults, crashes, deleted>>

CleanZombieDocs ==
    /\ zombie = "docs"
    /\ zombie' = "idle"
    /\ \E zombies \in SUBSET {t \in Tasks : doc[t].started /\ doc[t].status \in Unfinished} :
          /\ doc' = [t \in Tasks |-> IF t \in zombies
                                     THEN [doc[t] EXCEPT !.status = "failed"] ELSE doc[t]]
          /\ trouble' = Touched(zombies)
    /\ UNCHANGED <<taskVars, memVars, reports, admin, requests, dbFaults, crashes, deleted>>

(* The server dies and is started again: jobs and memory are gone, and     *)
(* nothing at the start looks at the documents of unfinished tasks.        *)
Crash ==
    /\ crashes < MaxCrashes
    /\ crashes' = crashes + 1
    /\ job' = [t \in Tasks |-> IF job[t] \in {"new", "done"} THEN job[t] ELSE "dead"]
    /\ mem' = [t \in Tasks |-> "none"]
    /\ memResult' = {}
    /\ pool' = <<>>
    /\ admin' = [t \in Tasks |-> "idle"]
    /\ zombie' = "idle"
    /\ UNCHANGED <<doc, reports, requests, faultVars, deleted>>

-----------------------------------------------------------------------------
JobStep(t) ==
    \/ CreateTask(t) \/ SaveTask(t) \/ MarkRunning(t) \/ MarkProcessing(t)
    \/ EndAnalysis(t) \/ SaveReport(t) \/ SaveResult(t) \/ SaveShortResult(t)
    \/ CompleteMemory(t) \/ CompleteDoc(t) \/ FailMemory(t) \/ FailDoc(t)

AdminStep(t) == MarkFailedMemory(t) \/ MarkFailedDoc(t) \/ DeleteMemory(t) \/ DeleteDoc(t)

Next ==
    \/ \E t \in Tasks : JobStep(t) \/ ReportProgress(t) \/ AdminStep(t)
    \/ StartAnalysis
    \/ CleanZombieMemory
    \/ CleanZombieDocs
    \/ Crash

Spec == Init /\ [][Next]_vars

(* The event loop runs every job on, the pool starts what it can, and an   *)
(* analysis ends: the graph has a recursion limit and its calls time out.  *)
FairSpec ==
    /\ Spec
    /\ \A t \in Tasks : WF_vars(Known(t) /\ JobStep(t))
    /\ WF_vars(StartAnalysis)

-----------------------------------------------------------------------------
(* Properties *)

Document == [status  : {"none", "pending", "processing"} \cup Terminal,
             started : BOOLEAN,
             result  : {"none", "short", "full"}]

(* Types: the words of the two stores are not mixed up (running in memory, *)
(* processing in the document), and a result is none, short or full.       *)
TypeOK ==
    /\ job \in [Tasks -> JobPoints]
    /\ mem \in [Tasks -> {"none", "pending", "running"} \cup Terminal]
    /\ memResult \in SUBSET Tasks
    /\ doc \in [Tasks -> Document]
    /\ reports \in SUBSET Tasks
    /\ pool \in Seq(Tasks)
    /\ admin \in [Tasks -> {"idle", "marking", "deleting"}]
    /\ zombie \in {"idle", "docs"}
    /\ requests \in 0 .. MaxRequests
    /\ dbFaults \in 0 .. MaxDbFaults
    /\ crashes \in 0 .. MaxCrashes
    /\ trouble \in [Tasks -> SUBSET {"db", "admin"}]
    /\ deleted \in SUBSET Tasks

(* What the status request answers as completed can be fetched in full:   *)
(* from memory always, and after a restart or a deletion from the report, *)
(* which is saved before the status is set. Only a failed write to        *)
(* MongoDB leaves a completed task without a full result.                 *)
CompletedIsDeliverable ==
    \A t \in Tasks :
        StatusOf(t) = "completed" /\ (mem[t] # "none" \/ "db" \notin trouble[t])
            => ResultOf(t) = "full"

(* A job that is over never leaves its task unfinished for a client that  *)
(* polls: not through late progress of its thread, not through zombies    *)
(* that came back to life, and not after a restart, unless its last write *)
(* to MongoDB failed.                                                     *)
NothingLeftUnfinished ==
    \A t \in Tasks :
        job[t] = "done" /\ (mem[t] # "none" \/ "db" \notin trouble[t])
            => StatusOf(t) \notin Unfinished

(* Left alone by administrators and by the database's failures, a task    *)
(* that is over has one outcome in every store, and a report exactly when *)
(* it is completed.                                                       *)
StoresAgree ==
    \A t \in Tasks :
        job[t] = "done" /\ trouble[t] = {}
            => /\ mem[t] \in {"none", doc[t].status}
               /\ doc[t].status \in Terminal
               /\ doc[t].status = "completed" <=> t \in reports

(* The job of a deleted task runs on, but its writes do not bring the     *)
(* task back: it is unknown, or known as completed from its report.       *)
DeletedNeverRuns == \A t \in deleted : StatusOf(t) \in {"none", "completed"}

(* Every task that was accepted settles: from some time on the client is  *)
(* told an outcome, or that there is no such task; the exceptions are a   *)
(* crash during the job and a write to MongoDB that failed.               *)
EveryTaskSettles ==
    \A t \in Tasks :
        job[t] = "accepted" ~>
            [](StatusOf(t) \in Terminal \cup {"none"} \/ job[t] = "dead" \/ "db" \in trouble[t])

(* A task that is over keeps its outcome: the parts above as one invariant *)
OutcomeStands == TypeOK /\ NothingLeftUnfinished /\ StoresAgree

=============================================================================
