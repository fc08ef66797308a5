------------------------ MODULE AnalysisServiceProofs ------------------------
(***************************************************************************)
(* Proofs about the life of an analysis task in TradingAgents-CN, for any  *)
(* number of tasks, pool threads, faults, restarts and requests.           *)
(***************************************************************************)
EXTENDS AnalysisService, TLAPS

-----------------------------------------------------------------------------
(* The inductive invariant *)

(* Points of a job before its report is saved, or on a way without one *)
Unreported == {"new", "created", "accepted", "doc10", "mem20", "doc20", "queued",
               "running", "ran", "raised", "failing"}

(* Memory: completed comes with the result, and no progress is reported    *)
(* once the outcome is set                                                 *)
MemoryInv(t) ==
    /\ mem[t] = "completed" => t \in memResult
    /\ job[t] \in {"completing", "failing", "done"} => mem[t] \in {"none"} \cup Terminal

(* Documents: the report comes before the result, the result before the    *)
(* status, unless a write failed                                           *)
DocumentInv(t) ==
    /\ job[t] \in Unreported => t \notin reports
    /\ "db" \notin trouble[t] =>
           /\ job[t] # "unsaved"
           /\ job[t] \in {"reported", "saved", "completing"} => t \in reports
           /\ doc[t].status = "completed" => t \in reports
           /\ job[t] = "done" => doc[t].status \in {"none"} \cup Terminal

(* A task left alone has a document, and both stores go the same way *)
AloneInv(t) ==
    trouble[t] = {} =>
        /\ job[t] = "completing" => mem[t] \in {"none", "completed"}
        /\ job[t] = "failing" => mem[t] \in {"none", "failed"}
        /\ job[t] \notin {"new", "created", "dead"} => doc[t].status # "none"
        /\ job[t] = "done" => /\ mem[t] \in {"none", doc[t].status}
                              /\ doc[t].status = "completed" <=> t \in reports

(* A request of an administrator leaves its trace, and what is deleted     *)
(* from memory and then from the documents stays deleted                   *)
AdminInv(t) ==
    /\ admin[t] # "idle" => "admin" \in trouble[t]
    /\ admin[t] = "deleting" => mem[t] = "none" /\ job[t] # "new"
    /\ t \in deleted => mem[t] = "none" /\ doc[t].status = "none" /\ job[t] \notin {"new", "created"}

TaskInv(t) == MemoryInv(t) /\ DocumentInv(t) /\ AloneInv(t) /\ AdminInv(t)

(* What waits in the pool is a queued analysis, once *)
PoolInv ==
    /\ \A i \in DOMAIN pool : job[pool[i]] = "queued"
    /\ \A i, j \in DOMAIN pool : pool[i] = pool[j] => i = j

ServiceInv == TypeOK /\ PoolInv /\ \A t \in Tasks : TaskInv(t)

-----------------------------------------------------------------------------
(* A step that leaves task t alone leaves its invariant alone *)
Same(t) ==
    /\ job'[t] = job[t] /\ mem'[t] = mem[t] /\ doc'[t] = doc[t]
    /\ admin'[t] = admin[t] /\ trouble'[t] = trouble[t]
    /\ t \in memResult' <=> t \in memResult
    /\ t \in reports' <=> t \in reports
    /\ t \in deleted' <=> t \in deleted

LEMMA TaskSame ==
    ASSUME NEW t \in Tasks, TaskInv(t), Same(t)
    PROVE  TaskInv(t)'
BY DEF TaskInv, Same, MemoryInv, DocumentInv, AloneInv, AdminInv, Unreported

LEMMA ServiceInit == Init => ServiceInv
<1> SUFFICES ASSUME Init PROVE ServiceInv
  OBVIOUS
<1>1. NoDoc \in Document /\ NoDoc.status = "none"
  BY DEF NoDoc, Document
<1>2. TypeOK
  BY <1>1, ServiceAssumption DEF Init, TypeOK, JobPoints
<1>3. PoolInv
  BY DEF Init, PoolInv
<1>4. \A t \in Tasks : TaskInv(t)
  BY <1>1 DEF Init, TaskInv, MemoryInv, DocumentInv, AloneInv, AdminInv, Unreported
<1>5. QED
  BY <1>2, <1>3, <1>4 DEF ServiceInv

-----------------------------------------------------------------------------
(* The helpers of the model *)

LEMMA GotoIs ==
    ASSUME TypeOK, NEW t \in Tasks, NEW p \in JobPoints, Goto(t, p)
    PROVE  job' \in [Tasks -> JobPoints] /\ job'[t] = p /\ \A u \in Tasks \ {t} : job'[u] = job[u]
<1>1. job' = [job EXCEPT ![t] = p] /\ job \in [Tasks -> JobPoints]
  BY DEF Goto, TypeOK
<1>2. QED
  BY <1>1

LEMMA SetMemoryIs ==
    ASSUME TypeOK, NEW t \in Tasks, NEW s \in {"running"} \cup Terminal, SetMemory(t, s)
    PROVE  /\ mem' \in [Tasks -> {"none", "pending", "running"} \cup Terminal]
           /\ mem'[t] = IF mem[t] = "none" THEN "none" ELSE s
           /\ \A u \in Tasks \ {t} : mem'[u] = mem[u]
BY DEF SetMemory, TypeOK, Terminal

(* A write to MongoDB fails and leaves its trace *)
LEMMA DbFaultIs ==
    ASSUME TypeOK, NEW t \in Tasks, DbFault(t)
    PROVE  /\ dbFaults' \in 0 .. MaxDbFaults /\ trouble' \in [Tasks -> SUBSET {"db", "admin"}]
           /\ trouble'[t] = trouble[t] \cup {"db"} /\ \A u \in Tasks \ {t} : trouble'[u] = trouble[u]
<1>1. dbFaults' \in 0 .. MaxDbFaults
  BY ServiceAssumption DEF DbFault, TypeOK
<1>2. /\ trouble \in [Tasks -> SUBSET {"db", "admin"}]
      /\ trouble' = [trouble EXCEPT ![t] = trouble[t] \cup {"db"}]
  BY DEF DbFault, TypeOK
<1>3. QED
  BY <1>1, <1>2

LEMMA WriteDocIs ==
    ASSUME TypeOK, NEW t \in Tasks, NEW new \in Document, WriteDoc(t, new)
    PROVE  /\ doc' \in [Tasks -> Document] /\ \A u \in Tasks \ {t} : doc'[u] = doc[u]
           /\ dbFaults' \in 0 .. MaxDbFaults /\ trouble' \in [Tasks -> SUBSET {"db", "admin"}]
           /\ \A u \in Tasks \ {t} : trouble'[u] = trouble[u]
           /\ \/ /\ doc'[t] = IF doc[t].status = "none" THEN doc[t] ELSE new
                 /\ trouble'[t] = trouble[t]
              \/ doc'[t] = doc[t] /\ trouble'[t] = trouble[t] \cup {"db"}
<1>1. doc \in [Tasks -> Document] /\ dbFaults \in 0 .. MaxDbFaults /\ trouble \in [Tasks -> SUBSET {"db", "admin"}]
  BY DEF TypeOK
<1>2. CASE SetDoc(t, new) /\ UNCHANGED faultVars
  BY <1>1, <1>2 DEF SetDoc, faultVars
<1>3. CASE DbFault(t) /\ UNCHANGED doc
  BY <1>1, <1>3, DbFaultIs
<1>4. QED
  BY <1>2, <1>3 DEF WriteDoc

(* An administrator's step leaves its trace *)
LEMMA TouchedIs ==
    ASSUME TypeOK, NEW ts \in SUBSET Tasks, trouble' = Touched(ts)
    PROVE  /\ trouble' \in [Tasks -> SUBSET {"db", "admin"}]
           /\ \A t \in ts : trouble'[t] = trouble[t] \cup {"admin"}
           /\ \A t \in Tasks \ ts : trouble'[t] = trouble[t]
<1>1. trouble \in [Tasks -> SUBSET {"db", "admin"}]
  BY DEF TypeOK
<1>2. \A t \in Tasks : (IF t \in ts THEN trouble[t] \cup {"admin"} ELSE trouble[t]) \in SUBSET {"db", "admin"}
  BY <1>1
<1>3. QED
  BY <1>2 DEF Touched

(* The pool after a step of a job that is not queued *)
LEMMA PoolKept ==
    ASSUME TypeOK, PoolInv, NEW t \in Tasks, job[t] # "queued", pool' = pool,
           \A u \in Tasks \ {t} : job'[u] = job[u]
    PROVE  PoolInv'
<1>1. \A i \in DOMAIN pool : pool[i] \in Tasks
  BY DEF TypeOK
<1>2. QED
  BY <1>1 DEF PoolInv

(* A step that concerns one task *)
LEMMA OneTask ==
    ASSUME ServiceInv, NEW t \in Tasks, TypeOK', PoolInv', TaskInv(t)',
           \A u \in Tasks \ {t} : Same(u)
    PROVE  ServiceInv'
<1>1. \A u \in Tasks : TaskInv(u)'
  BY TaskSame DEF ServiceInv
<1>2. QED
  BY <1>1 DEF ServiceInv

(* The documents a job writes *)
LEMMA NewDocuments ==
    ASSUME TypeOK, NEW t \in Tasks
    PROVE  /\ \A s \in {"pending", "processing"} \cup Terminal :
                  /\ [doc[t] EXCEPT !.status = s] \in Document
                  /\ [doc[t] EXCEPT !.status = s].status = s
           /\ \A r \in {"short", "full"} :
                  /\ [doc[t] EXCEPT !.result = r] \in Document
                  /\ [doc[t] EXCEPT !.result = r].status = doc[t].status
           /\ \A b \in BOOLEAN :
                  /\ [doc[t] EXCEPT !.status = "processing", !.started = b] \in Document
                  /\ [doc[t] EXCEPT !.status = "processing", !.started = b].status = "processing"
<1>1. doc[t] \in Document
  BY DEF TypeOK
<1>2. QED
  BY <1>1 DEF Document, Terminal

-----------------------------------------------------------------------------
(* Steps of a job *)

LEMMA CreateStep ==
    ASSUME ServiceInv, NEW t \in Tasks, CreateTask(t) \/ SaveTask(t)
    PROVE  ServiceInv'
<1>1. TypeOK /\ PoolInv /\ TaskInv(t)
  BY DEF ServiceInv
<1>2. CASE CreateTask(t)
  <2>1. /\ job[t] = "new" /\ job' \in [Tasks -> JobPoints] /\ job'[t] = "created"
        /\ \A u \in Tasks \ {t} : job'[u] = job[u]
    BY <1>1, <1>2, GotoIs DEF CreateTask, JobPoints
  <2>2. /\ mem' \in [Tasks -> {"none", "pending", "running"} \cup Terminal]
        /\ mem'[t] = "pending" /\ \A u \in Tasks \ {t} : mem'[u] = mem[u]
    BY <1>1, <1>2 DEF CreateTask, TypeOK
  <2>3. UNCHANGED <<memResult, doc, reports, pool, admin, zombie, requests, dbFaults, trouble, crashes, deleted>>
    BY <1>2 DEF CreateTask, faultVars
  <2>4. TypeOK'
    BY <1>1, <2>1, <2>2, <2>3 DEF TypeOK
  <2>5. PoolInv'
    BY <1>1, <2>1, <2>3, PoolKept
  <2>6. TaskInv(t)'
    BY <1>1, <2>1, <2>2, <2>3 DEF TaskInv, MemoryInv, DocumentInv, AloneInv, AdminInv, Unreported
  <2>7. QED
    BY <2>1, <2>2, <2>3, <2>4, <2>5, <2>6, OneTask DEF Same
<1>3. CASE SaveTask(t)
  <2>1. /\ job[t] = "created" /\ job' \in [Tasks -> JobPoints] /\ job'[t] = "accepted"
        /\ \A u \in Tasks \ {t} : job'[u] = job[u]
    BY <1>1, <1>3, GotoIs DEF SaveTask, JobPoints
  <2>2. UNCHANGED <<mem, memResult, reports, pool, admin, zombie, requests, crashes, deleted>>
    BY <1>3 DEF SaveTask, memVars
  <2>3. /\ doc' \in [Tasks -> Document] /\ \A u \in Tasks \ {t} : doc'[u] = doc[u]
        /\ dbFaults' \in 0 .. MaxDbFaults /\ trouble' \in [Tasks -> SUBSET {"db", "admin"}]
        /\ \A u \in Tasks \ {t} : trouble'[u] = trouble[u]
        /\ \/ /\ doc[t].status = "none" => doc'[t].status = "pending"
              /\ doc[t].status # "none" => doc'[t] = doc[t]
              /\ trouble'[t] = trouble[t]
           \/ doc'[t] = doc[t] /\ trouble'[t] = trouble[t] \cup {"db"}
    <3>1. CASE DbFault(t) /\ UNCHANGED doc
      <4>1. doc \in [Tasks -> Document]
        BY <1>1 DEF TypeOK
      <4>2. QED
        BY <1>1, <3>1, <4>1, DbFaultIs
    <3>2. CASE /\ doc' = [doc EXCEPT ![t] = IF @.status = "none" THEN [NoDoc EXCEPT !.status = "pending"] ELSE @]
               /\ UNCHANGED faultVars
      <4> DEFINE d == [NoDoc EXCEPT !.status = "pending"]
      <4>1. d \in Document /\ d.status = "pending"
        BY DEF NoDoc, Document
      <4>2. /\ doc \in [Tasks -> Document] /\ doc' = [doc EXCEPT ![t] = IF doc[t].status = "none" THEN d ELSE doc[t]]
        BY <1>1, <3>2 DEF TypeOK
      <4> HIDE DEF d
      <4>3. /\ doc' \in [Tasks -> Document] /\ \A u \in Tasks \ {t} : doc'[u] = doc[u]
            /\ doc[t].status = "none" => doc'[t].status = "pending"
            /\ doc[t].status # "none" => doc'[t] = doc[t]
        BY <4>1, <4>2
      <4>4. QED
        BY <1>1, <3>2, <4>3 DEF faultVars, TypeOK
    <3>3. QED
      BY <1>3, <3>1, <3>2 DEF SaveTask
  <2>4. TypeOK'
    BY <1>1, <2>1, <2>2, <2>3 DEF TypeOK
  <2>5. PoolInv'
    BY <1>1, <2>1, <2>2, PoolKept
  <2>6. TaskInv(t)'
    BY <1>1, <2>1, <2>2, <2>3 DEF TaskInv, MemoryInv, DocumentInv, AloneInv, AdminInv, Unreported
  <2>7. QED
    BY <2>1, <2>2, <2>3, <2>4, <2>5, <2>6, OneTask DEF Same
<1>4. QED
  BY <1>2, <1>3

(* Steps that write memory: the job moves and the status is set *)
LEMMA MemoryStep ==
    ASSUME ServiceInv, NEW t \in Tasks,
           MarkRunning(t) \/ ReportProgress(t) \/ CompleteMemory(t) \/ FailMemory(t)
    PROVE  ServiceInv'
<1>1. TypeOK /\ PoolInv /\ TaskInv(t)
  BY DEF ServiceInv
<1>2. UNCHANGED <<doc, reports, pool, admin, zombie, requests, dbFaults, trouble, crashes, deleted>>
  BY DEF MarkRunning, ReportProgress, CompleteMemory, FailMemory, taskVars, faultVars
<1>3. PICK p \in JobPoints, s \in {"running"} \cup Terminal :
          /\ job'[t] = p /\ SetMemory(t, s)
          /\ job' \in [Tasks -> JobPoints] /\ \A u \in Tasks \ {t} : job'[u] = job[u]
          /\ memResult' = IF s = "completed" /\ mem[t] # "none" THEN memResult \cup {t} ELSE memResult
          /\ job[t] # "queued"
          /\ \/ job[t] \in {"accepted", "mem20"} /\ p \in {"doc10", "doc20"} /\ s = "running"
             \/ job[t] = "running" /\ p = "running" /\ s = "running"
             \/ job[t] = "saved" /\ p = "completing" /\ s = "completed"
             \/ job[t] \in {"accepted", "mem20", "raised"} /\ p = "failing" /\ s = "failed"
  <2>0. {"doc10", "doc20", "running", "completing", "failing"} \subseteq JobPoints
    BY DEF JobPoints
  <2>1. CASE MarkRunning(t)
    <3>1. PICK p \in {"doc10", "doc20"} : Goto(t, p)
      BY <2>1 DEF MarkRunning
    <3>2. /\ job'[t] = p /\ job' \in [Tasks -> JobPoints] /\ \A u \in Tasks \ {t} : job'[u] = job[u]
      BY <1>1, <2>0, <3>1, GotoIs
    <3>3. job[t] \in {"accepted", "mem20"} /\ SetMemory(t, "running") /\ memResult' = memResult
      BY <2>1 DEF MarkRunning
    <3>4. QED
      BY <2>0, <3>1, <3>2, <3>3
  <2>2. CASE ReportProgress(t)
    <3>1. job[t] = "running" /\ SetMemory(t, "running") /\ memResult' = memResult /\ job' = job
      BY <2>2 DEF ReportProgress, taskVars
    <3>2. QED
      BY <1>1, <2>0, <3>1 DEF TypeOK
  <2>3. CASE CompleteMemory(t)
    <3>1. /\ job'[t] = "completing" /\ job' \in [Tasks -> JobPoints] /\ \A u \in Tasks \ {t} : job'[u] = job[u]
      BY <1>1, <2>0, <2>3, GotoIs DEF CompleteMemory
    <3>2. /\ job[t] = "saved" /\ SetMemory(t, "completed")
          /\ memResult' = IF mem[t] # "none" THEN memResult \cup {t} ELSE memResult
      BY <2>3 DEF CompleteMemory
    <3>3. "completed" \in {"running"} \cup Terminal
      BY DEF Terminal
    <3>4. QED
      BY <2>0, <3>1, <3>2, <3>3
  <2>4. CASE FailMemory(t)
    <3>1. /\ job'[t] = "failing" /\ job' \in [Tasks -> JobPoints] /\ \A u \in Tasks \ {t} : job'[u] = job[u]
      BY <1>1, <2>0, <2>4, GotoIs DEF FailMemory
    <3>2. job[t] \in {"accepted", "mem20", "raised"} /\ SetMemory(t, "failed") /\ memResult' = memResult
      BY <2>4 DEF FailMemory
    <3>3. "failed" \in {"running"} \cup Terminal
      BY DEF Terminal
    <3>4. QED
      BY <2>0, <3>1, <3>2, <3>3
  <2>5. QED
    BY <2>1, <2>2, <2>3, <2>4
<1>4. /\ mem' \in [Tasks -> {"none", "pending", "running"} \cup Terminal]
      /\ mem'[t] = IF mem[t] = "none" THEN "none" ELSE s
      /\ \A u \in Tasks \ {t} : mem'[u] = mem[u]
  BY <1>1, <1>3, SetMemoryIs
<1>5. TypeOK'
  BY <1>1, <1>2, <1>3, <1>4 DEF TypeOK
<1>6. PoolInv'
  BY <1>1, <1>2, <1>3, PoolKept
<1>7. TaskInv(t)'
  BY <1>1, <1>2, <1>3, <1>4 DEF TaskInv, MemoryInv, DocumentInv, AloneInv, AdminInv, Unreported, Terminal
<1>8. QED
  BY <1>2, <1>3, <1>4, <1>5, <1>6, <1>7, OneTask DEF Same

(* The document at 10 and at 20 percent; at 20 the analysis is queued *)
LEMMA ProcessingStep ==
    ASSUME ServiceInv, NEW t \in Tasks, MarkProcessing(t)
    PROVE  ServiceInv'
<1>1. TypeOK /\ PoolInv /\ TaskInv(t) /\ pool \in Seq(Tasks)
  BY DEF ServiceInv, TypeOK
<1>2. /\ job[t] \in {"doc10", "doc20"} /\ job' \in [Tasks -> JobPoints]
      /\ job'[t] = IF job[t] = "doc10" THEN "mem20" ELSE "queued"
      /\ \A u \in Tasks \ {t} : job'[u] = job[u]
  BY <1>1, GotoIs DEF MarkProcessing, JobPoints
<1>3. UNCHANGED <<mem, memResult, reports, admin, zombie, requests, crashes, deleted>>
  BY DEF MarkProcessing, memVars
<1> DEFINE b == doc[t].started \/ job[t] = "doc10"
           new == [doc[t] EXCEPT !.status = "processing", !.started = b]
<1>4. new \in Document /\ new.status = "processing"
  <2>1. b \in BOOLEAN
    OBVIOUS
  <2> HIDE DEF b
  <2>2. QED
    BY <1>1, <2>1, NewDocuments
<1>5. WriteDoc(t, new)
  <2>1. doc[t] \in Document
    BY <1>1 DEF TypeOK
  <2>2. QED
    BY <2>1 DEF MarkProcessing, Document
<1> HIDE DEF new
<1>6. /\ doc' \in [Tasks -> Document] /\ \A u \in Tasks \ {t} : doc'[u] = doc[u]
      /\ dbFaults' \in 0 .. MaxDbFaults /\ trouble' \in [Tasks -> SUBSET {"db", "admin"}]
      /\ \A u \in Tasks \ {t} : trouble'[u] = trouble[u]
      /\ \/ doc'[t].status = (IF doc[t].status = "none" THEN "none" ELSE "processing") /\ trouble'[t] = trouble[t]
         \/ doc'[t] = doc[t] /\ trouble'[t] = trouble[t] \cup {"db"}
  BY <1>1, <1>4, <1>5, WriteDocIs
<1>7. pool' \in Seq(Tasks) /\ PoolInv'
  <2>1. \A i \in DOMAIN pool : pool[i] \in Tasks /\ pool[i] # t /\ job'[pool[i]] = "queued"
    BY <1>1, <1>2 DEF PoolInv
  <2>2. CASE job[t] = "doc10"
    <3>1. pool' = pool
      BY <2>2 DEF MarkProcessing
    <3>2. QED
      BY <1>1, <2>1, <3>1 DEF PoolInv
  <2>3. CASE job[t] = "doc20"
    <3>1. pool' = Append(pool, t) /\ job'[t] = "queued"
      BY <1>2, <2>3 DEF MarkProcessing
    <3>2. /\ pool' \in Seq(Tasks) /\ DOMAIN pool' = 1 .. Len(pool) + 1 /\ DOMAIN pool = 1 .. Len(pool)
          /\ Len(pool) \in Nat /\ pool'[Len(pool) + 1] = t /\ \A i \in 1 .. Len(pool) : pool'[i] = pool[i]
      BY <1>1, <3>1
    <3>3. QED
      BY <1>1, <2>1, <3>1, <3>2 DEF PoolInv
  <2>4. QED
    BY <1>2, <2>2, <2>3
<1>8. TypeOK'
  BY <1>1, <1>2, <1>3, <1>6, <1>7 DEF TypeOK
<1>9. TaskInv(t)'
  BY <1>1, <1>2, <1>3, <1>6 DEF TaskInv, MemoryInv, DocumentInv, AloneInv, AdminInv, Unreported, Terminal
<1>10. QED
  BY <1>2, <1>3, <1>6, <1>7, <1>8, <1>9, OneTask DEF Same

(* A step that writes a result or a status to the document: of the job,    *)
(* or of an administrator who marks the task as failed                     *)
LEMMA DocumentStep ==
    ASSUME ServiceInv, NEW t \in Tasks, NEW new \in Document, WriteDoc(t, new),
           job' \in [Tasks -> JobPoints], \A u \in Tasks \ {t} : job'[u] = job[u],
           admin' \in [Tasks -> {"idle", "marking", "deleting"}], \A u \in Tasks \ {t} : admin'[u] = admin[u],
           UNCHANGED <<mem, memResult, reports, pool, zombie, requests, crashes, deleted>>,
           \/ /\ admin' = admin
              /\ \/ job[t] = "unsaved" /\ job'[t] = "saved" /\ new.status = doc[t].status
                 \/ job[t] = "completing" /\ job'[t] = "done" /\ new.status = "completed"
                 \/ job[t] = "failing" /\ job'[t] = "done" /\ new.status = "failed"
           \/ admin[t] = "marking" /\ admin'[t] = "idle" /\ job' = job /\ new.status = "failed"
    PROVE  ServiceInv'
<1>1. TypeOK /\ PoolInv /\ TaskInv(t)
  BY DEF ServiceInv
<1>2. /\ doc' \in [Tasks -> Document] /\ \A u \in Tasks \ {t} : doc'[u] = doc[u]
      /\ dbFaults' \in 0 .. MaxDbFaults /\ trouble' \in [Tasks -> SUBSET {"db", "admin"}]
      /\ \A u \in Tasks \ {t} : trouble'[u] = trouble[u]
      /\ \/ doc'[t].status = (IF doc[t].status = "none" THEN "none" ELSE new.status) /\ trouble'[t] = trouble[t]
         \/ doc'[t] = doc[t] /\ trouble'[t] = trouble[t] \cup {"db"}
  BY <1>1, WriteDocIs
<1>3. TypeOK'
  BY <1>1, <1>2 DEF TypeOK
<1>4. PoolInv'
  <2>1. CASE job[t] # "queued"
    BY <1>1, <2>1, PoolKept
  <2>2. CASE job' = job
    BY <1>1, <2>2 DEF PoolInv
  <2>3. QED
    BY <2>1, <2>2
<1>5. TaskInv(t)'
  <2>1. CASE admin' = admin
    BY <1>1, <1>2, <2>1 DEF TaskInv, MemoryInv, DocumentInv, AloneInv, AdminInv, Unreported, Terminal
  <2>2. CASE admin[t] = "marking" /\ admin'[t] = "idle" /\ job' = job /\ new.status = "failed"
    <3>1. "admin" \in trouble[t]
      BY <1>1, <2>2 DEF TaskInv, AdminInv
    <3>2. "admin" \in trouble'[t] /\ ("db" \notin trouble'[t] => "db" \notin trouble[t])
      BY <1>2, <3>1
    <3>3. MemoryInv(t)' /\ AloneInv(t)' /\ AdminInv(t)'
      BY <1>1, <1>2, <2>2, <3>2 DEF TaskInv, MemoryInv, AloneInv, AdminInv
    <3>4. DocumentInv(t)'
      BY <1>1, <1>2, <2>2, <3>2 DEF TaskInv, DocumentInv, Unreported, Terminal
    <3>5. QED
      BY <3>3, <3>4 DEF TaskInv
  <2>3. QED
    BY <2>1, <2>2
<1>6. QED
  BY <1>2, <1>3, <1>4, <1>5, OneTask DEF Same

LEMMA WritingSteps ==
    ASSUME ServiceInv, NEW t \in Tasks,
           SaveShortResult(t) \/ CompleteDoc(t) \/ FailDoc(t) \/ MarkFailedDoc(t)
    PROVE  ServiceInv'
<1>1. TypeOK
  BY DEF ServiceInv
<1>2. CASE SaveShortResult(t)
  <2>1. job'[t] = "saved" /\ job' \in [Tasks -> JobPoints] /\ \A u \in Tasks \ {t} : job'[u] = job[u]
    BY <1>1, <1>2, GotoIs DEF SaveShortResult, JobPoints
  <2>2. UNCHANGED <<mem, memResult, reports, pool, admin, zombie, requests, crashes, deleted>> /\ job[t] = "unsaved"
    BY <1>2 DEF SaveShortResult, memVars
  <2> DEFINE new == [doc[t] EXCEPT !.result = "short"]
  <2>3. new \in Document /\ new.status = doc[t].status /\ WriteDoc(t, new)
    BY <1>1, <1>2, NewDocuments DEF SaveShortResult
  <2> HIDE DEF new
  <2>4. QED
    BY <1>1, <2>1, <2>2, <2>3, DocumentStep DEF TypeOK
<1>3. CASE CompleteDoc(t) \/ FailDoc(t)
  <2>1. job'[t] = "done" /\ job' \in [Tasks -> JobPoints] /\ \A u \in Tasks \ {t} : job'[u] = job[u]
    BY <1>1, <1>3, GotoIs DEF CompleteDoc, FailDoc, JobPoints
  <2>2. UNCHANGED <<mem, memResult, reports, pool, admin, zombie, requests, crashes, deleted>>
    BY <1>3 DEF CompleteDoc, FailDoc, memVars
  <2>3. PICK s \in Terminal : /\ WriteDoc(t, [doc[t] EXCEPT !.status = s])
                              /\ job[t] = IF s = "completed" THEN "completing" ELSE "failing"
    BY <1>3 DEF CompleteDoc, FailDoc, Terminal
  <2> DEFINE new == [doc[t] EXCEPT !.status = s]
  <2>4. new \in Document /\ new.status = s
    BY <1>1, NewDocuments
  <2> HIDE DEF new
  <2>5. WriteDoc(t, new)
    BY <2>3 DEF new
  <2>6. QED
    BY <1>1, <2>1, <2>2, <2>3, <2>4, <2>5, DocumentStep DEF TypeOK, Terminal
<1>4. CASE MarkFailedDoc(t)
  <2>1. /\ admin[t] = "marking" /\ admin'[t] = "idle" /\ admin' \in [Tasks -> {"idle", "marking", "deleting"}]
        /\ \A u \in Tasks \ {t} : admin'[u] = admin[u]
    BY <1>1, <1>4 DEF MarkFailedDoc, TypeOK
  <2>2. UNCHANGED <<job, mem, memResult, reports, pool, zombie, requests, crashes, deleted>>
    BY <1>4 DEF MarkFailedDoc, memVars, taskVars
  <2> DEFINE new == [doc[t] EXCEPT !.status = "failed"]
  <2>3. new \in Document /\ new.status = "failed" /\ WriteDoc(t, new)
    BY <1>1, <1>4, NewDocuments DEF MarkFailedDoc, Terminal
  <2> HIDE DEF new
  <2>4. QED
    BY <1>1, <2>1, <2>2, <2>3, DocumentStep DEF TypeOK
<1>5. QED
  BY <1>2, <1>3, <1>4

(* The analysis runs in a thread of the pool, and what it returns is saved *)
LEMMA StartStep ==
    ASSUME ServiceInv, StartAnalysis
    PROVE  ServiceInv'
<1>1. TypeOK /\ PoolInv /\ pool \in Seq(Tasks) /\ pool # <<>>
  BY DEF ServiceInv, TypeOK, StartAnalysis
<1>0. PICK t \in Tasks : t = Head(pool)
  BY <1>1
<1>2. /\ Len(pool) \in Nat \ {0} /\ DOMAIN pool = 1 .. Len(pool) /\ t = pool[1] /\ t \in Tasks
      /\ pool' = Tail(pool) /\ pool' \in Seq(Tasks) /\ DOMAIN pool' = 1 .. Len(pool) - 1
      /\ \A i \in 1 .. Len(pool) - 1 : pool'[i] = pool[i + 1]
  BY <1>0, <1>1 DEF StartAnalysis
<1>3. job[t] = "queued" /\ TaskInv(t)
  BY <1>1, <1>2 DEF PoolInv, ServiceInv
<1>4. Goto(t, "running")
  BY <1>0 DEF StartAnalysis
<1>5. job' \in [Tasks -> JobPoints] /\ job'[t] = "running" /\ \A u \in Tasks \ {t} : job'[u] = job[u]
  BY <1>1, <1>2, <1>4, GotoIs DEF JobPoints
<1>6. UNCHANGED <<mem, memResult, doc, reports, admin, zombie, requests, dbFaults, trouble, crashes, deleted>>
  BY DEF StartAnalysis, memVars, faultVars
<1>7. TypeOK'
  BY <1>1, <1>2, <1>5, <1>6 DEF TypeOK
<1>8. PoolInv'
  <2>1. ASSUME NEW i \in DOMAIN pool'
        PROVE  pool'[i] = pool[i + 1] /\ i + 1 \in DOMAIN pool /\ i + 1 # 1 /\ 1 \in DOMAIN pool
    BY <1>2
  <2>2. \A i \in DOMAIN pool' : pool'[i] \in Tasks \ {t} /\ job[pool'[i]] = "queued"
    BY <1>1, <1>2, <2>1 DEF PoolInv
  <2>3. ASSUME NEW i \in DOMAIN pool', NEW j \in DOMAIN pool', pool'[i] = pool'[j]
        PROVE  i = j
    <3>1. i + 1 = j + 1
      BY <1>1, <2>1, <2>3 DEF PoolInv
    <3>2. QED
      BY <1>2, <3>1
  <2>4. QED
    BY <1>5, <2>2, <2>3 DEF PoolInv
<1>9. TaskInv(t)'
  BY <1>3, <1>5, <1>6 DEF TaskInv, MemoryInv, DocumentInv, AloneInv, AdminInv, Unreported
<1>10. QED
  BY <1>2, <1>5, <1>6, <1>7, <1>8, <1>9, OneTask DEF Same

LEMMA EndStep ==
    ASSUME ServiceInv, NEW t \in Tasks, EndAnalysis(t)
    PROVE  ServiceInv'
<1>1. TypeOK /\ PoolInv /\ TaskInv(t)
  BY DEF ServiceInv
<1>2. PICK p \in {"ran", "raised"} : Goto(t, p)
  BY DEF EndAnalysis
<1>3. /\ job[t] = "running" /\ job' \in [Tasks -> JobPoints] /\ job'[t] = p
      /\ \A u \in Tasks \ {t} : job'[u] = job[u]
  BY <1>1, <1>2, GotoIs DEF EndAnalysis, JobPoints
<1>4. UNCHANGED <<mem, memResult, doc, reports, pool, admin, zombie, requests, dbFaults, trouble, crashes, deleted>>
  BY DEF EndAnalysis, memVars, faultVars
<1>5. TypeOK'
  BY <1>1, <1>3, <1>4 DEF TypeOK
<1>6. PoolInv'
  BY <1>1, <1>3, <1>4, PoolKept
<1>7. TaskInv(t)'
  BY <1>1, <1>3, <1>4 DEF TaskInv, MemoryInv, DocumentInv, AloneInv, AdminInv, Unreported
<1>8. QED
  BY <1>3, <1>4, <1>5, <1>6, <1>7, OneTask DEF Same

LEMMA ReportStep ==
    ASSUME ServiceInv, NEW t \in Tasks, SaveReport(t)
    PROVE  ServiceInv'
<1>1. TypeOK /\ PoolInv /\ TaskInv(t)
  BY DEF ServiceInv
<1>2. job[t] = "ran" /\ UNCHANGED <<mem, memResult, doc, pool, admin, zombie, requests, crashes, deleted>>
  BY DEF SaveReport, memVars
<1>3. /\ job' \in [Tasks -> JobPoints] /\ \A u \in Tasks \ {t} : job'[u] = job[u]
      /\ dbFaults' \in 0 .. MaxDbFaults /\ trouble' \in [Tasks -> SUBSET {"db", "admin"}]
      /\ \A u \in Tasks \ {t} : trouble'[u] = trouble[u]
      /\ \/ job'[t] = "reported" /\ reports' = reports \cup {t} /\ trouble'[t] = trouble[t]
         \/ job'[t] = "unsaved" /\ reports' = reports /\ trouble'[t] = trouble[t] \cup {"db"}
  <2>1. CASE Goto(t, "reported") /\ reports' = reports \cup {t} /\ UNCHANGED faultVars
    <3>1. job' \in [Tasks -> JobPoints] /\ job'[t] = "reported" /\ \A u \in Tasks \ {t} : job'[u] = job[u]
      BY <1>1, <2>1, GotoIs DEF JobPoints
    <3>2. QED
      BY <1>1, <2>1, <3>1 DEF TypeOK, faultVars
  <2>2. CASE Goto(t, "unsaved") /\ DbFault(t) /\ UNCHANGED reports
    <3>1. job' \in [Tasks -> JobPoints] /\ job'[t] = "unsaved" /\ \A u \in Tasks \ {t} : job'[u] = job[u]
      BY <1>1, <2>2, GotoIs DEF JobPoints
    <3>2. QED
      BY <1>1, <2>2, <3>1, DbFaultIs
  <2>3. QED
    BY <2>1, <2>2 DEF SaveReport
<1>4. TypeOK'
  BY <1>1, <1>2, <1>3 DEF TypeOK
<1>5. PoolInv'
  BY <1>1, <1>2, <1>3, PoolKept
<1>6. TaskInv(t)'
  BY <1>1, <1>2, <1>3 DEF TaskInv, MemoryInv, DocumentInv, AloneInv, AdminInv, Unreported
<1>7. QED
  BY <1>2, <1>3, <1>4, <1>5, <1>6, OneTask DEF Same

LEMMA ResultStep ==
    ASSUME ServiceInv, NEW t \in Tasks, SaveResult(t)
    PROVE  ServiceInv'
<1>1. TypeOK /\ PoolInv /\ TaskInv(t)
  BY DEF ServiceInv
<1>2. job[t] = "reported" /\ UNCHANGED <<mem, memResult, reports, pool, admin, zombie, requests, crashes, deleted>>
  BY DEF SaveResult, memVars
<1>3. /\ job' \in [Tasks -> JobPoints] /\ \A u \in Tasks \ {t} : job'[u] = job[u]
      /\ doc' \in [Tasks -> Document] /\ \A u \in Tasks \ {t} : doc'[u] = doc[u]
      /\ dbFaults' \in 0 .. MaxDbFaults /\ trouble' \in [Tasks -> SUBSET {"db", "admin"}]
      /\ \A u \in Tasks \ {t} : trouble'[u] = trouble[u]
      /\ doc'[t].status = doc[t].status
      /\ \/ job'[t] = "saved" /\ trouble'[t] \in {trouble[t], trouble[t] \cup {"db"}}
         \/ job'[t] = "unsaved" /\ trouble'[t] = trouble[t] \cup {"db"}
  <2>1. CASE Goto(t, "saved") /\ SetDoc(t, [doc[t] EXCEPT !.result = "full"]) /\ UNCHANGED faultVars
    <3> DEFINE new == [doc[t] EXCEPT !.result = "full"]
    <3>1. new \in Document /\ new.status = doc[t].status /\ WriteDoc(t, new)
      BY <1>1, <2>1, NewDocuments DEF WriteDoc
    <3> HIDE DEF new
    <3>2. /\ doc' \in [Tasks -> Document] /\ \A u \in Tasks \ {t} : doc'[u] = doc[u]
          /\ dbFaults' \in 0 .. MaxDbFaults /\ trouble' \in [Tasks -> SUBSET {"db", "admin"}]
          /\ \A u \in Tasks \ {t} : trouble'[u] = trouble[u]
          /\ doc'[t].status = doc[t].status /\ trouble'[t] \in {trouble[t], trouble[t] \cup {"db"}}
      BY <1>1, <3>1, WriteDocIs
    <3>3. job' \in [Tasks -> JobPoints] /\ job'[t] = "saved" /\ \A u \in Tasks \ {t} : job'[u] = job[u]
      BY <1>1, <2>1, GotoIs DEF JobPoints
    <3>4. QED
      BY <3>2, <3>3
  <2>2. CASE Goto(t, "unsaved") /\ DbFault(t) /\ UNCHANGED doc
    <3>1. job' \in [Tasks -> JobPoints] /\ job'[t] = "unsaved" /\ \A u \in Tasks \ {t} : job'[u] = job[u]
      BY <1>1, <2>2, GotoIs DEF JobPoints
    <3>2. doc \in [Tasks -> Document]
      BY <1>1 DEF TypeOK
    <3>3. QED
      BY <1>1, <2>2, <3>1, <3>2, DbFaultIs
  <2>3. QED
    BY <2>1, <2>2 DEF SaveResult
<1>4. TypeOK'
  BY <1>1, <1>2, <1>3 DEF TypeOK
<1>5. PoolInv'
  BY <1>1, <1>2, <1>3, PoolKept
<1>6. TaskInv(t)'
  <2>1. "db" \notin trouble'[t] => job'[t] = "saved" /\ "db" \notin trouble[t]
    BY <1>3
  <2>2. trouble'[t] = {} => job'[t] = "saved" /\ trouble[t] = {}
    BY <1>3
  <2>3. "admin" \in trouble[t] => "admin" \in trouble'[t]
    BY <1>3
  <2>4. QED
    BY <1>1, <1>2, <1>3, <2>1, <2>2, <2>3 DEF TaskInv, MemoryInv, DocumentInv, AloneInv, AdminInv, Unreported
<1>7. QED
  BY <1>2, <1>3, <1>4, <1>5, <1>6, OneTask DEF Same


-----------------------------------------------------------------------------
(* Requests of administrators *)

LEMMA RequestIs ==
    ASSUME TypeOK, Request
    PROVE  requests' \in 0 .. MaxRequests
BY ServiceAssumption DEF TypeOK, Request

(* Memory is written first: failed, or nothing is left *)
LEMMA AdminMemoryStep ==
    ASSUME ServiceInv, NEW t \in Tasks, MarkFailedMemory(t) \/ DeleteMemory(t)
    PROVE  ServiceInv'
<1>1. TypeOK /\ PoolInv /\ TaskInv(t)
  BY DEF ServiceInv
<1>2. /\ trouble' = Touched({t}) /\ Request /\ job[t] # "new"
      /\ UNCHANGED <<job, pool, doc, reports, zombie, dbFaults, crashes, deleted>>
  BY DEF MarkFailedMemory, DeleteMemory, taskVars, Known
<1>3. /\ trouble' \in [Tasks -> SUBSET {"db", "admin"}] /\ trouble'[t] = trouble[t] \cup {"admin"}
      /\ \A u \in Tasks \ {t} : trouble'[u] = trouble[u]
  BY <1>1, <1>2, TouchedIs
<1>4. requests' \in 0 .. MaxRequests
  BY <1>1, <1>2, RequestIs
<1>5. /\ admin' \in [Tasks -> {"idle", "marking", "deleting"}] /\ mem' \in [Tasks -> {"none", "pending", "running"} \cup Terminal]
      /\ \A u \in Tasks \ {t} : admin'[u] = admin[u] /\ mem'[u] = mem[u]
      /\ \/ /\ admin'[t] = "marking" /\ mem'[t] = (IF mem[t] = "none" THEN "none" ELSE "failed")
            /\ memResult' = memResult
         \/ admin'[t] = "deleting" /\ mem'[t] = "none" /\ memResult' = memResult \ {t}
  <2>1. CASE MarkFailedMemory(t)
    <3>1. SetMemory(t, "failed") /\ admin' = [admin EXCEPT ![t] = "marking"] /\ memResult' = memResult
      BY <2>1 DEF MarkFailedMemory
    <3>2. /\ mem' \in [Tasks -> {"none", "pending", "running"} \cup Terminal]
          /\ mem'[t] = (IF mem[t] = "none" THEN "none" ELSE "failed") /\ \A u \in Tasks \ {t} : mem'[u] = mem[u]
      BY <1>1, <3>1, SetMemoryIs DEF Terminal
    <3>3. QED
      BY <1>1, <3>1, <3>2 DEF TypeOK
  <2>2. CASE DeleteMemory(t)
    BY <1>1, <2>2 DEF DeleteMemory, TypeOK
  <2>3. QED
    BY <2>1, <2>2
<1>6. TypeOK'
  BY <1>1, <1>2, <1>3, <1>4, <1>5 DEF TypeOK
<1>7. PoolInv'
  BY <1>1, <1>2 DEF PoolInv
<1>8. TaskInv(t)'
  BY <1>1, <1>2, <1>3, <1>5 DEF TaskInv, MemoryInv, DocumentInv, AloneInv, AdminInv, Unreported, Terminal
<1>9. QED
  BY <1>2, <1>3, <1>5, <1>6, <1>7, <1>8, OneTask DEF Same

LEMMA DeleteDocStep ==
    ASSUME ServiceInv, NEW t \in Tasks, DeleteDoc(t)
    PROVE  ServiceInv'
<1>1. TypeOK /\ PoolInv /\ TaskInv(t)
  BY DEF ServiceInv
<1>2. /\ admin[t] = "deleting" /\ admin' \in [Tasks -> {"idle", "marking", "deleting"}] /\ admin'[t] = "idle"
      /\ \A u \in Tasks \ {t} : admin'[u] = admin[u]
      /\ UNCHANGED <<job, pool, mem, memResult, reports, zombie, requests, crashes>>
  BY <1>1 DEF DeleteDoc, taskVars, memVars, TypeOK
<1>3. /\ doc' \in [Tasks -> Document] /\ \A u \in Tasks \ {t} : doc'[u] = doc[u]
      /\ dbFaults' \in 0 .. MaxDbFaults /\ trouble' \in [Tasks -> SUBSET {"db", "admin"}]
      /\ \A u \in Tasks \ {t} : trouble'[u] = trouble[u]
      /\ \/ /\ doc'[t].status = "none" /\ trouble'[t] = trouble[t]
            /\ deleted' = IF job[t] = "created" THEN deleted ELSE deleted \cup {t}
         \/ doc'[t] = doc[t] /\ deleted' = deleted /\ trouble'[t] = trouble[t] \cup {"db"}
  <2>1. CASE /\ doc' = [doc EXCEPT ![t] = NoDoc]
             /\ deleted' = IF job[t] = "created" THEN deleted ELSE deleted \cup {t}
             /\ UNCHANGED faultVars
    <3>1. NoDoc \in Document /\ NoDoc.status = "none"
      BY DEF NoDoc, Document
    <3>2. doc \in [Tasks -> Document] /\ trouble' = trouble /\ dbFaults' = dbFaults
      BY <1>1, <2>1 DEF TypeOK, faultVars
    <3>3. doc' \in [Tasks -> Document] /\ doc'[t].status = "none" /\ \A u \in Tasks \ {t} : doc'[u] = doc[u]
      BY <2>1, <3>1, <3>2
    <3>4. QED
      BY <1>1, <2>1, <3>2, <3>3 DEF TypeOK
  <2>2. CASE DbFault(t) /\ UNCHANGED <<doc, deleted>>
    <3>1. doc \in [Tasks -> Document]
      BY <1>1 DEF TypeOK
    <3>2. QED
      BY <1>1, <2>2, <3>1, DbFaultIs
  <2>3. QED
    BY <2>1, <2>2 DEF DeleteDoc
<1>4. "admin" \in trouble[t] /\ mem[t] = "none" /\ job[t] # "new"
  BY <1>1, <1>2 DEF TaskInv, AdminInv
<1>5. TypeOK'
  BY <1>1, <1>2, <1>3 DEF TypeOK
<1>6. PoolInv'
  BY <1>1, <1>2 DEF PoolInv
<1>7. TaskInv(t)'
  <2>1. MemoryInv(t)'
    BY <1>1, <1>2 DEF TaskInv, MemoryInv
  <2>2. DocumentInv(t)'
    BY <1>1, <1>2, <1>3 DEF TaskInv, DocumentInv
  <2>3. trouble'[t] # {}
    BY <1>3, <1>4
  <2>4. AdminInv(t)'
    BY <1>1, <1>2, <1>3, <1>4 DEF TaskInv, AdminInv
  <2>5. QED
    BY <2>1, <2>2, <2>3, <2>4 DEF TaskInv, AloneInv
<1>8. QED
  BY <1>2, <1>3, <1>5, <1>6, <1>7, OneTask DEF Same

(* Zombies: a set of tasks that are not finished becomes failed *)
LEMMA ZombieMemoryStep ==
    ASSUME ServiceInv, CleanZombieMemory
    PROVE  ServiceInv'
<1>1. TypeOK /\ PoolInv
  BY DEF ServiceInv
<1>2. PICK zombies \in SUBSET {t \in Tasks : mem[t] \in {"pending", "running"}} :
          /\ mem' = [t \in Tasks |-> IF t \in zombies THEN "failed" ELSE mem[t]]
          /\ trouble' = Touched(zombies)
  BY DEF CleanZombieMemory
<1>3. /\ Request /\ zombie' = "docs"
      /\ UNCHANGED <<job, pool, memResult, doc, reports, admin, dbFaults, crashes, deleted>>
  BY DEF CleanZombieMemory, taskVars
<1>4. /\ trouble' \in [Tasks -> SUBSET {"db", "admin"}]
      /\ \A t \in zombies : trouble'[t] = trouble[t] \cup {"admin"}
      /\ \A t \in Tasks \ zombies : trouble'[t] = trouble[t]
  BY <1>1, <1>2, TouchedIs
<1>5. mem' \in [Tasks -> {"none", "pending", "running"} \cup Terminal]
  BY <1>1, <1>2 DEF TypeOK, Terminal
<1>6. requests' \in 0 .. MaxRequests
  BY <1>1, <1>3, RequestIs
<1>7. TypeOK'
  BY <1>1, <1>3, <1>4, <1>5, <1>6 DEF TypeOK
<1>8. PoolInv'
  BY <1>1, <1>3 DEF PoolInv
<1>9. ASSUME NEW t \in Tasks PROVE TaskInv(t)'
  <2>1. TaskInv(t)
    BY DEF ServiceInv
  <2>2. CASE t \in zombies
    <3>1. mem[t] \in {"pending", "running"} /\ mem'[t] = "failed" /\ trouble'[t] = trouble[t] \cup {"admin"}
      BY <1>2, <1>4, <2>2
    <3>2. QED
      BY <1>3, <2>1, <3>1 DEF TaskInv, MemoryInv, DocumentInv, AloneInv, AdminInv, Terminal
  <2>3. CASE t \notin zombies
    <3>1. mem'[t] = mem[t] /\ trouble'[t] = trouble[t]
      BY <1>2, <1>4, <2>3
    <3>2. QED
      BY <1>3, <2>1, <3>1, TaskSame DEF Same
  <2>4. QED
    BY <2>2, <2>3
<1>10. QED
  BY <1>7, <1>8, <1>9 DEF ServiceInv

LEMMA ZombieDocsStep ==
    ASSUME ServiceInv, CleanZombieDocs
    PROVE  ServiceInv'
<1>1. TypeOK /\ PoolInv /\ doc \in [Tasks -> Document]
  BY DEF ServiceInv, TypeOK
<1>2. PICK zombies \in SUBSET {t \in Tasks : doc[t].started /\ doc[t].status \in Unfinished} :
          /\ doc' = [t \in Tasks |-> IF t \in zombies THEN [doc[t] EXCEPT !.status = "failed"] ELSE doc[t]]
          /\ trouble' = Touched(zombies)
  BY DEF CleanZombieDocs
<1>3. /\ zombie' = "idle"
      /\ UNCHANGED <<job, pool, mem, memResult, reports, admin, requests, dbFaults, crashes, deleted>>
  BY DEF CleanZombieDocs, taskVars, memVars
<1>4. /\ trouble' \in [Tasks -> SUBSET {"db", "admin"}]
      /\ \A t \in zombies : trouble'[t] = trouble[t] \cup {"admin"}
      /\ \A t \in Tasks \ zombies : trouble'[t] = trouble[t]
  BY <1>1, <1>2, TouchedIs
<1>5. ASSUME NEW t \in Tasks
      PROVE  /\ doc'[t] \in Document
             /\ t \in zombies => doc[t].status \in Unfinished /\ doc'[t].status = "failed"
             /\ t \notin zombies => doc'[t] = doc[t]
  <2> DEFINE new == [doc[t] EXCEPT !.status = "failed"]
  <2>1. new \in Document /\ new.status = "failed"
    BY <1>1, NewDocuments DEF Terminal
  <2>2. doc'[t] = IF t \in zombies THEN new ELSE doc[t]
    BY <1>2
  <2>3. t \in zombies => doc[t].status \in Unfinished
    BY <1>2
  <2> HIDE DEF new
  <2>4. QED
    BY <1>1, <2>1, <2>2, <2>3
<1>6. doc' \in [Tasks -> Document]
  <2>1. doc' = [t \in Tasks |-> doc'[t]]
    BY <1>2
  <2>2. QED
    BY <1>5, <2>1
<1>7. TypeOK'
  BY <1>1, <1>3, <1>4, <1>6 DEF TypeOK
<1>8. PoolInv'
  BY <1>1, <1>3 DEF PoolInv
<1>9. ASSUME NEW t \in Tasks PROVE TaskInv(t)'
  <2>1. TaskInv(t)
    BY DEF ServiceInv
  <2>2. CASE t \in zombies
    BY <1>3, <1>4, <1>5, <2>1, <2>2 DEF TaskInv, MemoryInv, DocumentInv, AloneInv, AdminInv, Terminal, Unfinished
  <2>3. CASE t \notin zombies
    BY <1>3, <1>4, <1>5, <2>1, <2>3, TaskSame DEF Same
  <2>4. QED
    BY <2>2, <2>3
<1>10. QED
  BY <1>7, <1>8, <1>9 DEF ServiceInv

(* A restart: memory, jobs and pool are gone, the documents stay *)
LEMMA CrashStep ==
    ASSUME ServiceInv, Crash
    PROVE  ServiceInv'
<1>1. TypeOK
  BY DEF ServiceInv
<1>2. /\ job' = [t \in Tasks |-> IF job[t] \in {"new", "done"} THEN job[t] ELSE "dead"]
      /\ mem' = [t \in Tasks |-> "none"] /\ memResult' = {} /\ pool' = <<>>
      /\ admin' = [t \in Tasks |-> "idle"] /\ zombie' = "idle"
      /\ UNCHANGED <<doc, reports, requests, dbFaults, trouble, deleted>>
  BY DEF Crash, faultVars
<1>3. crashes' \in 0 .. MaxCrashes
  BY <1>1, ServiceAssumption DEF Crash, TypeOK
<1>4. TypeOK'
  BY <1>1, <1>2, <1>3 DEF TypeOK, JobPoints
<1>5. PoolInv'
  BY <1>2 DEF PoolInv
<1>6. ASSUME NEW t \in Tasks PROVE TaskInv(t)'
  <2>1. TaskInv(t) /\ mem'[t] = "none" /\ admin'[t] = "idle"
    BY <1>2 DEF ServiceInv
  <2>2. job'[t] = IF job[t] \in {"new", "done"} THEN job[t] ELSE "dead"
    BY <1>2
  <2>3. QED
    BY <1>2, <2>1, <2>2 DEF TaskInv, MemoryInv, DocumentInv, AloneInv, AdminInv, Unreported
<1>7. QED
  BY <1>4, <1>5, <1>6 DEF ServiceInv

-----------------------------------------------------------------------------
(* The invariant holds in every behaviour *)

LEMMA ServiceStep == ServiceInv /\ [Next]_vars => ServiceInv'
<1> SUFFICES ASSUME ServiceInv, [Next]_vars PROVE ServiceInv'
  OBVIOUS
<1>1. ASSUME NEW t \in Tasks, JobStep(t) \/ ReportProgress(t) PROVE ServiceInv'
  BY <1>1, CreateStep, MemoryStep, ProcessingStep, EndStep, ReportStep, ResultStep, WritingSteps DEF JobStep
<1>2. ASSUME NEW t \in Tasks, AdminStep(t) PROVE ServiceInv'
  BY <1>2, AdminMemoryStep, WritingSteps, DeleteDocStep DEF AdminStep
<1>3. CASE UNCHANGED vars
  BY <1>3 DEF vars, ServiceInv, TypeOK, PoolInv, TaskInv, MemoryInv, DocumentInv, AloneInv, AdminInv
<1>4. QED
  BY <1>1, <1>2, <1>3, StartStep, ZombieMemoryStep, ZombieDocsStep, CrashStep DEF Next

(* Memory, documents and pool keep their order in every behaviour *)
LEMMA ServiceHolds == Spec => []ServiceInv
BY ServiceInit, ServiceStep, PTL DEF Spec


-----------------------------------------------------------------------------
(* A task that is over keeps its outcome: whatever threads, administrators, *)
(* zombies and restarts did between the two writes of its job, no client    *)
(* that polls sees it unfinished again, and a task left alone has the same  *)
(* outcome in memory, in analysis_tasks and in analysis_reports.            *)
THEOREM OutcomesStand == Spec => []OutcomeStands
<1>1. ServiceInv => OutcomeStands
  <2> SUFFICES ASSUME ServiceInv PROVE OutcomeStands
    OBVIOUS
  <2>1. TypeOK
    BY DEF ServiceInv
  <2>2. ASSUME NEW t \in Tasks, job[t] = "done", mem[t] # "none" \/ "db" \notin trouble[t]
        PROVE  StatusOf(t) \notin Unfinished
    <3>1. TaskInv(t)
      BY DEF ServiceInv
    <3>2. CASE mem[t] # "none"
      BY <2>2, <3>1, <3>2 DEF TaskInv, MemoryInv, StatusOf, Terminal, Unfinished
    <3>3. CASE mem[t] = "none"
      BY <2>2, <3>1, <3>3 DEF TaskInv, DocumentInv, StatusOf, Terminal, Unfinished
    <3>4. QED
      BY <3>2, <3>3
  <2>3. ASSUME NEW t \in Tasks, job[t] = "done", trouble[t] = {}
        PROVE  /\ mem[t] \in {"none", doc[t].status}
               /\ doc[t].status \in Terminal
               /\ doc[t].status = "completed" <=> t \in reports
    <3>1. TaskInv(t) /\ "db" \notin trouble[t]
      BY <2>3 DEF ServiceInv
    <3>2. QED
      BY <2>3, <3>1 DEF TaskInv, DocumentInv, AloneInv, Terminal
  <2>4. QED
    BY <2>1, <2>2, <2>3 DEF OutcomeStands, NothingLeftUnfinished, StoresAgree
<1>2. QED
  BY <1>1, ServiceHolds, PTL

(* What the status request answers as completed can be fetched in full,    *)
(* from memory or from the report that was saved before the status         *)
THEOREM CompletedIsFetched == Spec => []CompletedIsDeliverable
<1>1. ServiceInv => CompletedIsDeliverable
  <2> SUFFICES ASSUME ServiceInv, NEW t \in Tasks, StatusOf(t) = "completed",
                      mem[t] # "none" \/ "db" \notin trouble[t]
               PROVE  ResultOf(t) = "full"
    BY DEF CompletedIsDeliverable
  <2>1. MemoryInv(t) /\ DocumentInv(t)
    BY DEF ServiceInv, TaskInv
  <2>2. CASE mem[t] # "none"
    BY <2>1, <2>2 DEF MemoryInv, StatusOf, ResultOf
  <2>3. CASE mem[t] = "none"
    <3>1. t \in reports
      BY <2>1, <2>3 DEF DocumentInv, StatusOf
    <3>2. QED
      BY <3>1 DEF ResultOf
  <2>4. QED
    BY <2>2, <2>3
<1>2. QED
  BY <1>1, ServiceHolds, PTL

(* The writes of a job that runs on do not bring a deleted task back: they *)
(* update entries and documents that exist, and create none                *)
THEOREM DeletedStaysDeleted == Spec => []DeletedNeverRuns
<1>1. ServiceInv => DeletedNeverRuns
  <2> SUFFICES ASSUME ServiceInv, NEW t \in deleted
               PROVE  StatusOf(t) \in {"none", "completed"}
    BY DEF DeletedNeverRuns
  <2>1. t \in Tasks
    BY DEF ServiceInv, TypeOK
  <2>2. AdminInv(t)
    BY <2>1 DEF ServiceInv, TaskInv
  <2>3. QED
    BY <2>2 DEF AdminInv, StatusOf
<1>2. QED
  BY <1>1, ServiceHolds, PTL


=============================================================================
