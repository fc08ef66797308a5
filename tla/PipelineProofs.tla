--------------------------- MODULE PipelineProofs ---------------------------
(***************************************************************************)
(* Proofs about a run of the pipeline, for every list of stocks and every  *)
(* finite set of workers: the dispatcher inside the orchestrator, whose    *)
(* on_result and final report share the report file.                       *)
(***************************************************************************)
EXTENDS Pipeline, StockDispatchProofs

-----------------------------------------------------------------------------
(* The inductive invariant *)

(* A worker inside on_result has stored its result, and report_lock is     *)
(* held by the one that generates a report                                 *)
CallbackInv ==
    \A w \in Workers :
        /\ pub[w] # "idle" => pc[w] = "success" /\ results[task[w].stock] = w
        /\ pub[w] \in {"gen", "write"} <=> lock = w

(* The dispatcher does nothing before it is started, and its round is over *)
(* when the orchestrator goes on                                           *)
PhaseInv ==
    /\ phase \in {"filter", "initial", "available"} => ~started
    /\ phase \in {"filter", "initial"} => disk = NoReport
    /\ ~started => /\ \A w \in Workers : pc[w] = "login"
                   /\ \A s \in Stocks : submits[s] = 0
    /\ started /\ phase \in {"count", "final", "rendering", "writing", "returned"} => main = "done"
    /\ success => phase = "returned"

(* A stock has one outcome at most, and with one it is queued no more and  *)
(* held only by a worker that is still inside on_result                    *)
OutcomeInv ==
    \A s \in Stocks :
        /\ Completed(s) => extras[s] = <<>>
        /\ Len(extras[s]) <= 1
        /\ Settled(s) => ~Queued(s)
        /\ \A w \in Workers : Settled(s) /\ Held(w, s) => pub[w] # "idle"

(* A report in the making has what any whole report has shown, and the     *)
(* final one every result; so has a whole report on disk                   *)
DraftInv ==
    /\ published \subseteq Shown
    /\ \A x \in Workers \cup {Nobody} : draft[x] \subseteq Shown
    /\ \A w \in Workers : pub[w] \in {"gen", "write"} => published \subseteq draft[w]
    /\ phase \in {"rendering", "writing"} =>
          Reported \subseteq draft[Nobody] /\ published \subseteq draft[Nobody]
    /\ ReportLosesNothing
    /\ Whole => disk \subseteq Shown

(* The counters are right from the moment they are set *)
TotalInv ==
    started /\ phase \in {"final", "rendering", "writing", "returned"} /\ dead # Workers =>
        counted[1] + counted[2] = Len(StockList)

RunInv ==
    /\ SafetyInv /\ PipelineTypeOK
    /\ CallbackInv /\ PhaseInv /\ OutcomeInv /\ DraftInv /\ TotalInv /\ FinalReportComplete

LEMMA RunInit == PipelineInit => RunInv
<1> SUFFICES ASSUME PipelineInit PROVE RunInv
  OBVIOUS
<1>1. SafetyInv
  BY InitSafety DEF PipelineInit
<1>2. /\ \A w \in Workers : pc[w] = "login" /\ pub[w] = "idle"
      /\ \A s \in Stocks : submits[s] = 0 /\ results[s] = Nobody /\ extras[s] = <<>>
  BY DEF PipelineInit, Init
<1>a. /\ draft \in [Workers \cup {Nobody} -> SUBSET Stocks]
      /\ pub \in [Workers -> {"idle", "lock", "gen", "write"}]
  BY DEF PipelineInit
<1>b. disk \in (SUBSET Stocks) \cup {NoReport, Truncated} /\ published \in SUBSET Stocks /\ started \in BOOLEAN /\ success \in BOOLEAN
  BY DEF PipelineInit
<1>3. PipelineTypeOK
  BY <1>1, <1>a, <1>b DEF PipelineInit, PipelineTypeOK, SafetyInv
<1>4. CallbackInv /\ PhaseInv
  BY <1>2, DispatchAssumption DEF PipelineInit, CallbackInv, PhaseInv
<1>5. OutcomeInv
  BY <1>2 DEF OutcomeInv, Completed, Settled
<1>6. DraftInv
  BY DEF PipelineInit, DraftInv, ReportLosesNothing, Whole
<1>7. TotalInv /\ FinalReportComplete
  BY DEF PipelineInit, TotalInv, FinalReportComplete
<1> QED  BY <1>1, <1>3, <1>4, <1>5, <1>6, <1>7 DEF RunInv

-----------------------------------------------------------------------------
(* What the parts of the invariant give *)

(* No worker is inside on_result once the round is over or was not begun *)
LEMMA NobodyInCallback ==
    ASSUME RunInv, phase \in {"count", "final", "rendering", "writing", "returned"} \/ ~started
    PROVE  \A w \in Workers : pub[w] = "idle" /\ pc[w] # "success"
<1> SUFFICES ASSUME NEW w \in Workers PROVE pc[w] # "success"
  BY DEF RunInv, CallbackInv
<1>1. CASE ~started
  BY <1>1 DEF RunInv, PhaseInv
<1>2. CASE main = "done"
  <2>1. dead = Workers \/ Owing = {}
    BY <1>2 DEF RunInv, SafetyInv, LeavesWhenOver
  <2> QED  BY <2>1 DEF RunInv, SafetyInv, DeadNeverRuns, Owing, HoldPoints
<1> QED  BY <1>1, <1>2 DEF RunInv, PhaseInv

(* Steps that leave results and files alone leave the reports alone *)
LEMMA ShownSame ==
    ASSUME results' = results, files' = files
    PROVE  Reported' = Reported /\ Shown' = Shown
BY DEF Reported, Shown, Completed

(* Where a stock can have come from *)
LEMMA MoveOrigin ==
    ASSUME TypeOK, Move, NEW s \in Stocks
    PROVE  /\ Queued(s)' => Queued(s) \/ \E w \in Workers : Held(w, s) /\ ~Held(w, s)'
           /\ \A w \in Workers : Held(w, s)' => Queued(s) \/ Held(w, s)
<1>1. CASE Keep
  BY <1>1 DEF Keep, HeldSame, Queued
<1>2. CASE Discard
  BY <1>2, QueuedAfterGet DEF Discard, HeldSame
<1>3. ASSUME NEW w \in Workers, Release(w)
      PROVE  (Queued(s)' => Queued(s)) /\ \A v \in Workers : Held(v, s)' => Held(v, s)
  BY <1>3 DEF Release, HeldSame, HoldsNothing, Queued
<1>4. ASSUME NEW w \in Workers, Take(w)
      PROVE  (Queued(s)' => Queued(s)) /\ \A v \in Workers : Held(v, s)' => Queued(s) \/ Held(v, s)
  BY <1>4, QueuedAfterGet DEF Take, HeldSame
<1>5. ASSUME NEW w \in Workers, Give(w)
      PROVE  /\ Queued(s)' => Queued(s) \/ (Held(w, s) /\ ~Held(w, s)')
             /\ \A v \in Workers : Held(v, s)' => Held(v, s)
  <2>1. PICK item \in Item : queue' = Append(queue, item) /\ (Held(w, s) <=> s = item.stock)
    BY <1>5 DEF Give
  <2>2. Queued(s)' <=> (Queued(s) \/ s = item.stock)
    BY <2>1, QueuedAfterPut
  <2> QED  BY <1>5, <2>1, <2>2 DEF Give, HeldSame, HoldsNothing
<1> QED  BY <1>1, <1>2, <1>3, <1>4, <1>5 DEF Move

-----------------------------------------------------------------------------
(* Steps of the dispatcher outside on_result *)

Elsewhere(w) ==
    \/ Login(w) \/ CheckStop(w) \/ Get(w) \/ GetTimeout(w) \/ PutBack(w) \/ DeadlineSkip(w)
    \/ Begin(w) \/ ProcessFails(w) \/ ProcessSucceeds(w)
    \/ DropDead(w) \/ GiveUp(w) \/ Requeue(w) \/ TaskDone(w)

(* One of them records an extra of stock s, the others none *)
Drops(s) ==
    /\ \E status \in Statuses : extras' = [extras EXCEPT ![s] = Append(@, status)]
    /\ ~Queued(s)' /\ \A w \in Workers : ~Held(w, s)'
    /\ \/ \E w \in Workers : Held(w, s) /\ pc[w] # "success"
       \/ Queued(s)

LEMMA ElsewhereEffect ==
    ASSUME TypeOK, OneCopy, NEW w \in Workers, Elsewhere(w)
    PROVE  /\ results' = results
           /\ \A v \in Workers : pc[v] = "success" => pc'[v] = "success" /\ task'[v] = task[v]
           /\ extras' = extras \/ \E s \in Stocks : Drops(s)
<1> USE DEF vars, queueVars, threadVars, healthVars, resultVars, mainVars
<1>1. results' = results
  BY DEF Elsewhere, Login, CheckStop, Get, GetTimeout, PutBack, DeadlineSkip, Begin, ProcessFails,
         ProcessSucceeds, DropDead, GiveUp, Requeue, TaskDone
<1>2. \A v \in Workers : pc[v] = "success" => pc'[v] = "success" /\ task'[v] = task[v]
  <2>1. pc[w] # "success"
    BY DEF Elsewhere, Login, CheckStop, Get, GetTimeout, PutBack, DeadlineSkip, Begin, ProcessFails,
           ProcessSucceeds, DropDead, GiveUp, Requeue, TaskDone, OwePoints
  <2>2. \A v \in Workers \ {w} : pc'[v] = pc[v] /\ task'[v] = task[v]
    BY DEF Elsewhere, Login, CheckStop, Get, GetTimeout, PutBack, DeadlineSkip, Begin, ProcessFails,
           ProcessSucceeds, OnFailure, DropDead, GiveUp, Requeue, TaskDone, Goto, TypeOK
  <2> QED  BY <2>1, <2>2
<1>3. ASSUME DeadlineSkip(w) \/ DropDead(w) \/ GiveUp(w)
      PROVE  \E s \in Stocks : Drops(s)
  <2>1. /\ pc[w] \in HoldPoints /\ pc[w] # "success" /\ pc'[w] = "taskDone"
        /\ UNCHANGED <<queue, task>> /\ \A v \in Workers \ {w} : pc'[v] = pc[v]
    BY <1>3 DEF DeadlineSkip, DropDead, GiveUp, Goto, HoldPoints, TypeOK
  <2>2. PICK s \in Stocks : s = task[w].stock
    BY <2>1 DEF TypeOK, Item
  <2>3. \E status \in Statuses : extras' = [extras EXCEPT ![s] = Append(@, status)]
    BY <1>3, <2>2 DEF DeadlineSkip, DropDead, GiveUp, OnExtra, Statuses
  <2>4. Held(w, s)
    BY <2>1, <2>2 DEF Held
  <2>5. ~Queued(s)'
    BY <2>1, <2>4 DEF OneCopy, Queued
  <2>6. \A v \in Workers : ~Held(v, s)'
    BY <2>1, <2>4 DEF OneCopy, Held, HoldPoints
  <2> QED  BY <2>1, <2>3, <2>4, <2>5, <2>6 DEF Drops
<1>4. extras' = extras \/ DeadlineSkip(w) \/ DropDead(w) \/ GiveUp(w)
  BY DEF Elsewhere, Login, CheckStop, Get, GetTimeout, PutBack, Begin, ProcessFails,
         ProcessSucceeds, Requeue, TaskDone
<1> QED  BY <1>1, <1>2, <1>3, <1>4

LEMMA MainEffect ==
    ASSUME TypeOK, OneCopy, Main \/ Expire
    PROVE  /\ results' = results /\ UNCHANGED <<pc, task>>
           /\ main = "done" => main' = "done"
           /\ extras' = extras \/ \E s \in Stocks : Drops(s)
<1> USE DEF vars, queueVars, threadVars, healthVars, resultVars, mainVars
<1>1. CASE DrainOne
  <2>1. Head(queue) \in Item /\ \A s \in Stocks : s = Head(queue).stock => Queued(s) /\ ~Queued(s)'
    BY <1>1, QueuedAfterGet DEF DrainOne
  <2>2. PICK s \in Stocks : s = Head(queue).stock
    BY <2>1 DEF Item
  <2>3. \A w \in Workers : ~Held(w, s)'
    BY <1>1, <2>1, <2>2 DEF DrainOne, OneCopy, Held
  <2>4. \E status \in Statuses : extras' = [extras EXCEPT ![s] = Append(@, status)]
    BY <1>1, <2>2 DEF DrainOne, OnExtra, Statuses
  <2>5. Drops(s)
    BY <2>1, <2>2, <2>3, <2>4 DEF Drops
  <2> QED  BY <1>1, <2>5 DEF DrainOne
<1>2. CASE Watch \/ CheckAllDead \/ DrainEmpty \/ Halt \/ AllDone \/ Expire \/ \E w \in Workers \ joined : Join(w)
  BY <1>2 DEF Watch, CheckAllDead, DrainEmpty, Halt, AllDone, Join, Expire
<1> QED  BY <1>1, <1>2 DEF Main

(* The outcome of a stock is its only one *)
LEMMA OutcomeKept ==
    ASSUME TypeOK, CallbackInv, OutcomeInv, Move, results' = results, pub' = pub,
           \A v \in Workers : pc[v] = "success" => pc'[v] = "success" /\ task'[v] = task[v],
           extras' = extras \/ \E s \in Stocks : Drops(s)
    PROVE  OutcomeInv'
<1> SUFFICES ASSUME NEW t \in Stocks
             PROVE  /\ Completed(t)' => extras'[t] = <<>>
                    /\ Len(extras'[t]) <= 1
                    /\ Settled(t)' => ~Queued(t)'
                    /\ \A w \in Workers : Settled(t)' /\ Held(w, t)' => pub'[w] # "idle"
  BY DEF OutcomeInv
<1>1. CASE extras'[t] = extras[t]
  <2>1. Settled(t)' = Settled(t) /\ Completed(t)' = Completed(t)
    BY <1>1 DEF Settled, Completed
  <2>2. ASSUME Settled(t), Queued(t)' PROVE FALSE
    <3>1. PICK w \in Workers : Held(w, t) /\ ~Held(w, t)'
      BY <2>2, MoveOrigin DEF OutcomeInv
    <3>2. pc[w] = "success"
      BY <2>2, <3>1 DEF OutcomeInv, CallbackInv
    <3> QED  BY <3>1, <3>2 DEF Held, HoldPoints
  <2>3. ASSUME NEW w \in Workers, Settled(t), Held(w, t)' PROVE pub'[w] # "idle"
    BY <2>3, MoveOrigin DEF OutcomeInv
  <2> QED  BY <1>1, <2>1, <2>2, <2>3 DEF OutcomeInv
<1>2. CASE Drops(t)
  <2>1. ~Settled(t)
    <3>1. ASSUME NEW w \in Workers, Held(w, t), pc[w] # "success" PROVE ~Settled(t)
      BY <3>1 DEF OutcomeInv, CallbackInv
    <3> QED  BY <1>2, <3>1 DEF Drops, OutcomeInv
  <2>2. extras[t] = <<>> /\ results[t] = Nobody
    BY <2>1 DEF Settled, Completed
  <2>3. PICK status \in Statuses : extras' = [extras EXCEPT ![t] = Append(extras[t], status)]
    BY <1>2 DEF Drops
  <2>4. extras \in [Stocks -> Seq(Statuses)]
    BY DEF TypeOK
  <2>5. extras'[t] = Append(<<>>, status)
    BY <2>2, <2>3, <2>4
  <2>6. Len(extras'[t]) <= 1
    BY <2>5
  <2> QED  BY <1>2, <2>2, <2>6 DEF Drops, Completed
<1>3. ASSUME NEW s \in Stocks, Drops(s), s # t PROVE extras'[t] = extras[t]
  BY <1>3 DEF Drops, TypeOK
<1> QED  BY <1>1, <1>2, <1>3

LEMMA DispatcherStep ==
    ASSUME RunInv, started, UNCHANGED pipeVars,
           Main \/ Expire \/ \E w \in Workers : Elsewhere(w)
    PROVE  RunInv'
<1> USE DEF pipeVars
<1>1. TypeOK /\ OneCopy
  BY DEF RunInv, SafetyInv
<1>2. /\ results' = results
      /\ \A v \in Workers : pc[v] = "success" => pc'[v] = "success" /\ task'[v] = task[v]
      /\ extras' = extras \/ \E s \in Stocks : Drops(s)
  BY <1>1, ElsewhereEffect, MainEffect
<1>3. Next /\ Move /\ (main = "done" => main' = "done")
  <2>1. ASSUME NEW w \in Workers, Elsewhere(w) PROVE Next /\ Move /\ UNCHANGED main
    <3>1. Worker(w)
      BY <2>1 DEF Elsewhere, Worker
    <3>2. UNCHANGED main
      BY <2>1 DEF Elsewhere, Login, CheckStop, Get, GetTimeout, PutBack, DeadlineSkip, Begin, ProcessFails,
         ProcessSucceeds, DropDead, GiveUp, Requeue, TaskDone, mainVars
    <3> QED  BY <1>1, <3>1, <3>2, WorkerMoves DEF Next
  <2>2. CASE Main \/ Expire
    BY <1>1, <2>2, MainMoves, MainEffect DEF Next
  <2> QED  BY <2>1, <2>2
<1>4. SafetyInv' /\ dead \subseteq dead' /\ dead' \subseteq Workers
  BY <1>3, StepSafety, StepDead DEF RunInv, SafetyInv, TypeOK
<1>5. PipelineTypeOK'
  BY <1>4 DEF RunInv, PipelineTypeOK, SafetyInv
<1>6. CallbackInv'
  BY <1>2 DEF RunInv, CallbackInv
<1>7. PhaseInv'
  BY <1>3 DEF RunInv, PhaseInv
<1>8. OutcomeInv'
  BY <1>1, <1>2, <1>3, OutcomeKept DEF RunInv
<1>9. DraftInv' /\ FinalReportComplete'
  BY <1>2, ShownSame DEF RunInv, DraftInv, ReportLosesNothing, FinalReportComplete, Whole
<1>10. TotalInv'
  BY <1>4 DEF RunInv, TotalInv
<1> QED  BY <1>4, <1>5, <1>6, <1>7, <1>8, <1>9, <1>10 DEF RunInv


-----------------------------------------------------------------------------
(* Steps of on_result *)

LEMMA StoreStep ==
    ASSUME RunInv, NEW w \in Workers, StoreResult(w)
    PROVE  RunInv'
<1>1. TypeOK /\ OneCopy /\ PipelineTypeOK
  BY DEF RunInv, SafetyInv
<1>2. /\ UNCHANGED <<queue, unfinished, pc, task, streak, dead, primaryBy, extras, main, stop, joined,
                    expired, submits, phase, started, disk, published, lock, draft, files, counted, success>>
      /\ pc[w] = "success" /\ pub[w] = "idle"
  BY DEF StoreResult, queueVars, threadVars, healthVars, mainVars
<1>3. PICK s \in Stocks : s = task[w].stock
  BY <1>1, <1>2 DEF TypeOK, HoldPoints, Item
<1>4. Held(w, s)
  BY <1>2, <1>3 DEF Held, HoldPoints
<1>5. /\ results' \in [Stocks -> Workers \cup {Nobody}] /\ results'[s] = w
      /\ \A t \in Stocks \ {s} : results'[t] = results[t]
  BY <1>1, <1>3 DEF StoreResult, RecordResult, TypeOK
<1>6. pub' \in [Workers -> {"idle", "lock", "gen", "write"}] /\ pub'[w] = "lock" /\ \A v \in Workers \ {w} : pub'[v] = pub[v]
  BY <1>1 DEF StoreResult, PipelineTypeOK
<1>7. started /\ phase \notin {"count", "final", "rendering", "writing", "returned"}
  BY <1>2, NobodyInCallback
<1>8. /\ \A t \in Stocks : Completed(t) => Completed(t)'
      /\ \A t \in Stocks : Settled(t)' <=> (Settled(t) \/ t = s)
  BY <1>2, <1>5, DispatchAssumption DEF Completed, Settled
<1>9. SafetyInv'
  <2>1. TypeOK'
    BY <1>1, <1>2, <1>5 DEF TypeOK
  <2>2. NeverLost'
    BY <1>2, <1>8 DEF RunInv, SafetyInv, NeverLost, Queued, Held
  <2>3. UnfinishedExact' /\ OneCopy' /\ AttemptsCounted' /\ AttemptBound' /\ DeadNeverRuns' /\ LeavesWhenOver'
    BY <1>2 DEF RunInv, SafetyInv, UnfinishedExact, Owing, OneCopy, Queued, Held, AttemptsCounted,
                AttemptBound, DeadNeverRuns, LeavesWhenOver
  <2> QED  BY <2>1, <2>2, <2>3 DEF SafetyInv
<1>10. PipelineTypeOK'
  BY <1>1, <1>2, <1>6, <1>9 DEF PipelineTypeOK, SafetyInv
<1>11. CallbackInv'
  <2>1. ASSUME NEW v \in Workers \ {w}, pub[v] # "idle"
        PROVE  pc[v] = "success" /\ results'[task[v].stock] = v
    <3>1. pc[v] = "success" /\ results[task[v].stock] = v /\ task[v] \in Item
      BY <1>1, <2>1 DEF RunInv, CallbackInv, TypeOK, HoldPoints
    <3>2. Held(v, task[v].stock) /\ task[v].stock \in Stocks
      BY <3>1 DEF Held, HoldPoints, Item
    <3>3. task[v].stock # s
      BY <1>1, <1>4, <3>2 DEF OneCopy
    <3> QED  BY <1>5, <3>1, <3>2, <3>3
  <2>2. \A v \in Workers : pub'[v] \in {"gen", "write"} <=> lock' = v
    BY <1>2, <1>6 DEF RunInv, CallbackInv
  <2> QED  BY <1>2, <1>3, <1>5, <1>6, <2>1, <2>2 DEF CallbackInv
<1>12. PhaseInv'
  BY <1>2 DEF RunInv, PhaseInv
<1>13. OutcomeInv'
  <2>1. ~Settled(s) /\ extras[s] = <<>> /\ ~Queued(s) /\ \A v \in Workers : Held(v, s) => v = w
    BY <1>1, <1>2, <1>4 DEF RunInv, OutcomeInv, OneCopy, Settled
  <2>2. \A v \in Workers, t \in Stocks : (Held(v, t)' <=> Held(v, t)) /\ (Queued(t)' <=> Queued(t))
    BY <1>2 DEF Held, Queued
  <2>3. \A t \in Stocks \ {s} : Completed(t)' <=> Completed(t)
    BY <1>5 DEF Completed
  <2> QED  BY <1>2, <1>6, <1>8, <2>1, <2>2, <2>3 DEF RunInv, OutcomeInv
<1>14. DraftInv'
  <2>1. Shown \subseteq Shown'
    BY <1>2, <1>8 DEF Shown, Reported
  <2> QED  BY <1>2, <1>6, <1>7, <2>1 DEF RunInv, DraftInv, ReportLosesNothing, Whole
<1>15. TotalInv' /\ FinalReportComplete'
  BY <1>2, <1>7 DEF TotalInv, FinalReportComplete
<1> QED  BY <1>9, <1>10, <1>11, <1>12, <1>13, <1>14, <1>15 DEF RunInv

(* Steps that leave the dispatcher alone *)
LEMMA DispatcherSame ==
    ASSUME RunInv, UNCHANGED vars
    PROVE  SafetyInv' /\ Reported' = Reported
<1>1. SafetyInv'
  BY StepSafety DEF RunInv
<1>2. Reported' = Reported
  BY DEF vars, resultVars, Reported, Completed
<1> QED  BY <1>1, <1>2

LEMMA LockStep ==
    ASSUME RunInv, NEW w \in Workers, LockReport(w)
    PROVE  RunInv'
<1>1. SafetyInv' /\ Reported' = Reported /\ PipelineTypeOK
  BY DispatcherSame DEF LockReport, RunInv
<1>2. /\ UNCHANGED <<queue, pc, task, dead, results, extras, main, submits>>
      /\ UNCHANGED <<phase, started, disk, published, files, counted, success>>
      /\ pc[w] = "success" /\ pub[w] = "lock" /\ lock = Nobody /\ lock' = w
  BY DEF LockReport, vars, queueVars, threadVars, healthVars, resultVars, mainVars
<1>3. Shown' = Shown /\ Shown \subseteq Stocks
  BY <1>1, <1>2 DEF Shown, Reported, PipelineTypeOK
<1>4. /\ draft' \in [Workers \cup {Nobody} -> SUBSET Stocks] /\ draft'[w] = Shown
      /\ \A x \in (Workers \cup {Nobody}) \ {w} : draft'[x] = draft[x]
  <2>1. draft' = [draft EXCEPT ![w] = Shown] /\ draft \in [Workers \cup {Nobody} -> SUBSET Stocks]
    BY <1>1 DEF LockReport, Read, PipelineTypeOK
  <2> QED  BY <1>3, <2>1
<1>5. pub' \in [Workers -> {"idle", "lock", "gen", "write"}] /\ pub'[w] = "gen" /\ \A v \in Workers \ {w} : pub'[v] = pub[v]
  BY <1>1 DEF LockReport, PipelineTypeOK
<1>6. PipelineTypeOK'
  BY <1>1, <1>2, <1>4, <1>5 DEF PipelineTypeOK, SafetyInv
<1>7. CallbackInv'
  BY <1>2, <1>5, DispatchAssumption DEF RunInv, CallbackInv
<1>8. PhaseInv' /\ TotalInv'
  BY <1>2 DEF RunInv, PhaseInv, TotalInv
<1>9. OutcomeInv'
  <2>1. \A v \in Workers, t \in Stocks : /\ Held(v, t)' <=> Held(v, t)
                                         /\ Queued(t)' <=> Queued(t)
                                         /\ Settled(t)' <=> Settled(t)
                                         /\ Completed(t)' <=> Completed(t)
    BY <1>2 DEF Held, Queued, Settled, Completed
  <2>2. \A v \in Workers : pub[v] # "idle" => pub'[v] # "idle"
    BY <1>5
  <2> QED  BY <1>2, <2>1, <2>2 DEF RunInv, OutcomeInv, Queued, Settled, Completed
<1>10. DraftInv'
  <2>1. phase \notin {"count", "final", "rendering", "writing", "returned"}
    BY <1>2, NobodyInCallback
  <2> QED  BY <1>2, <1>3, <1>4, <1>5, <2>1 DEF RunInv, DraftInv, ReportLosesNothing, Whole
<1>11. FinalReportComplete'
  BY <1>1, <1>2, <1>3 DEF RunInv, FinalReportComplete, Whole
<1> QED  BY <1>1, <1>6, <1>7, <1>8, <1>9, <1>10, <1>11 DEF RunInv

(* A page that is rendered shows all that was read for it *)
LEMMA RenderIs ==
    ASSUME RunInv, NEW x \in Workers \cup {Nobody}, Render(x)
    PROVE  /\ draft' \in [Workers \cup {Nobody} -> SUBSET Stocks]
           /\ draft[x] \subseteq draft'[x] /\ draft'[x] \subseteq Shown
           /\ \A y \in (Workers \cup {Nobody}) \ {x} : draft'[y] = draft[y]
<1>1. Shown \subseteq Stocks /\ draft \in [Workers \cup {Nobody} -> SUBSET Stocks]
  BY DEF RunInv, PipelineTypeOK, Shown, Reported
<1>2. PICK seen \in SUBSET Shown : draft[x] \subseteq seen /\ draft' = [draft EXCEPT ![x] = seen]
  BY DEF Render
<1> QED  BY <1>1, <1>2

LEMMA OpenStep ==
    ASSUME RunInv, NEW w \in Workers, OpenReport(w)
    PROVE  RunInv'
<1>1. SafetyInv' /\ Reported' = Reported /\ PipelineTypeOK
  BY DispatcherSame DEF OpenReport, RunInv
<1>2. /\ UNCHANGED <<queue, pc, task, dead, results, extras, main, submits>>
      /\ UNCHANGED <<phase, started, published, lock, files, counted, success>>
      /\ pub[w] = "gen" /\ disk' = Truncated
  BY DEF OpenReport, Open, vars, queueVars, threadVars, healthVars, resultVars, mainVars
<1>3. Shown' = Shown /\ Shown \subseteq Stocks
  BY <1>1, <1>2 DEF Shown, Reported, PipelineTypeOK
<1>4. /\ draft' \in [Workers \cup {Nobody} -> SUBSET Stocks]
      /\ draft[w] \subseteq draft'[w] /\ draft'[w] \subseteq Shown
      /\ \A x \in (Workers \cup {Nobody}) \ {w} : draft'[x] = draft[x]
  BY RenderIs DEF OpenReport
<1>5. /\ pub' \in [Workers -> {"idle", "lock", "gen", "write"}] /\ pub'[w] = "write"
      /\ \A v \in Workers \ {w} : pub'[v] = pub[v]
  BY <1>1 DEF OpenReport, PipelineTypeOK
<1>6. PipelineTypeOK'
  BY <1>1, <1>2, <1>4, <1>5 DEF PipelineTypeOK, SafetyInv
<1>7. CallbackInv'
  BY <1>2, <1>5 DEF RunInv, CallbackInv
<1>8. pc[w] = "success" /\ started /\ phase \notin {"count", "final", "rendering", "writing", "returned"}
  BY <1>2, NobodyInCallback DEF RunInv, CallbackInv
<1>9. PhaseInv' /\ TotalInv' /\ FinalReportComplete'
  BY <1>2, <1>8 DEF RunInv, PhaseInv, TotalInv, FinalReportComplete
<1>10. OutcomeInv'
  <2>1. \A v \in Workers, t \in Stocks : /\ Held(v, t)' <=> Held(v, t)
                                         /\ Queued(t)' <=> Queued(t)
                                         /\ Settled(t)' <=> Settled(t)
                                         /\ Completed(t)' <=> Completed(t)
    BY <1>2 DEF Held, Queued, Settled, Completed
  <2>2. \A v \in Workers : pub[v] # "idle" => pub'[v] # "idle"
    BY <1>5
  <2> QED  BY <1>2, <2>1, <2>2 DEF RunInv, OutcomeInv, Queued, Settled, Completed
<1>11. DraftInv'
  <2>1. ReportLosesNothing' /\ ~Whole'
    BY <1>2, ReportAssumption DEF ReportLosesNothing, Whole
  <2>2. \A v \in Workers : pub'[v] \in {"gen", "write"} => published' \subseteq draft'[v]
    BY <1>2, <1>4, <1>5, DispatchAssumption DEF RunInv, DraftInv
  <2> QED  BY <1>2, <1>3, <1>4, <1>8, <2>1, <2>2 DEF RunInv, DraftInv
<1> QED  BY <1>1, <1>6, <1>7, <1>9, <1>10, <1>11 DEF RunInv

(* A report written to its end from a draft that has all there was *)
LEMMA WroteIs ==
    ASSUME NEW shown \in SUBSET Stocks, published \in SUBSET Stocks, published \subseteq shown, Wrote(shown)
    PROVE  /\ disk' \in SUBSET Stocks /\ disk' = shown /\ published' = shown
           /\ ReportLosesNothing' /\ Whole'
<1>1. disk' = shown /\ published' = shown
  BY DEF Wrote
<1>2. shown \notin {NoReport, Truncated}
  BY ReportAssumption
<1> QED  BY <1>1, <1>2 DEF ReportLosesNothing, Whole

LEMMA PublishStep ==
    ASSUME RunInv, NEW w \in Workers, Publish(w)
    PROVE  RunInv'
<1>1. TypeOK /\ OneCopy /\ PipelineTypeOK
  BY DEF RunInv, SafetyInv
<1>2. /\ UNCHANGED <<queue, task, dead, results, extras, main, submits>>
      /\ UNCHANGED <<phase, started, draft, files, counted, success>>
      /\ pub[w] \in {"gen", "write"} /\ lock' = Nobody
  BY DEF Publish, LeaveOnResult, Goto, queueVars, healthVars, resultVars, mainVars
<1>3. /\ pc[w] = "success" /\ results[task[w].stock] = w /\ lock = w
      /\ \A v \in Workers \ {w} : pub[v] \notin {"gen", "write"}
  BY <1>2 DEF RunInv, CallbackInv
<1>4. started /\ phase \notin {"count", "final", "rendering", "writing", "returned"}
  BY <1>3, NobodyInCallback
<1>5. SafetyInv'
  <2>1. RecordResult(w)
    BY <1>1, <1>2, <1>3 DEF RecordResult, TypeOK
  <2>2. OnResult(w)
    BY <1>3, <2>1 DEF OnResult, Publish, LeaveOnResult, resultVars
  <2>3. Next
    BY <2>2 DEF Next, Worker
  <2> QED  BY <2>3, StepSafety DEF RunInv
<1>6. pc'[w] = "taskDone" /\ \A v \in Workers \ {w} : pc'[v] = pc[v]
  BY <1>1 DEF Publish, LeaveOnResult, Goto, TypeOK
<1>7. /\ pub' \in [Workers -> {"idle", "lock", "gen", "write"}] /\ pub'[w] = "idle"
      /\ \A v \in Workers \ {w} : pub'[v] = pub[v]
  BY <1>1 DEF Publish, LeaveOnResult, PipelineTypeOK
<1>8. /\ disk' \in (SUBSET Stocks) \cup {NoReport, Truncated} /\ published' \in SUBSET Stocks
      /\ published' \subseteq Shown
      /\ ReportLosesNothing' /\ (Whole' => disk' \subseteq Shown)
  <2>1. CASE Wrote(draft[w])
    <3>1. /\ draft[w] \in SUBSET Stocks /\ published \in SUBSET Stocks
          /\ published \subseteq draft[w] /\ draft[w] \subseteq Shown
      BY <1>1, <1>2 DEF PipelineTypeOK, RunInv, DraftInv
    <3> QED  BY <2>1, <3>1, WroteIs
  <2>2. CASE UNCHANGED <<disk, published>>
    BY <1>1, <2>2 DEF PipelineTypeOK, RunInv, DraftInv, ReportLosesNothing, Whole
  <2> QED  BY <2>1, <2>2 DEF Publish
<1>9. PipelineTypeOK'
  BY <1>1, <1>2, <1>5, <1>7, <1>8 DEF PipelineTypeOK, SafetyInv
<1>10. CallbackInv'
  BY <1>2, <1>3, <1>6, <1>7, DispatchAssumption DEF RunInv, CallbackInv
<1>11. PhaseInv' /\ TotalInv' /\ FinalReportComplete'
  BY <1>2, <1>4 DEF RunInv, PhaseInv, TotalInv, FinalReportComplete
<1>12. OutcomeInv'
  <2>1. \A v \in Workers, t \in Stocks :
            /\ Held(v, t)' => v # w /\ Held(v, t)
            /\ Queued(t)' <=> Queued(t)
            /\ Settled(t)' <=> Settled(t)
            /\ Completed(t)' <=> Completed(t)
    BY <1>2, <1>6 DEF Held, Queued, Settled, Completed, HoldPoints
  <2> QED  BY <1>2, <1>7, <2>1 DEF RunInv, OutcomeInv
<1>13. DraftInv'
  <2>1. Shown' = Shown
    BY <1>2, ShownSame
  <2> QED  BY <1>2, <1>3, <1>4, <1>7, <1>8, <2>1 DEF RunInv, DraftInv
<1> QED  BY <1>5, <1>9, <1>10, <1>11, <1>12, <1>13 DEF RunInv


-----------------------------------------------------------------------------
(* The counters *)

LEMMA StocksCounted == IsFiniteSet(Stocks) /\ Cardinality(Stocks) = Len(StockList)
<1> DEFINE n == Len(StockList)
           f == [i \in 1..n |-> StockList[i]]
<1>1. n \in Nat /\ \A i, j \in 1..n : StockList[i] = StockList[j] => i = j
  BY DispatchAssumption
<1>2. IsFiniteSet(1..n) /\ Cardinality(1..n) = n
  BY <1>1, FS_Interval, SMTT(30)
<1>3. f \in Bijection(1..n, Stocks)
  BY <1>1 DEF Stocks, Bijection, Injection, Surjection, IsInjective
<1>4. ExistsBijection(1..n, Stocks)
  BY <1>3 DEF ExistsBijection
<1> QED  BY <1>2, <1>4, FS_Bijection

(* One failure for each stock with an extra *)
LEMMA FailuresCounted ==
    ASSUME RunInv
    PROVE  LET dropped == {s \in Stocks : extras[s] # <<>>}
           IN  IsFiniteSet(dropped) /\ Cardinality(Failures) = Cardinality(dropped)
<1> DEFINE dropped == {s \in Stocks : extras[s] # <<>>}
           f == [s \in dropped |-> <<s, 1>>]
<1>1. IsFiniteSet(dropped)
  BY StocksCounted, FS_Subset
<1>2. ASSUME NEW s \in Stocks PROVE DOMAIN extras[s] = IF s \in dropped THEN {1} ELSE {}
  <2>1. extras[s] \in Seq(Statuses) /\ Len(extras[s]) <= 1
    BY DEF RunInv, SafetyInv, TypeOK, OutcomeInv
  <2>2. PICK e \in Seq(Statuses) : e = extras[s] /\ Len(e) <= 1
    BY <2>1
  <2>3. CASE extras[s] = <<>>
    BY <2>3
  <2>4. CASE extras[s] # <<>>
    <3>a. e # <<>>
      BY <2>2, <2>4
    <3>b. Len(e) \in Nat /\ Len(e) # 0
      BY <3>a
    <3>c. \A n \in Nat : n # 0 /\ n <= 1 => n = 1
      OBVIOUS
    <3>1. Len(e) = 1
      BY <2>2, <3>b, <3>c
    <3> QED  BY <2>2, <2>4, <3>1
  <2> QED  BY <2>3, <2>4
<1>3. Failures = {<<s, 1>> : s \in dropped}
  <2>1. ASSUME NEW x \in Failures PROVE x \in {<<s, 1>> : s \in dropped}
    <3>1. PICK s \in Stocks : x \in {s} \X DOMAIN extras[s]
      BY <2>1 DEF Failures
    <3> QED  BY <1>2, <3>1
  <2>2. ASSUME NEW s \in dropped PROVE <<s, 1>> \in Failures
    <3>1. <<s, 1>> \in {s} \X DOMAIN extras[s] /\ s \in Stocks
      BY <1>2
    <3> QED  BY <3>1 DEF Failures
  <2> QED  BY <2>1, <2>2
<1>4. f \in Bijection(dropped, Failures)
  <2> HIDE DEF dropped
  <2> QED  BY <1>3 DEF Bijection, Injection, Surjection, IsInjective
<1>5. ExistsBijection(dropped, Failures)
  BY <1>4 DEF ExistsBijection
<1> QED  BY <1>1, <1>5, FS_Bijection

(* With a worker left, every stock is counted once *)
LEMMA AllCounted ==
    ASSUME RunInv, started, phase = "count", dead # Workers
    PROVE  Cardinality(Reported) + Cardinality(Failures) = Len(StockList)
<1> DEFINE dropped == {s \in Stocks : extras[s] # <<>>}
<1>1. main = "done"
  BY DEF RunInv, PhaseInv
<1>2. \A s \in Stocks : Settled(s)
  BY <1>1, StrandedFromSafety DEF RunInv, StrandedOnlyIfAllDead
<1>3. Reported \cup dropped = Stocks /\ Reported \cap dropped = {}
  BY <1>2 DEF Reported, Settled, RunInv, OutcomeInv
<1>4. IsFiniteSet(Reported) /\ IsFiniteSet(dropped) /\ Cardinality(Failures) = Cardinality(dropped)
  <2>1. Reported \in SUBSET Stocks
    BY DEF Reported
  <2> QED  BY <2>1, StocksCounted, FailuresCounted, FS_Subset
<1> HIDE DEF dropped
<1>5. Cardinality(Stocks) = Cardinality(Reported) + Cardinality(dropped) - Cardinality(Reported \cap dropped)
  BY <1>3, <1>4, FS_Union
<1>6. Cardinality(Reported) \in Nat /\ Cardinality(dropped) \in Nat /\ Cardinality(Reported \cap dropped) = 0
  BY <1>3, <1>4, FS_CardinalityType, FS_EmptySet
<1> QED  BY <1>4, <1>5, <1>6, StocksCounted

-----------------------------------------------------------------------------
(* Steps of the server and of the orchestrator *)

LEMMA ServerStep ==
    ASSUME RunInv, NEW s \in Stocks, ServerWrites(s)
    PROVE  RunInv'
<1>1. SafetyInv' /\ Reported' = Reported /\ PipelineTypeOK
  BY DispatcherSame DEF ServerWrites, RunInv
<1>2. /\ UNCHANGED <<queue, pc, task, dead, results, extras, main, submits>>
      /\ UNCHANGED <<phase, started, disk, published, pub, lock, draft, counted, success>>
      /\ files' = files \cup {s}
  BY DEF ServerWrites, vars, queueVars, threadVars, healthVars, resultVars, mainVars
<1>3. Shown \subseteq Shown'
  BY <1>1, <1>2 DEF Shown
<1>4. PipelineTypeOK'
  BY <1>1, <1>2 DEF PipelineTypeOK, SafetyInv
<1>5. CallbackInv' /\ PhaseInv' /\ TotalInv'
  BY <1>2 DEF RunInv, CallbackInv, PhaseInv, TotalInv
<1>6. OutcomeInv'
  BY <1>2 DEF RunInv, OutcomeInv, Queued, Held, Settled, Completed
<1>7. DraftInv' /\ FinalReportComplete'
  BY <1>1, <1>2, <1>3 DEF RunInv, DraftInv, ReportLosesNothing, FinalReportComplete, Whole
<1> QED  BY <1>1, <1>4, <1>5, <1>6, <1>7 DEF RunInv

LEMMA OrchestratorStep ==
    ASSUME RunInv, Orchestrator
    PROVE  RunInv'
<1>1. UNCHANGED vars /\ UNCHANGED <<pub, lock, files>>
  BY DEF Orchestrator, Filter, InitialReport, CheckAvailable, DispatchReturns, Count, FinalReport, OpenFinal,
         Return
<1>2. SafetyInv' /\ Reported' = Reported /\ PipelineTypeOK
  BY <1>1, DispatcherSame DEF RunInv
<1>3. UNCHANGED <<queue, pc, task, dead, results, extras, main, submits>>
  BY <1>1 DEF vars, queueVars, threadVars, healthVars, resultVars, mainVars
<1>4. Shown' = Shown /\ Shown \subseteq Stocks
  BY <1>1, <1>2 DEF Shown, Reported, PipelineTypeOK
<1>5. CallbackInv' /\ OutcomeInv'
  BY <1>1, <1>3 DEF RunInv, CallbackInv, OutcomeInv, Queued, Held, Settled, Completed
<1>6. CASE Filter
  <2>1. disk = NoReport /\ ~started /\ UNCHANGED <<started, draft, published, counted>> /\ published = {}
    BY <1>6 DEF Filter, RunInv, PhaseInv, DraftInv, ReportLosesNothing
  <2>2. /\ phase' \in {"raised", "returned", "initial"} /\ disk' \in {disk, {}, Truncated} /\ success' \in BOOLEAN
        /\ phase' = "initial" => disk' = disk
        /\ success' => phase' = "returned"
    <3>1. phase = "filter" /\ ~success /\ success \in BOOLEAN
      BY <1>2, <1>6 DEF Filter, PipelineTypeOK, RunInv, PhaseInv
    <3>2. CASE phase' = "raised" /\ disk' \in {disk, {}, Truncated} /\ UNCHANGED success
      BY <3>1, <3>2
    <3>3. CASE phase' = "returned" /\ disk' = {} /\ success' = TRUE
      BY <3>3
    <3>4. CASE phase' = "initial" /\ UNCHANGED <<disk, success>>
      BY <3>1, <3>4
    <3> QED  BY <1>6, <3>2, <3>3, <3>4 DEF Filter
  <2>3. PipelineTypeOK'
    BY <1>1, <1>2, <2>1, <2>2 DEF PipelineTypeOK, SafetyInv
  <2>4. PhaseInv' /\ TotalInv' /\ FinalReportComplete'
    BY <1>1, <1>3, <2>1, <2>2, NobodyInCallback DEF RunInv, PhaseInv, TotalInv, FinalReportComplete
  <2>5. ReportLosesNothing' /\ (Whole' => disk' \subseteq Shown)
    BY <2>1, <2>2 DEF ReportLosesNothing, Whole
  <2>6. DraftInv'
    BY <1>1, <1>4, <2>1, <2>2, <2>5, NobodyInCallback DEF RunInv, DraftInv
  <2> QED  BY <1>2, <1>5, <2>1, <2>3, <2>4, <2>6 DEF RunInv
<1>7. CASE InitialReport
  <2>1. /\ phase = "initial" /\ phase' = "available" /\ disk = NoReport /\ ~started /\ published = {}
        /\ UNCHANGED <<started, draft, counted, success>>
    BY <1>7 DEF InitialReport, RunInv, PhaseInv, DraftInv, ReportLosesNothing
  <2>2. files \in SUBSET Stocks /\ files \subseteq Shown
    BY <1>2 DEF PipelineTypeOK, Shown
  <2>3. /\ disk' \in (SUBSET Stocks) \cup {NoReport, Truncated} /\ published' \in SUBSET Stocks
        /\ published' \subseteq Shown
        /\ ReportLosesNothing' /\ (Whole' => disk' \subseteq Shown)
    <3>1. CASE Wrote(files)
      BY <2>1, <2>2, <3>1, WroteIs
    <3>2. CASE disk' \in {disk, Truncated} /\ UNCHANGED published
      BY <2>1, <3>2 DEF ReportLosesNothing, Whole
    <3> QED  BY <1>7, <3>1, <3>2 DEF InitialReport
  <2>4. PipelineTypeOK'
    BY <1>1, <1>2, <2>1, <2>3 DEF PipelineTypeOK, SafetyInv
  <2>5. PhaseInv' /\ TotalInv' /\ FinalReportComplete'
    BY <1>1, <1>3, <2>1, NobodyInCallback DEF RunInv, PhaseInv, TotalInv, FinalReportComplete
  <2>6. DraftInv'
    BY <1>1, <1>4, <2>1, <2>3, NobodyInCallback DEF RunInv, DraftInv
  <2> QED  BY <1>2, <1>5, <2>4, <2>5, <2>6 DEF RunInv
<1>8. CASE CheckAvailable \/ DispatchReturns
  <2>1. /\ UNCHANGED <<disk, published, draft, counted, success>> /\ phase' \in {"dispatch", "count"} /\ started' \in BOOLEAN
        /\ started => started'
        /\ started' /\ phase' = "count" => main = "done"
        /\ ~success
    <3>1. CASE CheckAvailable
      <4>1. ~started /\ ~success /\ UNCHANGED <<disk, published, draft, counted, success>>
        BY <3>1 DEF CheckAvailable, RunInv, PhaseInv
      <4>2. CASE phase' = "dispatch" /\ started' = TRUE
        BY <4>1, <4>2
      <4>3. CASE phase' = "count" /\ started' = started
        BY <1>2, <4>1, <4>3 DEF PipelineTypeOK
      <4> QED  BY <3>1, <4>2, <4>3 DEF CheckAvailable
    <3>2. CASE DispatchReturns
      BY <1>2, <3>2 DEF DispatchReturns, PipelineTypeOK, RunInv, PhaseInv
    <3> QED  BY <1>8, <3>1, <3>2
  <2>2. PipelineTypeOK'
    BY <1>1, <1>2, <2>1 DEF PipelineTypeOK, SafetyInv
  <2>3. PhaseInv' /\ DraftInv' /\ TotalInv' /\ FinalReportComplete'
    BY <1>1, <1>3, <1>4, <2>1
    DEF RunInv, PhaseInv, DraftInv, ReportLosesNothing, Whole, TotalInv, FinalReportComplete
  <2> QED  BY <1>2, <1>5, <2>1, <2>2, <2>3 DEF RunInv
<1>9. CASE Count
  <2>1. /\ phase = "count" /\ phase' = "final" /\ UNCHANGED <<started, disk, published, draft, success>>
        /\ counted'[1] = Cardinality(Reported) /\ counted'[2] = Cardinality(Failures)
    BY <1>9 DEF Count
  <2>2. PipelineTypeOK'
    BY <1>1, <1>2, <2>1 DEF PipelineTypeOK, SafetyInv
  <2>3. TotalInv'
    BY <1>3, <2>1, AllCounted DEF TotalInv
  <2>4. PhaseInv' /\ DraftInv' /\ FinalReportComplete'
    BY <1>1, <1>3, <1>4, <2>1
    DEF RunInv, PhaseInv, DraftInv, ReportLosesNothing, Whole, FinalReportComplete
  <2> QED  BY <1>2, <1>5, <2>1, <2>2, <2>3, <2>4 DEF RunInv
<1>10. CASE FinalReport
  <2>1. /\ phase = "final" /\ phase' = "rendering" /\ UNCHANGED <<started, disk, published, counted, success>>
        /\ draft' = [draft EXCEPT ![Nobody] = Shown]
    BY <1>10 DEF FinalReport, Read
  <2>2. /\ draft' \in [Workers \cup {Nobody} -> SUBSET Stocks] /\ draft'[Nobody] = Shown
        /\ \A w \in Workers : draft'[w] = draft[w]
    BY <1>2, <1>4, <2>1, DispatchAssumption DEF PipelineTypeOK
  <2>3. PipelineTypeOK'
    BY <1>1, <1>2, <2>1, <2>2 DEF PipelineTypeOK, SafetyInv
  <2>4. DraftInv'
    BY <1>1, <1>2, <1>4, <2>1, <2>2 DEF RunInv, DraftInv, ReportLosesNothing, Whole, Shown
  <2>5. PhaseInv' /\ TotalInv' /\ FinalReportComplete'
    BY <1>1, <1>3, <2>1 DEF RunInv, PhaseInv, TotalInv, FinalReportComplete
  <2> QED  BY <1>2, <1>5, <2>1, <2>3, <2>4, <2>5 DEF RunInv
<1>11. CASE OpenFinal
  <2>1. /\ phase = "rendering" /\ phase' = "writing" /\ disk' = Truncated
        /\ UNCHANGED <<started, published, counted, success>>
    BY <1>11 DEF OpenFinal, Open
  <2>2. /\ draft' \in [Workers \cup {Nobody} -> SUBSET Stocks]
        /\ draft[Nobody] \subseteq draft'[Nobody] /\ draft'[Nobody] \subseteq Shown
        /\ \A w \in Workers : draft'[w] = draft[w]
    BY <1>11, RenderIs, DispatchAssumption DEF OpenFinal
  <2>3. PipelineTypeOK'
    BY <1>1, <1>2, <2>1, <2>2 DEF PipelineTypeOK, SafetyInv
  <2>4. ReportLosesNothing' /\ ~Whole'
    BY <2>1, ReportAssumption DEF ReportLosesNothing, Whole
  <2>5. DraftInv'
    BY <1>1, <1>2, <1>4, <2>1, <2>2, <2>4 DEF RunInv, DraftInv
  <2>6. PhaseInv' /\ TotalInv' /\ FinalReportComplete'
    BY <1>1, <1>3, <2>1 DEF RunInv, PhaseInv, TotalInv, FinalReportComplete
  <2> QED  BY <1>2, <1>5, <2>3, <2>5, <2>6 DEF RunInv
<1>12. CASE Return
  <2>1. /\ phase \in {"rendering", "writing"} /\ phase' = "returned" /\ UNCHANGED <<started, draft, counted>>
        /\ Reported \subseteq draft[Nobody] /\ published \subseteq draft[Nobody]
        /\ draft[Nobody] \subseteq Shown /\ ~success
        /\ \A w \in Workers : pub[w] = "idle"
    BY <1>12, NobodyInCallback DEF Return, RunInv, DraftInv, PhaseInv
  <2>2. PhaseInv' /\ TotalInv'
    BY <1>1, <1>3, <2>1 DEF RunInv, PhaseInv, TotalInv
  <2>3. CASE Wrote(draft[Nobody]) /\ success' \in BOOLEAN
    <3>1. draft[Nobody] \in SUBSET Stocks /\ published \in SUBSET Stocks
      BY <1>2 DEF PipelineTypeOK
    <3>2. /\ disk' \in SUBSET Stocks /\ disk' = draft[Nobody] /\ published' = draft[Nobody]
          /\ ReportLosesNothing' /\ Whole'
      BY <2>1, <2>3, <3>1, WroteIs
    <3>3. PipelineTypeOK'
      BY <1>1, <1>2, <2>1, <2>3, <3>2 DEF PipelineTypeOK, SafetyInv
    <3>4. DraftInv' /\ FinalReportComplete'
      BY <1>1, <1>2, <1>4, <2>1, <3>2 DEF RunInv, DraftInv, FinalReportComplete
    <3> QED  BY <1>2, <1>5, <2>2, <3>3, <3>4 DEF RunInv
  <2>4. CASE UNCHANGED <<disk, published, success>>
    <3>1. PipelineTypeOK'
      BY <1>1, <1>2, <2>1, <2>4 DEF PipelineTypeOK, SafetyInv
    <3>2. DraftInv' /\ FinalReportComplete'
      BY <1>1, <1>2, <1>4, <2>1, <2>4 DEF RunInv, DraftInv, ReportLosesNothing, Whole, FinalReportComplete
    <3> QED  BY <1>2, <1>5, <2>2, <3>1, <3>2 DEF RunInv
  <2> QED  BY <1>12, <2>3, <2>4 DEF Return
<1> QED  BY <1>6, <1>7, <1>8, <1>9, <1>10, <1>11, <1>12 DEF Orchestrator


-----------------------------------------------------------------------------
(* The invariant holds in every run *)

LEMMA RunStep == RunInv /\ [PipelineNext]_allVars => RunInv'
<1> SUFFICES ASSUME RunInv, [PipelineNext]_allVars PROVE RunInv'
  OBVIOUS
<1>1. CASE Orchestrator
  BY <1>1, OrchestratorStep
<1>2. ASSUME started, UNCHANGED pipeVars, Main \/ Expire \/ \E w \in Workers : Elsewhere(w)
      PROVE  RunInv'
  BY <1>2, DispatcherStep
<1>3. ASSUME NEW w \in Workers, started, WorkerStep(w)
      PROVE  RunInv'
  <2>1. CASE OnResultSteps(w)
    BY <2>1, StoreStep, LockStep, OpenStep, PublishStep DEF OnResultSteps
  <2> QED  BY <1>2, <1>3, <2>1 DEF WorkerStep, Elsewhere
<1>4. ASSUME NEW s \in Stocks, ServerWrites(s) PROVE RunInv'
  BY <1>4, ServerStep
<1>5. CASE UNCHANGED allVars
  <2>1. UNCHANGED vars /\ UNCHANGED pipeVars
    BY <1>5 DEF allVars
  <2>2. SafetyInv' /\ Reported' = Reported
    BY <2>1, DispatcherSame
  <2>3. /\ UNCHANGED <<queue, pc, task, dead, results, extras, main, submits>>
        /\ UNCHANGED <<phase, started, disk, published, pub, lock, draft, files, counted, success>>
    BY <2>1 DEF pipeVars, vars, queueVars, threadVars, healthVars, resultVars, mainVars
  <2>4. Shown' = Shown
    BY <2>2, <2>3 DEF Shown
  <2>5. PipelineTypeOK' /\ CallbackInv' /\ PhaseInv' /\ TotalInv'
    BY <2>2, <2>3 DEF RunInv, SafetyInv, PipelineTypeOK, CallbackInv, PhaseInv, TotalInv
  <2>6. OutcomeInv'
    BY <2>3 DEF RunInv, OutcomeInv, Queued, Held, Settled, Completed
  <2>7. DraftInv' /\ FinalReportComplete'
    BY <2>2, <2>3, <2>4 DEF RunInv, DraftInv, ReportLosesNothing, FinalReportComplete, Whole
  <2> QED  BY <2>2, <2>3, <2>5, <2>6, <2>7 DEF RunInv
<1> QED  BY <1>1, <1>2, <1>3, <1>4, <1>5 DEF PipelineNext, MainStep, Ended

(* The dispatcher's round inside the orchestrator, and the report *)
LEMMA RunHolds == PipelineSpec => []RunInv
BY RunInit, RunStep, PTL DEF PipelineSpec

(* One writer at a time works on the report file, although the final       *)
(* report takes no lock, and a run that succeeds ends with a report that   *)
(* shows every completed analysis and no other.                            *)
THEOREM ReportHolds == PipelineSpec => []ReportInv
<1>1. RunInv => ReportInv
  <2> SUFFICES ASSUME RunInv PROVE OneWriter
    BY DEF RunInv, ReportInv
  <2> QED  BY NobodyInCallback DEF RunInv, CallbackInv, OneWriter
<1> QED  BY <1>1, RunHolds, PTL

(* analysis_completed and analysis_failed add up to the number of stocks   *)
(* unless every worker died.                                               *)
THEOREM CountsHold == PipelineSpec => []CountsAddUp
<1>1. RunInv => CountsAddUp
  BY DEF RunInv, TotalInv, CountsAddUp
<1> QED  BY <1>1, RunHolds, PTL

(* Every whole report shows all that any whole report before it showed,    *)
(* whichever of the workers and the orchestrator wrote them and whatever   *)
(* write broke off between and left the file empty.                        *)
THEOREM ReportGrows == PipelineSpec => []ReportLosesNothing
<1>1. RunInv => ReportLosesNothing
  BY DEF RunInv, DraftInv
<1> QED  BY <1>1, RunHolds, PTL


=============================================================================
