--------------------------- MODULE StockDispatch ---------------------------
(***************************************************************************)
(* The consumer-model scheduler of pipeline/stock_dispatch.py: one FIFO    *)
(* queue of stocks, one thread per model worker, and the main thread that  *)
(* watches the queue, drains it when every worker is dead, and joins.      *)
(*                                                                         *)
(* One action is one atomic step of one thread: a queue.Queue call, a      *)
(* critical section of self._lock, a callback, a read of shared state.     *)
(* An analysis (submit_one, then poll_one) ends in either outcome; it is   *)
(* bounded by the worker's timeout, so it always ends.                     *)
(***************************************************************************)
EXTENDS Naturals, Sequences, FiniteSets

CONSTANTS
    StockList,         \* the stocks handed to submit_all, in order
    Workers,           \* worker names, the keys of self._workers
    MaxRetry,          \* DispatchConfig.max_retry
    FailureThreshold,  \* DispatchConfig.failure_threshold
    HasDeadline,       \* TRUE when run() got a deadline, FALSE for None
    OnResultMayRaise,  \* TRUE when the caller's on_result may raise
    Nobody             \* no worker: a stock without a result

Stocks == {StockList[i] : i \in 1..Len(StockList)}

(* The dispatcher relies on its caller to submit every stock once; the     *)
(* worker list may be empty, which is the default configuration.           *)
ASSUME DispatchAssumption ==
    /\ StockList \in Seq(Stocks)
    /\ \A i, j \in 1..Len(StockList) : StockList[i] = StockList[j] => i = j
    /\ IsFiniteSet(Workers)
    /\ MaxRetry \in Nat
    /\ FailureThreshold \in Nat
    /\ HasDeadline \in BOOLEAN
    /\ OnResultMayRaise \in BOOLEAN
    /\ Nobody \notin Workers

Item     == [stock : Stocks, attempt : 0..MaxRetry]
NoItem   == [stock |-> Nobody, attempt |-> 0]
Statuses == {"failed", "timeout", "dead_skipped"}

(* Program points of a worker thread: those at which it is responsible for *)
(* the item it took, and those at which it only owes the queue task_done().*)
HoldPoints   == {"got", "run", "success", "deadDrop", "retry"}
OwePoints    == {"taskDone", "retire"}
IdlePoints   == {"login", "loop", "get", "exited"}
MainPoints   == {"watch", "allDead", "drain", "halt", "join", "done"}

VARIABLES
    queue,       \* self._queue, a FIFO of (stock, attempt)
    unfinished,  \* self._queue.unfinished_tasks
    pc,          \* program point of each worker thread
    task,        \* the (stock, attempt) a worker is on
    streak,      \* self._streak
    dead,        \* self._dead_workers
    primaryBy,   \* self._primary_by
    results,     \* the worker whose result on_result recorded, per stock
    extras,      \* the outcomes on_extra recorded, per stock
    main,        \* program point of the main thread in run()
    stop,        \* self._stop
    joined,      \* threads whose join() has returned
    expired,     \* datetime.now() >= self._deadline
    submits      \* history: analyses begun, per stock

queueVars  == <<queue, unfinished>>
threadVars == <<pc, task>>
healthVars == <<streak, dead>>
resultVars == <<primaryBy, results>>
mainVars   == <<main, stop, joined>>
vars == <<queueVars, threadVars, healthVars, resultVars, extras, mainVars,
          expired, submits>>

-----------------------------------------------------------------------------
(* __init__ and submit_all: every stock is queued with attempt 0 *)
Init ==
    /\ queue = [i \in 1..Len(StockList) |-> [stock |-> StockList[i], attempt |-> 0]]
    /\ unfinished = Len(StockList)
    /\ pc = [w \in Workers |-> "login"]
    /\ task = [w \in Workers |-> NoItem]
    /\ streak = [w \in Workers |-> 0]
    /\ dead = {}
    /\ primaryBy = [s \in Stocks |-> Nobody]
    /\ results = [s \in Stocks |-> Nobody]
    /\ extras = [s \in Stocks |-> <<>>]
    /\ main = "watch"
    /\ stop = FALSE
    /\ joined = {}
    /\ expired = FALSE
    /\ submits = [s \in Stocks |-> 0]

(* queue.Queue.put, and on_extra(WorkerOutcome(code, status)) *)
Put(item) == /\ queue' = Append(queue, item)
             /\ unfinished' = unfinished + 1

OnExtra(s, status) == extras' = [extras EXCEPT ![s] = Append(@, status)]

Goto(w, point) == pc' = [pc EXCEPT ![w] = point] /\ UNCHANGED task

-----------------------------------------------------------------------------
(* Plausible mistakes in the steps below, one dropped or changed line each. *)
(* No specification uses them: they show that the properties would catch   *)
(* the mistake.                                                            *)

(* the dead worker leaves without putting the stock back *)
PutBackForgets(w) ==
    /\ pc[w] = "got" /\ w \in dead
    /\ Goto(w, "retire")
    /\ UNCHANGED <<queueVars, healthVars, resultVars, extras, mainVars, expired, submits>>

(* no check of _dead_workers after get() *)
BeginUnchecked(w) ==
    /\ pc[w] = "got" /\ ~expired
    /\ submits' = [submits EXCEPT ![task[w].stock] = @ + 1]
    /\ Goto(w, "run")
    /\ UNCHANGED <<queueVars, healthVars, resultVars, extras, mainVars, expired>>

(* the permanent failure is recorded and the stock requeued all the same *)
GiveUpAndRequeue(w) ==
    /\ pc[w] = "retry" /\ task[w].attempt >= MaxRetry
    /\ OnExtra(task[w].stock, "failed")
    /\ Put(task[w])
    /\ Goto(w, "taskDone")
    /\ UNCHANGED <<healthVars, resultVars, mainVars, expired, submits>>

(* the stock is requeued with the attempt it had *)
RequeueSameAttempt(w) ==
    /\ pc[w] = "retry" /\ task[w].attempt < MaxRetry
    /\ Put(task[w])
    /\ Goto(w, "taskDone")
    /\ UNCHANGED <<healthVars, resultVars, extras, mainVars, expired, submits>>

(* _process requeues and the handler of _worker_loop requeues again *)
RequeueTwice(w) ==
    /\ pc[w] = "retry" /\ task[w].attempt < MaxRetry
    /\ Put([task[w] EXCEPT !.attempt = @ + 1])
    /\ UNCHANGED <<threadVars, healthVars, resultVars, extras, mainVars, expired, submits>>

(* an exception of on_result ends the stock without _on_failure *)
OnResultRaisesIgnored(w) ==
    /\ OnResultMayRaise
    /\ pc[w] = "success"
    /\ Goto(w, "taskDone")
    /\ UNCHANGED <<queueVars, healthVars, resultVars, extras, mainVars, expired, submits>>

(* task_done() is not called *)
TaskDoneMissing(w) ==
    /\ pc[w] \in OwePoints
    /\ pc' = [pc EXCEPT ![w] = IF pc[w] = "retire" THEN "exited" ELSE "loop"]
    /\ task' = [task EXCEPT ![w] = NoItem]
    /\ UNCHANGED <<queueVars, healthVars, resultVars, extras, mainVars, expired, submits>>

(* each stock gives its worker a new start: the death is forgotten *)
TaskDoneRevives(w) ==
    /\ pc[w] \in OwePoints
    /\ unfinished' = unfinished - 1
    /\ pc' = [pc EXCEPT ![w] = IF pc[w] = "retire" THEN "exited" ELSE "loop"]
    /\ task' = [task EXCEPT ![w] = NoItem]
    /\ dead' = dead \ {w}
    /\ UNCHANGED <<queue, streak, resultVars, extras, mainVars, expired, submits>>

(* one dead worker counts as all dead; or the watchdog is missing *)
CheckAnyDead ==
    /\ main = "allDead"
    /\ main' = IF dead # {} THEN "drain" ELSE "watch"
    /\ UNCHANGED <<queueVars, threadVars, healthVars, resultVars, extras, stop, joined, expired, submits>>

NoWatchdog ==
    /\ main = "allDead"
    /\ main' = "watch"
    /\ UNCHANGED <<queueVars, threadVars, healthVars, resultVars, extras, stop, joined, expired, submits>>

-----------------------------------------------------------------------------
(* The worker thread: _worker_loop *)

Login(w) ==
    /\ pc[w] = "login"
    /\ \/ Goto(w, "loop") /\ UNCHANGED dead
       \/ Goto(w, "exited") /\ dead' = dead \cup {w}
    /\ UNCHANGED <<queueVars, streak, resultVars, extras, mainVars, expired, submits>>

CheckStop(w) ==
    /\ pc[w] = "loop"
    /\ Goto(w, IF stop THEN "exited" ELSE "get")
    /\ UNCHANGED <<queueVars, healthVars, resultVars, extras, mainVars, expired, submits>>

Get(w) ==
    /\ pc[w] = "get"
    /\ queue # <<>>
    /\ queue' = Tail(queue)
    /\ task' = [task EXCEPT ![w] = Head(queue)]
    /\ pc' = [pc EXCEPT ![w] = "got"]
    /\ UNCHANGED <<unfinished, healthVars, resultVars, extras, mainVars, expired, submits>>

GetTimeout(w) ==
    /\ pc[w] = "get"
    /\ queue = <<>>
    /\ Goto(w, "loop")
    /\ UNCHANGED <<queueVars, healthVars, resultVars, extras, mainVars, expired, submits>>

(* A worker that died on its previous stock hands this one back and leaves *)
PutBack(w) ==
    /\ pc[w] = "got"
    /\ w \in dead
    /\ Put(task[w])
    /\ Goto(w, "retire")
    /\ UNCHANGED <<healthVars, resultVars, extras, mainVars, expired, submits>>

DeadlineSkip(w) ==
    /\ pc[w] = "got"
    /\ w \notin dead
    /\ expired
    /\ OnExtra(task[w].stock, "timeout")
    /\ Goto(w, "taskDone")
    /\ UNCHANGED <<queueVars, healthVars, resultVars, mainVars, expired, submits>>

Begin(w) ==
    /\ pc[w] = "got"
    /\ w \notin dead
    /\ ~expired
    /\ submits' = [submits EXCEPT ![task[w].stock] = @ + 1]
    /\ Goto(w, "run")
    /\ UNCHANGED <<queueVars, healthVars, resultVars, extras, mainVars, expired>>

(* _on_failure, the locked section *)
OnFailure(w) ==
    LET deadNow == streak[w] + 1 >= FailureThreshold /\ w \notin dead
    IN  /\ streak' = [streak EXCEPT ![w] = @ + 1]
        /\ dead' = IF deadNow THEN dead \cup {w} ELSE dead
        /\ Goto(w, IF deadNow THEN "deadDrop" ELSE "retry")

(* _process: failed, timeout and an exception all lead to _on_failure *)
ProcessFails(w) ==
    /\ pc[w] = "run"
    /\ OnFailure(w)
    /\ UNCHANGED <<queueVars, resultVars, extras, mainVars, expired, submits>>

(* _process with a "completed" result: the locked section of _on_success *)
ProcessSucceeds(w) ==
    /\ pc[w] = "run"
    /\ streak' = [streak EXCEPT ![w] = 0]
    /\ primaryBy' = [primaryBy EXCEPT ![task[w].stock] = w]
    /\ Goto(w, "success")
    /\ UNCHANGED <<queueVars, dead, results, extras, mainVars, expired, submits>>

RecordResult(w) == results' = [results EXCEPT ![task[w].stock] = w]

OnResult(w) ==
    /\ pc[w] = "success"
    /\ RecordResult(w)
    /\ Goto(w, "taskDone")
    /\ UNCHANGED <<queueVars, healthVars, primaryBy, extras, mainVars, expired, submits>>

(* on_result raised, before or after it recorded the result: the handler  *)
(* of _worker_loop counts the stock as failed.                             *)
OnResultRaises(w) ==
    /\ OnResultMayRaise
    /\ pc[w] = "success"
    /\ RecordResult(w) \/ UNCHANGED results
    /\ OnFailure(w)
    /\ UNCHANGED <<queueVars, primaryBy, extras, mainVars, expired, submits>>

(* The three exits of _on_failure *)
DropDead(w) ==
    /\ pc[w] = "deadDrop"
    /\ OnExtra(task[w].stock, "dead_skipped")
    /\ Goto(w, "taskDone")
    /\ UNCHANGED <<queueVars, healthVars, resultVars, mainVars, expired, submits>>

GiveUp(w) ==
    /\ pc[w] = "retry"
    /\ task[w].attempt >= MaxRetry
    /\ OnExtra(task[w].stock, "failed")
    /\ Goto(w, "taskDone")
    /\ UNCHANGED <<queueVars, healthVars, resultVars, mainVars, expired, submits>>

Requeue(w) ==
    /\ pc[w] = "retry"
    /\ task[w].attempt < MaxRetry
    /\ Put([task[w] EXCEPT !.attempt = @ + 1])
    /\ Goto(w, "taskDone")
    /\ UNCHANGED <<healthVars, resultVars, extras, mainVars, expired, submits>>

(* queue.task_done(), then the next round of the loop or the return *)
TaskDone(w) ==
    /\ pc[w] \in OwePoints
    /\ unfinished' = unfinished - 1
    /\ pc' = [pc EXCEPT ![w] = IF pc[w] = "retire" THEN "exited" ELSE "loop"]
    /\ task' = [task EXCEPT ![w] = NoItem]
    /\ UNCHANGED <<queue, healthVars, resultVars, extras, mainVars, expired, submits>>

Worker(w) ==
    \/ Login(w) \/ CheckStop(w) \/ Get(w) \/ GetTimeout(w)
    \/ PutBack(w) \/ DeadlineSkip(w) \/ Begin(w)
    \/ ProcessFails(w) \/ ProcessSucceeds(w) \/ OnResult(w) \/ OnResultRaises(w)
    \/ DropDead(w) \/ GiveUp(w) \/ Requeue(w) \/ TaskDone(w)

-----------------------------------------------------------------------------
(* The main thread: run *)

Watch ==
    /\ main = "watch"
    /\ main' = IF unfinished > 0 THEN "allDead" ELSE "halt"
    /\ UNCHANGED <<queueVars, threadVars, healthVars, resultVars, extras, stop, joined, expired, submits>>

CheckAllDead ==
    /\ main = "allDead"
    /\ main' = IF dead = Workers THEN "drain" ELSE "watch"
    /\ UNCHANGED <<queueVars, threadVars, healthVars, resultVars, extras, stop, joined, expired, submits>>

(* _drain_remaining: get_nowait, on_extra, task_done until Empty *)
DrainOne ==
    /\ main = "drain"
    /\ queue # <<>>
    /\ OnExtra(Head(queue).stock, "dead_skipped")
    /\ queue' = Tail(queue)
    /\ unfinished' = unfinished - 1
    /\ UNCHANGED <<threadVars, healthVars, resultVars, mainVars, expired, submits>>

DrainEmpty ==
    /\ main = "drain"
    /\ queue = <<>>
    /\ main' = "halt"
    /\ UNCHANGED <<queueVars, threadVars, healthVars, resultVars, extras, stop, joined, expired, submits>>

Halt ==
    /\ main = "halt"
    /\ stop' = TRUE
    /\ main' = "join"
    /\ UNCHANGED <<queueVars, threadVars, healthVars, resultVars, extras, joined, expired, submits>>

(* join(timeout=5) returns when the thread has exited, and gives up on one *)
(* blocked in the network: any other step takes at most the second that   *)
(* get() may wait.                                                         *)
Join(w) ==
    /\ main = "join"
    /\ pc[w] \in {"exited", "login", "run"}
    /\ joined' = joined \cup {w}
    /\ UNCHANGED <<queueVars, threadVars, healthVars, resultVars, extras, main, stop, expired, submits>>

AllDone ==
    /\ main = "join"
    /\ joined = Workers
    /\ main' = "done"
    /\ UNCHANGED <<queueVars, threadVars, healthVars, resultVars, extras, stop, joined, expired, submits>>

Main == \/ Watch \/ CheckAllDead \/ DrainOne \/ DrainEmpty \/ Halt \/ AllDone
        \/ \E w \in Workers \ joined : Join(w)

(* The wall clock passes the deadline *)
Expire ==
    /\ HasDeadline
    /\ expired' = TRUE
    /\ UNCHANGED <<queueVars, threadVars, healthVars, resultVars, extras, mainVars, submits>>

(* Every thread has returned: the round is over *)
Terminated ==
    /\ main = "done"
    /\ \A w \in Workers : pc[w] = "exited"
    /\ UNCHANGED vars

Next == (\E w \in Workers : Worker(w)) \/ Main \/ Expire \/ Terminated

Spec == Init /\ [][Next]_vars

(* The operating system schedules every thread; login and poll_one are     *)
(* bounded by their timeouts. The clock need not pass the deadline.        *)
Fairness == WF_vars(Main) /\ \A w \in Workers : WF_vars(Worker(w))

FairSpec == Spec /\ Fairness

-----------------------------------------------------------------------------
(* Where a stock is *)
Queued(s)  == \E i \in 1..Len(queue) : queue[i].stock = s
Held(w, s) == pc[w] \in HoldPoints /\ task[w].stock = s
Completed(s) == results[s] # Nobody
Settled(s) == Completed(s) \/ extras[s] # <<>>

TypeOK ==
    /\ queue \in Seq(Item)
    /\ unfinished \in Nat
    /\ pc \in [Workers -> HoldPoints \cup OwePoints \cup IdlePoints]
    /\ task \in [Workers -> Item \cup {NoItem}]
    /\ \A w \in Workers : pc[w] \in HoldPoints => task[w] \in Item
    /\ streak \in [Workers -> Nat]
    /\ dead \in SUBSET Workers
    /\ primaryBy \in [Stocks -> Workers \cup {Nobody}]
    /\ results \in [Stocks -> Workers \cup {Nobody}]
    /\ extras \in [Stocks -> Seq(Statuses)]
    /\ main \in MainPoints
    /\ stop \in BOOLEAN
    /\ joined \in SUBSET Workers
    /\ expired \in BOOLEAN
    /\ submits \in [Stocks -> Nat]

(* No stock is lost while the round runs: it is queued, in the hands of a  *)
(* worker between get() and its outcome, or has an outcome. A requeue that *)
(* is dropped on any path of _worker_loop would break this.                *)
NeverLost ==
    \A s \in Stocks : Queued(s) \/ Settled(s) \/ \E w \in Workers : Held(w, s)

(* A stock is in at most one place at a time: no retry or hand-back leaves *)
(* a second copy in the queue or in the hands of another worker.           *)
OneCopy ==
    \A s \in Stocks :
        /\ \A i, j \in 1..Len(queue) :
              queue[i].stock = s /\ queue[j].stock = s => i = j
        /\ \A v, w \in Workers : Held(v, s) /\ Held(w, s) => v = w
        /\ \A w \in Workers : ~(Held(w, s) /\ Queued(s))

(* A stock is submitted for analysis at most max_retry + 1 times, whoever  *)
(* takes it and however often a dead worker hands it back.                 *)
AttemptBound == \A s \in Stocks : submits[s] <= MaxRetry + 1

(* A worker declared dead for this round analyses nothing more.            *)
DeadNeverRuns == \A w \in dead : pc[w] \notin {"run", "success", "retry"}

(* unfinished_tasks counts the queued items and those whose taker still    *)
(* owes a task_done(): the main loop cannot see 0 while work remains.      *)
Owing == {w \in Workers : pc[w] \in HoldPoints \cup OwePoints}
UnfinishedExact == unfinished = Len(queue) + Cardinality(Owing)

(* An outcome is final and unique (when on_result does not raise): one     *)
(* result or one extra, and the stock is never queued or analysed again.   *)
OneOutcome ==
    \A s \in Stocks :
        /\ Completed(s) => extras[s] = <<>>
        /\ Len(extras[s]) <= 1
        /\ Settled(s) => ~Queued(s) /\ \A w \in Workers : ~Held(w, s)

(* When run() returns, every stock has its outcome. The one exception is a *)
(* round in which every worker died, and then the stock is still queued.   *)
StrandedOnlyIfAllDead ==
    main = "done" => \A s \in Stocks : Settled(s) \/ (dead = Workers /\ Queued(s))

(* The dispatcher implements the round it promises to the orchestrator     *)
(* (when on_result does not raise).                                        *)
Round == INSTANCE StockRound WITH alive <- Workers \ dead, returned <- main = "done"
ImplementsRound == Round!Spec

(* run() returns and every worker thread ends, whatever fails.             *)
RunReturns == <>[](main = "done" /\ \A w \in Workers : pc[w] = "exited")

(* A queued stock gets an outcome as long as some worker stays alive.      *)
QueuedGetsOutcome ==
    \A s \in Stocks : Queued(s) ~> (Settled(s) \/ dead = Workers)

(* The round comes to its end for the caller, the threads and each stock   *)
RoundSettles == RunReturns /\ QueuedGetsOutcome

-----------------------------------------------------------------------------
(* The parts of the inductive invariant behind these properties *)

(* The attempt number travels with the stock and counts its analyses *)
AttemptsCounted ==
    /\ \A i \in 1..Len(queue) : submits[queue[i].stock] = queue[i].attempt
    /\ \A w \in Workers :
          pc[w] \in HoldPoints =>
             submits[task[w].stock] =
                IF pc[w] = "got" THEN task[w].attempt ELSE task[w].attempt + 1

(* Main leaves its loop only when no work is left or nobody is left to do  *)
(* it, and a dead worker it has joined has really exited.                  *)
LeavesWhenOver ==
    /\ main = "drain" => dead = Workers
    /\ main \in {"halt", "join", "done"} =>
          dead = Workers \/ (queue = <<>> /\ Owing = {})
    /\ joined # {} => main \in {"join", "done"}
    /\ main = "done" => joined = Workers
    /\ \A w \in dead : pc[w] # "login" /\ (w \in joined => pc[w] = "exited")

-----------------------------------------------------------------------------
(* What the design document says and the code does not do *)

(* When every worker is dead, the watchdog records every remaining stock   *)
(* as dead_skipped.                                                        *)
AllDeadRecordsEveryStock == main = "done" => \A s \in Stocks : Settled(s)
=============================================================================
