------------------------------ MODULE FilterApp ------------------------------
(***************************************************************************)
(* The filter's web application, app.py: HTTP threads in trigger_filter    *)
(* with the flags is_running and should_stop of current_execution, the     *)
(* stop request, the job of 08:30, which looks at no flag, and the         *)
(* execution history, a list in memory that is written to a file as a      *)
(* whole after each run and read when the program starts.                  *)
(* app.run(debug=True) makes two processes of the program: the reloader of *)
(* Werkzeug waits in the parent and starts the child, which serves HTTP,   *)
(* again when a source file changes. Each of them executes app.py, so that *)
(* each has its own scheduler with the job of 08:30 and its own history,   *)
(* and both write the same file. Flags are the child's alone: the parent   *)
(* serves no request.                                                      *)
(***************************************************************************)
EXTENDS Naturals, FiniteSets

CONSTANTS
    Handlers,     \* HTTP threads that serve POST /api/filter
    Jobs,         \* the threads of the two schedulers
    ParentJobs,   \* those of the parent's scheduler
    StockCount,   \* stocks left after the exclusions
    MaxRuns,      \* bound: runs begun
    MaxRestarts   \* bound: the program dies and is started again, or the child reloads

ASSUME AppAssumption ==
    /\ IsFiniteSet(Handlers) /\ Handlers \cap Jobs = {} /\ ParentJobs \subseteq Jobs
    /\ {StockCount, MaxRuns, MaxRestarts} \subseteq Nat

Runners   == Handlers \cup Jobs
Processes == {"parent", "child"}
ProcessOf(h) == IF h \in ParentJobs THEN "parent" ELSE "child"

VARIABLES
    running,    \* is_running
    stop,       \* should_stop
    runner,     \* each thread: its point, the number of its run, the stocks it has left,
                \* whether the run raised, the history it writes, and, as history,
                \* whether a stop was asked for while it had stocks left
    memory,     \* each process: execution_history, as the numbers of the runs entered
    file,       \* execution_history.json: its entries, and whether it parses
    begun, restarts,
    saved,      \* entries whose save has ended: history
    raced,      \* two threads passed the test of is_running together, or a bad
                \* request cleared the flag of a run: history
    missed,     \* a stop was asked for when no run had a stock left, or of a run that
                \* then raised: history
    damaged,    \* two saves overlapped, or one failed or was cut short: history
    stale,      \* each process: the other has saved since it read the file, or the
                \* file did not parse: history
    shared      \* a process began a save while it was stale: history

appVars   == <<running, stop, runner, memory, file, begun, restarts, saved, raced, missed, damaged,
               stale, shared>>
flagVars  == <<running, stop>>
staleVars == <<stale, shared>>
diskVars  == <<memory, file, restarts, saved, damaged, staleVars>>

Resting   == [point |-> "idle", run |-> 0, left |-> 0, raised |-> FALSE, text |-> {},
              asked |-> FALSE]
Saving    == {"dump", "flush"}

AppInit ==
    /\ running = FALSE /\ stop = FALSE
    /\ runner = [h \in Runners |-> Resting]
    /\ memory = [p \in Processes |-> {}]
    /\ file = [entries |-> {}, valid |-> TRUE]
    /\ begun = 0 /\ restarts = 0
    /\ saved = {} /\ raced = FALSE /\ missed = FALSE /\ damaged = FALSE
    /\ stale = [p \in Processes |-> FALSE] /\ shared = FALSE

At(h, point) == runner' = [runner EXCEPT ![h].point = point]
Rests(h)     == runner' = [runner EXCEPT ![h] = Resting]

-----------------------------------------------------------------------------
(* trigger_filter *)

TriggerAnyway(h) ==       \* mutant: is_running is not tested
    /\ runner[h].point = "idle" /\ begun < MaxRuns
    /\ begun' = begun + 1
    /\ raced' = (raced \/ \E g \in Handlers : runner[g].point = "checked")
    /\ runner' = [runner EXCEPT ![h].point = "checked", ![h].run = begun']
    /\ UNCHANGED <<flagVars, diskVars, missed>>

Trigger(h) ==
    /\ runner[h].point = "idle" /\ ~running /\ begun < MaxRuns
    /\ begun' = begun + 1
    /\ raced' = (raced \/ \E g \in Handlers : runner[g].point = "checked")
    /\ runner' = [runner EXCEPT ![h].point = "checked", ![h].run = begun']
    /\ UNCHANGED <<flagVars, diskVars, missed>>

(* request.json raises: the except clause clears the flag and raises again *)
BadRequest(h) ==
    /\ runner[h].point = "idle"
    /\ raced' = (raced \/ \E g \in Handlers : runner[g].point # "idle")
    /\ running' = FALSE
    /\ UNCHANGED <<stop, runner, diskVars, begun, missed>>

SetRunning(h) ==
    /\ runner[h].point = "checked"
    /\ running' = TRUE
    /\ At(h, "list")
    /\ UNCHANGED <<stop, diskVars, begun, raced, missed>>

(* The job begins here, without the flag *)
JobStarts(h) ==
    /\ runner[h].point = "idle" /\ begun < MaxRuns
    /\ begun' = begun + 1
    /\ runner' = [runner EXCEPT ![h].point = "list", ![h].run = begun']
    /\ UNCHANGED <<flagVars, diskVars, raced, missed>>

GetStockList(h) ==
    /\ runner[h].point = "list"
    /\ runner' = [runner EXCEPT ![h].point = "loop", ![h].left = StockCount]
    /\ UNCHANGED <<flagVars, diskVars, begun, raced, missed>>

RaisesLikeJob(h) ==       \* mutant: the except clause does not clear is_running
    /\ runner[h].point = "list" \/ (runner[h].point = "loop" /\ runner[h].left > 0)
    /\ runner' = [runner EXCEPT ![h].point = "append", ![h].left = 0, ![h].raised = TRUE]
    /\ missed' = (missed \/ runner[h].asked)
    /\ UNCHANGED <<flagVars, diskVars, begun, raced>>

Raises(h) ==
    /\ runner[h].point = "list" \/ (runner[h].point = "loop" /\ runner[h].left > 0)
    /\ runner' = [runner EXCEPT ![h].point = IF h \in Jobs THEN "append" ELSE "error",
                                ![h].left = 0, ![h].raised = TRUE]
    /\ missed' = (missed \/ runner[h].asked)
    /\ UNCHANGED <<flagVars, diskVars, begun, raced>>

StopSeenAtFirst(h) ==     \* mutant: only looked at before the first stock
    stop /\ h \in Handlers /\ runner[h].left = StockCount

StopSeen(h) == stop /\ h \in Handlers

CheckStock(h) ==
    /\ runner[h].point = "loop" /\ runner[h].left > 0 /\ ~StopSeen(h)
    /\ runner' = [runner EXCEPT ![h].left = @ - 1]
    /\ UNCHANGED <<flagVars, diskVars, begun, raced, missed>>

Stopped(h) ==
    /\ runner[h].point = "loop" /\ runner[h].left > 0 /\ StopSeen(h)
    /\ running' = FALSE
    /\ At(h, "stopped")
    /\ UNCHANGED <<stop, diskVars, begun, raced, missed>>

ClearStopNot(h) ==        \* mutant: should_stop stays set
    /\ runner[h].point = "stopped"
    /\ Rests(h)
    /\ UNCHANGED <<flagVars, diskVars, begun, raced, missed>>

ClearStop(h) ==
    /\ runner[h].point = "stopped"
    /\ stop' = FALSE
    /\ runner' = [g \in Runners |-> IF g = h THEN Resting ELSE [runner[g] EXCEPT !.asked = FALSE]]
    /\ UNCHANGED <<running, diskVars, begun, raced, missed>>

ClearRunning(h) ==        \* the run has ended, or the except clause begins
    /\ runner[h].point \in {"saved", "error"}
    /\ running' = FALSE
    /\ IF runner[h].point = "error" THEN At(h, "append") ELSE Rests(h)
    /\ UNCHANGED <<stop, diskVars, begun, raced, missed>>

CanStop(h) ==             \* it will look at the flag once more
    \/ runner[h].point = "list" /\ StockCount > 0
    \/ runner[h].point = "loop" /\ runner[h].left > 0

stop_filter ==
    /\ running
    /\ stop' = TRUE
    /\ runner' = [h \in Runners |->
                     [runner[h] EXCEPT !.asked = @ \/ (h \in Handlers /\ CanStop(h))]]
    /\ missed' = (missed \/ \A h \in Handlers : ~CanStop(h))
    /\ UNCHANGED <<running, diskVars, begun, raced>>

-----------------------------------------------------------------------------
(* The entry of a run and save_execution_history: the file is opened, the  *)
(* list as it is then is written, and the text gets to the disk            *)

AppendEntry(h) ==
    /\ runner[h].point = "append" \/ (runner[h].point = "loop" /\ runner[h].left = 0)
    /\ memory' = [memory EXCEPT ![ProcessOf(h)] = @ \cup {runner[h].run}]
    /\ At(h, "save")
    /\ UNCHANGED <<flagVars, file, restarts, saved, damaged, staleVars, begun, raced, missed>>

OpenFile(h) ==
    /\ runner[h].point = "save"
    /\ damaged' = (damaged \/ \E g \in Runners : runner[g].point \in Saving)
    /\ shared' = (shared \/ stale[ProcessOf(h)])
    /\ file' = [entries |-> {}, valid |-> FALSE]
    /\ At(h, "dump")
    /\ UNCHANGED <<flagVars, memory, stale, restarts, saved, begun, raced, missed>>

Dump(h) ==
    /\ runner[h].point = "dump"
    /\ runner' = [runner EXCEPT ![h].point = "flush", ![h].text = memory[ProcessOf(h)]]
    /\ UNCHANGED <<flagVars, diskVars, begun, raced, missed>>

AfterSave(h) == IF h \in Jobs \/ runner[h].raised THEN Rests(h) ELSE At(h, "saved")

FlushLast(h) ==           \* mutant: only the entry of this run is written
    /\ runner[h].point = "flush"
    /\ file' = [entries |-> {runner[h].run}, valid |-> TRUE]
    /\ saved' = saved \cup {runner[h].run}
    /\ stale' = [p \in Processes |-> stale[p] \/ p # ProcessOf(h)]
    /\ AfterSave(h)
    /\ UNCHANGED <<flagVars, memory, shared, restarts, damaged, begun, raced, missed>>

(* The end of a longer text that another thread has written stays *)
Flush(h) ==
    /\ runner[h].point = "flush"
    /\ file' = [entries |-> runner[h].text, valid |-> file.entries \subseteq runner[h].text]
    /\ saved' = saved \cup {runner[h].run}
    /\ stale' = [p \in Processes |-> stale[p] \/ p # ProcessOf(h)]
    /\ AfterSave(h)
    /\ UNCHANGED <<flagVars, memory, shared, restarts, damaged, begun, raced, missed>>

(* The file cannot be opened, or what was opened cannot be written: the    *)
(* error is printed and the thread goes on                                 *)
SaveFails(h) ==
    /\ runner[h].point \in {"save"} \cup Saving
    /\ damaged' = (damaged \/ runner[h].point \in Saving)
    /\ file' \in {file} \cup IF runner[h].point = "save" THEN {} ELSE {[file EXCEPT !.valid = FALSE]}
    /\ AfterSave(h)
    /\ UNCHANGED <<flagVars, memory, staleVars, restarts, saved, begun, raced, missed>>

Readable == IF file.valid THEN file.entries ELSE {}

(* Processes die and start again: load_execution_history, with an empty    *)
(* list if the file does not parse                                         *)
Starts(procs) ==
    /\ restarts < MaxRestarts
    /\ restarts' = restarts + 1
    /\ damaged' = \/ damaged
                  \/ \E h \in Runners : ProcessOf(h) \in procs /\ runner[h].point \in Saving
    /\ memory' = [p \in Processes |-> IF p \in procs THEN Readable ELSE memory[p]]
    /\ stale' = [p \in Processes |-> IF p \in procs THEN ~file.valid ELSE stale[p]]
    /\ running' = FALSE /\ stop' = FALSE
    /\ runner' = [h \in Runners |-> IF ProcessOf(h) \in procs THEN Resting ELSE runner[h]]
    /\ UNCHANGED <<file, saved, shared, begun, raced, missed>>

Restart == Starts(Processes)

(* The reloader ends the child by sys.exit, which waits for a job of its   *)
(* scheduler but not for the HTTP threads, and the parent starts it again  *)
Reload ==
    /\ \A h \in Jobs \ ParentJobs : runner[h].point = "idle"
    /\ Starts({"child"})

RunStep(h) ==
    \/ GetStockList(h) \/ Raises(h) \/ CheckStock(h)
    \/ AppendEntry(h) \/ OpenFile(h) \/ Dump(h) \/ Flush(h) \/ SaveFails(h)

HandlerStep(h) ==
    \/ Trigger(h) \/ BadRequest(h) \/ SetRunning(h)
    \/ Stopped(h) \/ ClearStop(h) \/ ClearRunning(h)

AppNext ==
    \/ \E h \in Runners : RunStep(h)
    \/ \E h \in Handlers : HandlerStep(h)
    \/ \E h \in Jobs : JobStarts(h)
    \/ stop_filter \/ Restart \/ Reload

AppSpec == AppInit /\ [][AppNext]_appVars

-----------------------------------------------------------------------------
(* Properties *)

Points == {"idle", "checked", "list", "loop", "stopped", "error", "append", "save", "dump",
           "flush", "saved"}

Thread == [point : Points, run : 0 .. MaxRuns, left : 0 .. StockCount, raised : BOOLEAN,
           text : SUBSET (1 .. MaxRuns), asked : BOOLEAN]

(* Types: a thread that rests has no run, and a scheduler's job never      *)
(* touches the flags.                                                      *)
AppTypeOK ==
    /\ {running, stop, raced, missed, damaged, shared} \subseteq BOOLEAN
    /\ stale \in [Processes -> BOOLEAN]
    /\ runner \in [Runners -> Thread]
    /\ \A h \in Runners : runner[h].point = "idle" <=> runner[h].run = 0
    /\ \A h \in Jobs : runner[h].point \notin {"checked", "stopped", "error", "saved"}
    /\ memory \in [Processes -> SUBSET (1 .. MaxRuns)] /\ saved \subseteq 1 .. MaxRuns
    /\ file \in [entries : SUBSET (1 .. MaxRuns), valid : BOOLEAN]
    /\ begun \in 0 .. MaxRuns /\ restarts \in 0 .. MaxRestarts

Quiet      == \A h \in Handlers : runner[h].point = "idle"
Filtering  == {h \in Handlers : runner[h].point \in {"list", "loop", "append", "save", "dump",
                                                     "flush", "saved"} /\ ~runner[h].raised}

(* The flag never stays set after the last run, whichever way the runs     *)
(* ended: otherwise every later request would be refused until a restart.  *)
FlagClears == Quiet => ~running

(* Two requests filter at the same time only after both passed the test of *)
(* is_running before either set it, or after a malformed request cleared   *)
(* the flag of a run that was going on.                                    *)
OneRunAtATime == raced \/ Cardinality(Filtering) <= 1

(* A run that was asked to stop while it had stocks left to check is not   *)
(* recorded as a success, unless another run took the request for its own. *)
StopIsObeyed ==
    \A h \in Handlers : runner[h].asked =>
        runner[h].raised \/ runner[h].point \in {"list", "loop", "stopped"}

(* A stop request outlives the runs, and stops the next one at its first   *)
(* stock, only if it came when no run had a stock left to check or the run *)
(* raised before it looked: the except clause clears is_running alone.     *)
StaleStopOnlyIfMissed == Quiet /\ stop => missed

HistoryOnDisk == file.valid /\ saved \subseteq file.entries
SaveGoesOn    == \E h \in Runners : runner[h].point \in Saving

(* What was saved is found by the next start of the program, unless saves  *)
(* overlapped, one failed or was cut short (the file is written in place), *)
(* or one of the two processes wrote its list after the other had saved an *)
(* entry that the list lacks: nothing merges the two histories.            *)
HistorySurvives == damaged \/ shared \/ SaveGoesOn \/ HistoryOnDisk

(* The execution history is stored in execution_history.json, as           *)
(* DEPLOYMENT.md says: an entry that was saved stays there if no save      *)
(* overlapped another, failed or was cut short. Violated by the two        *)
(* processes of debug=True without any fault: the 08:30 job of the one     *)
(* writes its list over the entries of the other.                          *)
HistoryIsStored == damaged \/ SaveGoesOn \/ HistoryOnDisk

(* is_running and should_stop do what they are for: the parts above as one *)
(* invariant.                                                              *)
FlagsInv == AppTypeOK /\ FlagClears /\ OneRunAtATime /\ StopIsObeyed /\ StaleStopOnlyIfMissed

=============================================================================
