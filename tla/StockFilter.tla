----------------------------- MODULE StockFilter -----------------------------
(***************************************************************************)
(* run_filter of stock_filter.py: the quick exclusion by the main thread,  *)
(* the two batches (stocks with fresh local data, then stocks to be        *)
(* fetched) each in a thread pool, the collection of results, Ctrl+C; and  *)
(* the list of failed stocks of retry_manager.py, a file that the threads  *)
(* of the pool read and write without a lock. What the requests and the    *)
(* strategies return is left open.                                         *)
(***************************************************************************)
EXTENDS Naturals, FiniteSets

CONSTANTS
    Stocks,
    Pool,         \* threads of a batch
    NoStock,
    MaxRetries    \* requests made for the history of a stock

ASSUME FilterAssumption ==
    /\ NoStock \notin Stocks
    /\ IsFiniteSet(Stocks) /\ IsFiniteSet(Pool) /\ Pool # {}
    /\ MaxRetries \in Nat \ {0}

VARIABLES
    exit,        \* should_exit
    phase,       \* what the main thread does
    unseen,      \* stocks the quick exclusion has still to look at
    kept,        \* stocks it has kept
    batch,       \* the stocks of the two batches
    pending,     \* submitted to the pool, not begun
    thread,      \* each thread of the pool: its stock, its point, requests, list read
    done,        \* futures that are done and not collected, with their status
    results,     \* all_results, by stock
    listFile,    \* failed_stocks.json: its stocks, and whether it parses
    failed,      \* stocks for which add_failed_stock was called: history
    clashed,     \* two calls of add_failed_stock overlapped: history
    unlisted     \* a call failed to read or write the file: history

filterVars == <<exit, phase, unseen, kept, batch, pending, thread, done, results,
                listFile, failed, clashed, unlisted>>
mainVars   == <<phase, unseen, kept, batch>>
listVars   == <<listFile, failed, clashed, unlisted>>

FreeThread == [stock |-> NoStock, point |-> "free", tries |-> 0, list |-> {}]
Unknown    == "none"
Busy(w)    == thread[w].point # "free"
Writing    == {"truncate", "write"}

(* The state after clear_failed_stocks and get_stock_list *)
FilterInit ==
    /\ exit = FALSE
    /\ phase = "quick"
    /\ unseen = Stocks /\ kept = {}
    /\ batch = [local |-> {}, fetch |-> {}]
    /\ pending = {}
    /\ thread = [w \in Pool |-> FreeThread]
    /\ done = [s \in Stocks |-> Unknown]
    /\ results = [s \in Stocks |-> Unknown]
    /\ listFile = [stocks |-> {}, valid |-> TRUE]
    /\ failed = {} /\ clashed = FALSE /\ unlisted = FALSE

-----------------------------------------------------------------------------
(* Signal handler and main thread *)

Signal ==
    /\ ~exit /\ phase \notin {"finished", "cancelled"}
    /\ exit' = TRUE
    /\ UNCHANGED <<mainVars, pending, thread, done, results, listVars>>

(* A stock is kept if it may pass a strategy or if its data did not come *)
QuickExclude(s, keep) ==
    /\ phase = "quick" /\ ~exit /\ s \in unseen
    /\ unseen' = unseen \ {s}
    /\ kept' = IF keep THEN kept \cup {s} ELSE kept
    /\ UNCHANGED <<exit, phase, batch, pending, thread, done, results, listVars>>

SubmitBatch(stocks, next) ==
    /\ pending' = stocks
    /\ phase' = next

(* _needs_fetch divides the stocks; the first batch is submitted *)
Divide(local) ==
    /\ phase = "quick" /\ (exit \/ unseen = {})
    /\ batch' = [local |-> local, fetch |-> kept \ local]
    /\ SubmitBatch(local, "local")
    /\ UNCHANGED <<exit, unseen, kept, thread, done, results, listVars>>

Collected(s) == results[s] # Unknown

CollectAnyway(s) ==       \* mutant: should_exit is not looked at
    /\ phase \in {"local", "fetch"} /\ done[s] # Unknown
    /\ results' = [results EXCEPT ![s] = done[s]]
    /\ done' = [done EXCEPT ![s] = Unknown]
    /\ UNCHANGED <<exit, mainVars, pending, thread, listVars>>

(* as_completed gives a future that is done: its result is taken, or the   *)
(* batch is abandoned: the futures not begun are cancelled                 *)
Collect(s) ==
    /\ phase \in {"local", "fetch"} /\ done[s] # Unknown
    /\ IF exit
       THEN /\ pending' = {} /\ phase' = "draining"
            /\ UNCHANGED <<done, results>>
       ELSE /\ results' = [results EXCEPT ![s] = done[s]]
            /\ done' = [done EXCEPT ![s] = Unknown]
            /\ UNCHANGED <<pending, phase>>
    /\ UNCHANGED <<exit, unseen, kept, batch, thread, listVars>>

LocalDoneOnExit ==        \* mutant: the local batch is left as soon as the signal came
    /\ phase = "local" /\ (exit \/ \A s \in batch.local : Collected(s))
    /\ IF exit THEN phase' = "cancelled" /\ pending' = {}
       ELSE SubmitBatch(batch.fetch, "fetch")
    /\ UNCHANGED <<exit, unseen, kept, batch, thread, done, results, listVars>>

(* The with statement ends when the threads do *)
LocalDone ==
    /\ phase = "local" /\ \A s \in batch.local : Collected(s)
    /\ IF exit THEN phase' = "cancelled" /\ pending' = {}
       ELSE SubmitBatch(batch.fetch, "fetch")
    /\ UNCHANGED <<exit, unseen, kept, batch, thread, done, results, listVars>>

FetchDone ==
    /\ phase = "fetch" /\ \A s \in batch.fetch : Collected(s)
    /\ phase' = IF exit THEN "cancelled" ELSE "finished"
    /\ UNCHANGED <<exit, unseen, kept, batch, pending, thread, done, results, listVars>>

Drained ==
    /\ phase = "draining" /\ \A w \in Pool : ~Busy(w)
    /\ phase' = "cancelled"
    /\ UNCHANGED <<exit, unseen, kept, batch, pending, thread, done, results, listVars>>

-----------------------------------------------------------------------------
(* process_stock in a thread of the pool *)

End(w, status) ==
    /\ thread' = [thread EXCEPT ![w] = FreeThread]
    /\ done' = [done EXCEPT ![thread[w].stock] = status]

BeginSilently(w, s) ==    \* mutant: a stock not begun in time has no result
    /\ ~Busy(w) /\ s \in pending
    /\ pending' = pending \ {s}
    /\ thread' = IF exit THEN thread
                 ELSE [thread EXCEPT ![w].stock = s, ![w].point = "fetch"]
    /\ UNCHANGED <<exit, mainVars, done, results, listVars>>

Begin(w, s) ==
    /\ ~Busy(w) /\ s \in pending
    /\ pending' = pending \ {s}
    /\ IF exit
       THEN done' = [done EXCEPT ![s] = "cancelled"] /\ UNCHANGED thread
       ELSE thread' = [thread EXCEPT ![w].stock = s, ![w].point = "fetch"]
            /\ UNCHANGED done
    /\ UNCHANGED <<exit, mainVars, results, listVars>>

Fetched(w) ==
    /\ thread[w].point = "fetch"
    /\ thread' = [thread EXCEPT ![w].point = "apply"]
    /\ UNCHANGED <<exit, mainVars, pending, done, results, listVars>>

Fail(w) ==
    /\ thread' = [thread EXCEPT ![w].point = "read"]
    /\ failed' = failed \cup {thread[w].stock}
    /\ UNCHANGED <<exit, mainVars, pending, done, results, listFile, clashed, unlisted>>

NotFetched(w) ==
    /\ thread[w].point = "fetch" /\ thread[w].tries + 1 < MaxRetries
    /\ thread' = [thread EXCEPT ![w].tries = @ + 1]
    /\ UNCHANGED <<exit, mainVars, pending, done, results, listVars>>

NeverFetched(w) ==
    /\ thread[w].point = "fetch" /\ thread[w].tries + 1 = MaxRetries
    /\ Fail(w)

(* The strategy's answer, or too little data: an error that is not listed *)
Apply(w, status) ==
    /\ thread[w].point = "apply"
    /\ End(w, status)
    /\ UNCHANGED <<exit, mainVars, pending, results, listVars>>

Raise(w) ==
    /\ thread[w].point \in {"fetch", "apply"}
    /\ Fail(w)

-----------------------------------------------------------------------------
(* add_failed_stock *)

ReadList(w) ==
    /\ thread[w].point = "read"
    /\ clashed' = (clashed \/ \E v \in Pool \ {w} : thread[v].point \in Writing)
    /\ IF listFile.valid
       THEN /\ thread' = [thread EXCEPT ![w].point = "truncate", ![w].list = listFile.stocks]
            /\ UNCHANGED done
       ELSE End(w, "error")         \* json.load raises: the stock is not listed
    /\ UNCHANGED <<exit, mainVars, pending, results, listFile, failed, unlisted>>

Truncate(w) ==
    /\ thread[w].point = "truncate"
    /\ thread' = [thread EXCEPT ![w].point = "write"]
    /\ listFile' = [stocks |-> {}, valid |-> FALSE]
    /\ UNCHANGED <<exit, mainVars, pending, done, results, failed, clashed, unlisted>>

WriteListAlone(w, valid) ==   \* mutant: the list read is not written again
    /\ thread[w].point = "write" /\ valid
    /\ listFile' = [stocks |-> {thread[w].stock}, valid |-> TRUE]
    /\ End(w, "error")
    /\ UNCHANGED <<exit, mainVars, pending, results, failed, clashed, unlisted>>

(* What was written to the file since it was opened is overwritten, and    *)
(* its end may stay                                                        *)
WriteList(w, valid) ==
    /\ thread[w].point = "write"
    /\ valid \/ listFile.stocks # {}
    /\ listFile' = [stocks |-> thread[w].list \cup {thread[w].stock}, valid |-> valid]
    /\ End(w, "error")
    /\ UNCHANGED <<exit, mainVars, pending, results, failed, clashed, unlisted>>

(* The file cannot be read, opened or written: the error is printed, and   *)
(* the stock is not listed; what was opened for writing stays as it is     *)
ListFails(w) ==
    /\ thread[w].point \in {"read"} \cup Writing
    /\ unlisted' = TRUE
    /\ listFile' \in {listFile} \cup IF thread[w].point = "write"
                                     THEN {[listFile EXCEPT !.valid = FALSE]} ELSE {}
    /\ End(w, "error")
    /\ UNCHANGED <<exit, mainVars, pending, results, failed, clashed>>

Process(w) ==
    \/ \E s \in Stocks : Begin(w, s)
    \/ Fetched(w) \/ NotFetched(w) \/ NeverFetched(w) \/ Raise(w)
    \/ \E status \in {"success", "error"} : Apply(w, status)
    \/ ReadList(w) \/ Truncate(w) \/ \E valid \in BOOLEAN : WriteList(w, valid)
    \/ ListFails(w)

Main ==
    \/ \E s \in Stocks, keep \in BOOLEAN : QuickExclude(s, keep)
    \/ \E local \in SUBSET kept : Divide(local)
    \/ \E s \in Stocks : Collect(s)
    \/ LocalDone \/ FetchDone \/ Drained

FilterNext == Signal \/ Main \/ \E w \in Pool : Process(w)

FilterSpec == FilterInit /\ [][FilterNext]_filterVars

-----------------------------------------------------------------------------
(* Properties *)

Worker == [stock : Stocks \cup {NoStock},
           point : {"free", "fetch", "apply", "read"} \cup Writing,
           tries : 0 .. MaxRetries - 1, list : SUBSET Stocks]
Status == {Unknown, "success", "error", "cancelled"}

(* Types: a thread has a stock exactly when it is busy, and no stock is    *)
(* requested more often than max_retries.                                  *)
FilterTypeOK ==
    /\ exit \in BOOLEAN /\ clashed \in BOOLEAN /\ unlisted \in BOOLEAN
    /\ phase \in {"quick", "local", "fetch", "draining", "finished", "cancelled"}
    /\ unseen \subseteq Stocks /\ kept \subseteq Stocks /\ pending \subseteq kept
    /\ batch \in [local : SUBSET Stocks, fetch : SUBSET Stocks]
    /\ thread \in [Pool -> Worker]
    /\ \A w \in Pool : Busy(w) <=> thread[w].stock # NoStock
    /\ done \in [Stocks -> Status]
    /\ results \in [Stocks -> Status]
    /\ listFile \in [stocks : SUBSET Stocks, valid : BOOLEAN]
    /\ failed \subseteq kept

(* The results are about stocks that were processed: a stock that a thread *)
(* skipped because of Ctrl+C is never among them, however the signal falls *)
(* between the threads and the collection; and a run that was not          *)
(* cancelled has a result for every stock that was kept.                   *)
ResultsAreReal ==
    /\ \A s \in Stocks : results[s] # "cancelled"
    /\ phase = "finished" => \A s \in kept : results[s] # Unknown

(* No thread of the pool is at work when run_filter returns: whatever the  *)
(* signal interrupted, nothing is written to the failure list afterwards.  *)
QuietAtTheEnd ==
    phase \in {"finished", "cancelled"} => \A w \in Pool : ~Busy(w)

(* A stock whose failure was to be listed is on the list, and the list can *)
(* be read, whenever no thread is in add_failed_stock; only calls that     *)
(* overlapped lose one, or a call that could not read or write the file,   *)
(* whose error is swallowed. --retry works from this list.                 *)
ForgottenOnlyByClash ==
    clashed \/ unlisted \/ (\E w \in Pool : thread[w].point \in Writing \cup {"read"})
    \/ (listFile.valid /\ failed \subseteq listFile.stocks)

(* The results are real and the pool is quiet when run_filter returns *)
FilterInv == FilterTypeOK /\ ResultsAreReal /\ QuietAtTheEnd

=============================================================================
