-------------------------- MODULE FilterSideProofs --------------------------
(***************************************************************************)
(* Proofs about the programs of the filter's side, for every number of     *)
(* threads, stocks, tokens and runs: the web application (its flags and    *)
(* its history), the stock filter (its results and its list of failures),  *)
(* the market data client (the accounts of its tokens) and the price cache *)
(* (the date of its answers).                                              *)
(***************************************************************************)
EXTENDS FilterApp, StockFilter, MarketData, DataCache, FiniteSetTheorems, WellFoundedInduction,
        TLAPS

-----------------------------------------------------------------------------
(* The web application: its flags *)

(* A thread between the statement that set is_running and the one that     *)
(* will clear it: the except clause clears it before the entry is written, *)
(* the run that ends well only after.                                      *)
Holds(h) ==
    \/ runner[h].point \in {"list", "loop", "error", "saved"}
    \/ runner[h].point \in {"append", "save", "dump", "flush"} /\ ~runner[h].raised

(* A run that raised is on its way through the except clause, and the      *)
(* scheduler's job is not asked to stop.                                   *)
ThreadInv ==
    \A h \in Runners :
        /\ runner[h].raised => runner[h].point \in {"error", "append", "save", "dump", "flush"}
        /\ runner[h].point = "error" => runner[h].raised
        /\ h \in Jobs => ~runner[h].asked

(* Somebody will clear the flag as long as it is set *)
HeldInv == running => \E h \in Handlers : Holds(h)

(* Without a race the flag excludes: whoever holds it finds it set, and    *)
(* is alone with it, the thread between test and assignment included.      *)
ExclusionInv ==
    raced \/ /\ \A h \in Handlers : Holds(h) => running
             /\ \A g, h \in Handlers :
                    /\ Holds(g) \/ runner[g].point = "checked"
                    /\ Holds(h) \/ runner[h].point = "checked"
                    => g = h

(* A request to stop stays visible until the run it was meant for looks,   *)
(* and there is such a run unless the request was missed.                  *)
AskedInv ==
    \A h \in Handlers :
        runner[h].asked => \/ runner[h].raised \/ runner[h].point = "stopped"
                           \/ stop /\ CanStop(h)

StopInv == stop => missed \/ \E h \in Handlers : runner[h].asked /\ ~runner[h].raised

AppInv == AppTypeOK /\ ThreadInv /\ HeldInv /\ ExclusionInv /\ AskedInv /\ StopInv

(* The file while nothing has damaged it and no process has written over   *)
(* the other's entries: one thread saves at a time, a process that is not  *)
(* stale has in memory all that was saved, only such a process saves, and  *)
(* a text about to reach the disk holds all that was saved before and the  *)
(* entry of its own run.                                                   *)
SaveInv ==
    \A h \in Runners :
        runner[h].point \in {"save", "dump", "flush"} => runner[h].run \in memory[ProcessOf(h)]

FileInv ==
    damaged \/ shared \/
        /\ \A g, h \in Runners : runner[g].point \in Saving /\ runner[h].point \in Saving => g = h
        /\ \A p \in Processes : ~stale[p] => saved \subseteq memory[p]
        /\ \A h \in Runners : runner[h].point \in Saving =>
               ~stale[ProcessOf(h)] /\ ~file.valid /\ file.entries = {}
        /\ \A h \in Runners : runner[h].point = "flush" =>
               saved \subseteq runner[h].text /\ runner[h].run \in runner[h].text
        /\ (\A h \in Runners : runner[h].point \notin Saving) =>
               file.valid /\ saved \subseteq file.entries

-----------------------------------------------------------------------------
LEMMA AppInitInv == AppInit => AppInv /\ SaveInv /\ FileInv
<1> SUFFICES ASSUME AppInit PROVE AppInv /\ SaveInv /\ FileInv
  OBVIOUS
<1> USE AppAssumption DEF AppInit
<1>1. \A h \in Runners : runner[h] = Resting /\ Resting \in Thread
  BY DEF Resting, Thread, Points
<1>2. AppTypeOK
  <2>1. runner \in [Runners -> Thread]
    BY <1>1
  <2>2. \A h \in Runners : runner[h].point = "idle" /\ runner[h].run = 0
    BY <1>1 DEF Resting
  <2>3. {running, stop, raced, missed, damaged, shared} \subseteq BOOLEAN /\ stale \in [Processes -> BOOLEAN]
    OBVIOUS
  <2>4. file \in [entries : SUBSET (1 .. MaxRuns), valid : BOOLEAN]
    OBVIOUS
  <2>5. QED
    BY <2>1, <2>2, <2>3, <2>4 DEF AppTypeOK, Runners
<1>3. ThreadInv /\ HeldInv /\ ExclusionInv /\ AskedInv /\ StopInv
  BY <1>1 DEF ThreadInv, HeldInv, ExclusionInv, AskedInv, StopInv, Holds, Resting, Runners
<1>4. SaveInv /\ FileInv
  BY <1>1 DEF SaveInv, FileInv, Saving, Resting
<1>5. QED
  BY <1>2, <1>3, <1>4 DEF AppInv

(* What a thread at rest remembers: nothing *)
LEMMA RestingFields ==
        Resting.point = "idle" /\ Resting.run = 0 /\ ~Resting.raised /\ ~Resting.asked
  BY DEF Resting

(* A thread at rest has the type of a thread *)
LEMMA RestingThread == AppTypeOK => Resting \in Thread
  BY AppAssumption DEF Resting, Thread, Points, AppTypeOK

(* Every action keeps the types *)
LEMMA AppTypeStep == AppTypeOK /\ ThreadInv /\ [AppNext]_appVars => AppTypeOK'
<1> SUFFICES ASSUME AppTypeOK, ThreadInv, [AppNext]_appVars PROVE AppTypeOK'
  OBVIOUS
<1> USE AppAssumption DEF AppTypeOK, Points, ThreadInv, Runners, flagVars, diskVars, staleVars, At, Rests
<1>1. ASSUME NEW h \in Runners, GetStockList(h) PROVE AppTypeOK'
  BY <1>1 DEF GetStockList, Thread
<1>2. ASSUME NEW h \in Runners, Raises(h) PROVE AppTypeOK'
  BY <1>2 DEF Raises, Thread
<1>3. ASSUME NEW h \in Runners, CheckStock(h) PROVE AppTypeOK'
  BY <1>3 DEF CheckStock, Thread, StopSeen
<1>4. ASSUME NEW h \in Runners, AppendEntry(h) PROVE AppTypeOK'
  <2>1. /\ runner' \in [Runners -> Thread]
        /\ \A g \in Runners : runner'[g].point = "idle" <=> runner'[g].run = 0
        /\ \A g \in Jobs : runner'[g].point \notin {"checked", "stopped", "error", "saved"}
    BY <1>4 DEF AppendEntry, Thread
  <2>2. memory' \in [Processes -> SUBSET (1 .. MaxRuns)]
    <3>1. runner[h].run \in 1 .. MaxRuns
      BY <1>4 DEF AppendEntry, Thread
    <3>2. QED
      BY <1>4, <3>1 DEF AppendEntry
  <2>3. QED
    BY <1>4, <2>1, <2>2 DEF AppendEntry
<1>5. ASSUME NEW h \in Runners, OpenFile(h) PROVE AppTypeOK'
  BY <1>5 DEF OpenFile, Thread
<1>6. ASSUME NEW h \in Runners, Dump(h) PROVE AppTypeOK'
  BY <1>6 DEF Dump, Thread
<1>7. ASSUME NEW h \in Runners, Flush(h) \/ SaveFails(h) PROVE AppTypeOK'
  <2>1. /\ runner' \in [Runners -> Thread]
        /\ \A g \in Runners : runner'[g].point = "idle" <=> runner'[g].run = 0
        /\ \A g \in Jobs : runner'[g].point \notin {"checked", "stopped", "error", "saved"}
    <3>1. runner[h].point # "idle"
      BY <1>7 DEF Flush, SaveFails, Saving
    <3>2. CASE h \in Jobs \/ runner[h].raised
      <4>1. runner' = [runner EXCEPT ![h] = Resting]
        BY <1>7, <3>2 DEF Flush, SaveFails, AfterSave
      <4>2. QED
        BY <4>1, RestingThread, RestingFields DEF Thread
    <3>3. CASE ~(h \in Jobs \/ runner[h].raised)
      <4>1. runner' = [runner EXCEPT ![h].point = "saved"]
        BY <1>7, <3>3 DEF Flush, SaveFails, AfterSave
      <4>2. QED
        BY <3>1, <3>3, <4>1 DEF Thread
    <3>4. QED
      BY <3>2, <3>3
  <2>2. running' \in BOOLEAN /\ stop' \in BOOLEAN /\ raced' \in BOOLEAN /\ missed' \in BOOLEAN /\ damaged' \in BOOLEAN /\ shared' \in BOOLEAN
    BY <1>7 DEF Flush, SaveFails
  <2>3. file' \in [entries : SUBSET (1 .. MaxRuns), valid : BOOLEAN] /\ saved' \subseteq 1 .. MaxRuns
    <3>1. CASE Flush(h)
      <4>1. runner[h].text \in SUBSET (1 .. MaxRuns) /\ runner[h].run \in 1 .. MaxRuns
        BY <3>1 DEF Flush, Thread
      <4>2. (file.entries \subseteq runner[h].text) \in BOOLEAN
        OBVIOUS
      <4>3. QED
        BY <3>1, <4>1, <4>2 DEF Flush
    <3>2. CASE SaveFails(h)
      BY <3>2 DEF SaveFails
    <3>3. QED
      BY <1>7, <3>1, <3>2
  <2>4. stale' \in [Processes -> BOOLEAN]
    BY <1>7 DEF Flush, SaveFails
  <2>5. QED
    BY <1>7, <2>1, <2>2, <2>3, <2>4 DEF Flush, SaveFails
<1>8. ASSUME NEW h \in Handlers, Trigger(h) PROVE AppTypeOK'
  BY <1>8 DEF Trigger, Thread
<1>9. ASSUME NEW h \in Handlers, BadRequest(h) PROVE AppTypeOK'
  BY <1>9 DEF BadRequest, Thread
<1>10. ASSUME NEW h \in Handlers, SetRunning(h) PROVE AppTypeOK'
  BY <1>10 DEF SetRunning, Thread
<1>11. ASSUME NEW h \in Handlers, Stopped(h) PROVE AppTypeOK'
  <2>1. runner' \in [Runners -> Thread]
    BY <1>11, RestingThread DEF Stopped, Thread
  <2>2. \A g \in Runners : runner'[g].point = "idle" <=> runner'[g].run = 0
    BY <1>11 DEF Stopped, Thread, Resting
  <2>3. \A g \in Jobs : runner'[g].point \notin {"checked", "stopped", "error", "saved"}
    BY <1>11 DEF Stopped, Thread, Resting
  <2>4. running' \in BOOLEAN /\ stop' \in BOOLEAN /\ raced' \in BOOLEAN /\ missed' \in BOOLEAN /\ damaged' \in BOOLEAN /\ shared' \in BOOLEAN
    BY <1>11 DEF Stopped
  <2>5. file' \in [entries : SUBSET (1 .. MaxRuns), valid : BOOLEAN] /\ saved' \subseteq 1 .. MaxRuns
    BY <1>11 DEF Stopped, Thread
  <2>6. QED
    BY <1>11, <2>1, <2>2, <2>3, <2>4, <2>5 DEF Stopped
<1>12. ASSUME NEW h \in Handlers, ClearStop(h) PROVE AppTypeOK'
  <2>1. runner' \in [Runners -> Thread]
    <3>1. \A t \in Thread : [t EXCEPT !.asked = FALSE] \in Thread
      BY DEF Thread
    <3>2. QED
      BY <1>12, <3>1, RestingThread DEF ClearStop
  <2>2. \A g \in Runners : runner'[g].point = "idle" <=> runner'[g].run = 0
    BY <1>12 DEF ClearStop, Thread, Resting
  <2>3. \A g \in Jobs : runner'[g].point \notin {"checked", "stopped", "error", "saved"}
    BY <1>12 DEF ClearStop, Thread, Resting
  <2>4. running' \in BOOLEAN /\ stop' \in BOOLEAN /\ raced' \in BOOLEAN /\ missed' \in BOOLEAN /\ damaged' \in BOOLEAN /\ shared' \in BOOLEAN
    BY <1>12 DEF ClearStop
  <2>5. file' \in [entries : SUBSET (1 .. MaxRuns), valid : BOOLEAN] /\ saved' \subseteq 1 .. MaxRuns
    BY <1>12 DEF ClearStop, Thread
  <2>6. QED
    BY <1>12, <2>1, <2>2, <2>3, <2>4, <2>5 DEF ClearStop
<1>13. ASSUME NEW h \in Handlers, ClearRunning(h) PROVE AppTypeOK'
  <2>1. runner' \in [Runners -> Thread]
    BY <1>13, RestingThread DEF ClearRunning, Thread
  <2>2. \A g \in Runners : runner'[g].point = "idle" <=> runner'[g].run = 0
    BY <1>13 DEF ClearRunning, Thread, Resting
  <2>3. \A g \in Jobs : runner'[g].point \notin {"checked", "stopped", "error", "saved"}
    BY <1>13 DEF ClearRunning, Thread, Resting
  <2>4. running' \in BOOLEAN /\ stop' \in BOOLEAN /\ raced' \in BOOLEAN /\ missed' \in BOOLEAN /\ damaged' \in BOOLEAN /\ shared' \in BOOLEAN
    BY <1>13 DEF ClearRunning
  <2>5. file' \in [entries : SUBSET (1 .. MaxRuns), valid : BOOLEAN] /\ saved' \subseteq 1 .. MaxRuns
    BY <1>13 DEF ClearRunning, Thread
  <2>6. QED
    BY <1>13, <2>1, <2>2, <2>3, <2>4, <2>5 DEF ClearRunning
<1>14. ASSUME NEW h \in Jobs, JobStarts(h) PROVE AppTypeOK'
  BY <1>14 DEF JobStarts, Thread
<1>15. CASE stop_filter
  <2>1. runner' \in [Runners -> Thread]
    <3>1. \A t \in Thread, b \in BOOLEAN : [t EXCEPT !.asked = b] \in Thread
      BY DEF Thread
    <3>2. \A g \in Runners : (runner[g].asked \/ (g \in Handlers /\ CanStop(g))) \in BOOLEAN
      OBVIOUS
    <3>3. QED
      BY <1>15, <3>1, <3>2 DEF stop_filter
  <2>2. \A g \in Runners : runner'[g].point = runner[g].point /\ runner'[g].run = runner[g].run
    BY <1>15 DEF stop_filter, Thread
  <2>3. running' \in BOOLEAN /\ stop' \in BOOLEAN /\ raced' \in BOOLEAN /\ missed' \in BOOLEAN /\ damaged' \in BOOLEAN /\ shared' \in BOOLEAN
    BY <1>15 DEF stop_filter
  <2>4. QED
    BY <1>15, <2>1, <2>2, <2>3, ZenonT(60) DEF stop_filter
<1>16. ASSUME NEW procs \in {Processes, {"child"}}, Starts(procs) PROVE AppTypeOK'
  <2>1. runner' \in [Runners -> Thread] /\ \A g \in Runners : runner'[g] = Resting \/ runner'[g] = runner[g]
    BY <1>16, RestingThread DEF Starts
  <2>2. running' \in BOOLEAN /\ stop' \in BOOLEAN /\ raced' \in BOOLEAN /\ missed' \in BOOLEAN /\ damaged' \in BOOLEAN /\ shared' \in BOOLEAN
    BY <1>16 DEF Starts
  <2>3. memory' \in [Processes -> SUBSET (1 .. MaxRuns)] /\ stale' \in [Processes -> BOOLEAN]
    BY <1>16 DEF Starts, Readable
  <2>4. /\ \A g \in Runners : runner'[g].point = "idle" <=> runner'[g].run = 0
        /\ \A g \in Jobs : runner'[g].point \notin {"checked", "stopped", "error", "saved"}
    BY <2>1, RestingFields
  <2>5. restarts' \in 0 .. MaxRestarts /\ UNCHANGED <<file, saved, begun>>
    BY <1>16 DEF Starts
  <2>6. QED
    BY <2>1, <2>2, <2>3, <2>4, <2>5
<1>17. CASE UNCHANGED appVars
  BY <1>17 DEF appVars
<1>18. QED
  BY <1>1, <1>2, <1>3, <1>4, <1>5, <1>6, <1>7, <1>8, <1>9, <1>10, <1>11, <1>12, <1>13, <1>14, <1>15, <1>16, <1>17 DEF AppNext, RunStep, HandlerStep, Restart, Reload

(* Every action keeps the invariant of the flags *)
LEMMA AppFlagStep == AppInv /\ [AppNext]_appVars =>
                         ThreadInv' /\ HeldInv' /\ ExclusionInv' /\ AskedInv' /\ StopInv'
<1> DEFINE Goal == ThreadInv /\ HeldInv /\ ExclusionInv /\ AskedInv /\ StopInv
<1> SUFFICES ASSUME AppInv, [AppNext]_appVars PROVE Goal'
  OBVIOUS
<1> USE AppAssumption, RestingFields
    DEF AppInv, AppTypeOK, Thread, ThreadInv, HeldInv, ExclusionInv, AskedInv, StopInv, Holds, CanStop,
        Runners, flagVars, diskVars, staleVars, At, Rests
<1>1. ASSUME NEW h \in Runners, GetStockList(h) PROVE Goal'
  BY <1>1, SMTT(30) DEF GetStockList
<1>2. ASSUME NEW h \in Runners, Raises(h) PROVE Goal'
  BY <1>2 DEF Raises
<1>3. ASSUME NEW h \in Runners, CheckStock(h) PROVE Goal'
  BY <1>3 DEF CheckStock, StopSeen
<1>4. ASSUME NEW h \in Runners, AppendEntry(h) PROVE Goal'
  BY <1>4 DEF AppendEntry
<1>5. ASSUME NEW h \in Runners, OpenFile(h) PROVE Goal'
  BY <1>5 DEF OpenFile
<1>6. ASSUME NEW h \in Runners, Dump(h) PROVE Goal'
  BY <1>6 DEF Dump
<1>7. ASSUME NEW h \in Runners, Flush(h) \/ SaveFails(h) PROVE Goal'
  <2>1. CASE h \in Jobs \/ runner[h].raised
    BY <1>7, <2>1 DEF Flush, SaveFails, AfterSave, Saving
  <2>2. CASE ~(h \in Jobs \/ runner[h].raised)
    BY <1>7, <2>2 DEF Flush, SaveFails, AfterSave, Saving
  <2>3. QED
    BY <2>1, <2>2
<1>8. ASSUME NEW h \in Handlers, Trigger(h) PROVE Goal'
  BY <1>8 DEF Trigger
<1>9. ASSUME NEW h \in Handlers, BadRequest(h) PROVE Goal'
  BY <1>9 DEF BadRequest
<1>10. ASSUME NEW h \in Handlers, SetRunning(h) PROVE Goal'
  BY <1>10 DEF SetRunning
<1>11. ASSUME NEW h \in Handlers, Stopped(h) PROVE Goal'
  BY <1>11 DEF Stopped
<1>12. ASSUME NEW h \in Handlers, ClearStop(h) PROVE Goal'
  BY <1>12 DEF ClearStop
<1>13. ASSUME NEW h \in Handlers, ClearRunning(h) PROVE Goal'
  <2>1. CASE runner[h].point = "error"
    BY <1>13, <2>1 DEF ClearRunning
  <2>2. CASE runner[h].point = "saved"
    BY <1>13, <2>2 DEF ClearRunning
  <2>3. QED
    BY <1>13, <2>1, <2>2 DEF ClearRunning
<1>14. ASSUME NEW h \in Jobs, JobStarts(h) PROVE Goal'
  BY <1>14 DEF JobStarts
<1>15. CASE stop_filter
  <2>1. ThreadInv' /\ HeldInv' /\ ExclusionInv' /\ AskedInv'
    BY <1>15 DEF stop_filter
  <2>2. StopInv'
    <3>1. CASE \A h \in Handlers : ~CanStop(h)
      BY <1>15, <3>1 DEF stop_filter
    <3>2. ASSUME NEW h \in Handlers, CanStop(h) PROVE StopInv'
      <4>1. runner'[h].raised = runner[h].raised /\ ~runner[h].raised
        BY <1>15, <3>2 DEF stop_filter
      <4>2. runner'[h].asked
        <5> HIDE DEF CanStop
        <5>1. runner'[h].asked = (runner[h].asked \/ (h \in Handlers /\ CanStop(h)))
          BY <1>15 DEF stop_filter
        <5>2. QED
          BY <3>2, <5>1
      <4>3. QED
        BY <4>1, <4>2
    <3>3. QED
      BY <3>1, <3>2
  <2>3. QED
    BY <2>1, <2>2
<1>16. ASSUME NEW procs \in {Processes, {"child"}}, Starts(procs) PROVE Goal'
  <2>1. \A g \in Handlers : runner'[g] = Resting
    BY <1>16 DEF Starts, ProcessOf, Processes
  <2>2. \A g \in Runners : runner'[g] = Resting \/ runner'[g] = runner[g]
    BY <1>16 DEF Starts
  <2>3. running' = FALSE /\ stop' = FALSE
    BY <1>16 DEF Starts
  <2>4. QED
    BY <2>1, <2>2, <2>3
<1>17. CASE UNCHANGED appVars
  BY <1>17 DEF appVars
<1>18. QED
  BY <1>1, <1>2, <1>3, <1>4, <1>5, <1>6, <1>7, <1>8, <1>9, <1>10, <1>11, <1>12, <1>13, <1>14, <1>15, <1>16, <1>17 DEF AppNext, RunStep, HandlerStep, Restart, Reload

LEMMA AppInvariance == AppSpec => []AppInv
<1>1. AppInv /\ [AppNext]_appVars => AppInv'
  BY AppTypeStep, AppFlagStep DEF AppInv
<1>2. QED
  BY AppInitInv, <1>1, PTL DEF AppSpec

(* FlagsInv, for every number of threads, stocks and runs: the flag does   *)
(* not stay set after the last run, two requests filter together only      *)
(* after a race on the flag, and a request to stop is obeyed, and forgotten*)
(* with the run it was meant for, unless it was missed.                    *)
THEOREM FlagsWork == AppSpec => []FlagsInv
<1>1. ASSUME AppInv PROVE FlagsInv
  <2> USE <1>1 DEF AppInv
  <2>1. FlagClears
    BY DEF HeldInv, Holds, FlagClears, Quiet
  <2>2. OneRunAtATime
    <3>1. \A h \in Filtering : h \in Handlers /\ Holds(h)
      BY DEF Filtering, Holds
    <3>2. CASE raced
      BY <3>2 DEF OneRunAtATime
    <3>3. CASE ~raced /\ Filtering = {}
      BY <3>3, FS_EmptySet DEF OneRunAtATime
    <3>4. ASSUME ~raced, NEW h \in Filtering PROVE OneRunAtATime
      <4>1. Filtering = {h}
        BY <3>1, <3>4 DEF ExclusionInv
      <4>2. QED
        <5>1. Cardinality(Filtering) = 1
          BY <4>1, FS_Singleton
        <5>2. QED
          BY <5>1 DEF OneRunAtATime
    <3>5. QED
      BY <3>2, <3>3, <3>4
  <2>3. StopIsObeyed
    BY DEF AskedInv, CanStop, StopIsObeyed
  <2>4. StaleStopOnlyIfMissed
    BY DEF StopInv, AskedInv, CanStop, StaleStopOnlyIfMissed, Quiet
  <2>5. QED
    BY <2>1, <2>2, <2>3, <2>4 DEF FlagsInv
<1>2. QED
  BY <1>1, AppInvariance, PTL

-----------------------------------------------------------------------------
(* The web application: its history *)

(* Every action keeps the invariant of the file *)
LEMMA AppFileStep == AppInv /\ SaveInv /\ FileInv /\ [AppNext]_appVars => SaveInv' /\ FileInv'
<1> SUFFICES ASSUME AppInv, SaveInv, FileInv, [AppNext]_appVars PROVE SaveInv' /\ FileInv'
  OBVIOUS
<1> USE AppAssumption, RestingFields
    DEF AppInv, AppTypeOK, Thread, ThreadInv, SaveInv, FileInv, Saving, Runners, flagVars, diskVars,
        staleVars, At, Rests
<1>1. ASSUME NEW h \in Runners, GetStockList(h) PROVE SaveInv' /\ FileInv'
  BY <1>1 DEF GetStockList
<1>2. ASSUME NEW h \in Runners, Raises(h) PROVE SaveInv' /\ FileInv'
  BY <1>2 DEF Raises
<1>3. ASSUME NEW h \in Runners, CheckStock(h) PROVE SaveInv' /\ FileInv'
  BY <1>3 DEF CheckStock
<1>4. ASSUME NEW h \in Runners, AppendEntry(h) PROVE SaveInv' /\ FileInv'
  <2>1. ProcessOf(h) \in Processes
    BY DEF ProcessOf, Processes
  <2>2. \A p \in Processes : memory[p] \subseteq memory'[p]
    BY <1>4, <2>1 DEF AppendEntry
  <2>3. runner[h].run \in memory'[ProcessOf(h)]
    BY <1>4, <2>1 DEF AppendEntry
  <2>4. \A g \in Runners : ProcessOf(g) \in Processes
    BY DEF ProcessOf, Processes
  <2>5. QED
    BY <1>4, <2>2, <2>3, <2>4 DEF AppendEntry
<1>5. ASSUME NEW h \in Runners, OpenFile(h) PROVE SaveInv' /\ FileInv'
  <2>1. CASE damaged \/ shared \/ stale[ProcessOf(h)] \/ \E g \in Runners : runner[g].point \in Saving
    <3>1. (damaged' \/ shared') /\ memory' = memory
      BY <1>5, <2>1 DEF OpenFile
    <3>2. SaveInv'
      BY <1>5, <3>1 DEF OpenFile
    <3>3. QED
      BY <3>1, <3>2
  <2>2. CASE ~damaged /\ ~shared /\ ~stale[ProcessOf(h)] /\ \A g \in Runners : runner[g].point \notin Saving
    BY <1>5, <2>2 DEF OpenFile
  <2>3. QED
    BY <2>1, <2>2
<1>6. ASSUME NEW h \in Runners, Dump(h) PROVE SaveInv' /\ FileInv'
  <2>1. ProcessOf(h) \in Processes
    BY DEF ProcessOf, Processes
  <2>2. QED
    BY <1>6, <2>1 DEF Dump
<1>7. ASSUME NEW h \in Runners, Flush(h) PROVE SaveInv' /\ FileInv'
  <2>1. \A g \in Runners : g # h => runner'[g] = runner[g]
    BY <1>7 DEF Flush, AfterSave
  <2>2. runner'[h].point \in {"idle", "saved"}
    BY <1>7 DEF Flush, AfterSave
  <2>3. /\ memory' = memory /\ damaged' = damaged /\ shared' = shared
        /\ saved' = saved \cup {runner[h].run}
    BY <1>7 DEF Flush
  <2>4. SaveInv'
    BY <2>1, <2>2, <2>3
  <2>5. CASE damaged \/ shared
    BY <2>3, <2>4, <2>5
  <2>6. CASE ~damaged /\ ~shared
    <3>1. file' = [entries |-> runner[h].text, valid |-> TRUE]
      BY <1>7, <2>6 DEF Flush
    <3>2. \A g \in Runners : runner'[g].point \notin Saving
      BY <1>7, <2>1, <2>2, <2>6 DEF Flush
    <3>3. saved' \subseteq runner[h].text /\ saved' \subseteq memory[ProcessOf(h)]
      <4>1. ProcessOf(h) \in Processes /\ ~stale[ProcessOf(h)] /\ runner[h].run \in memory[ProcessOf(h)]
        BY <1>7, <2>6 DEF Flush, ProcessOf, Processes
      <4>2. saved \subseteq memory[ProcessOf(h)]
        BY <2>6, <4>1
      <4>3. saved \subseteq runner[h].text /\ runner[h].run \in runner[h].text
        BY <1>7, <2>6 DEF Flush
      <4>4. QED
        BY <2>3, <4>1, <4>2, <4>3
    <3>4. \A p \in Processes : ~stale'[p] => p = ProcessOf(h)
      BY <1>7 DEF Flush
    <3>5. QED
      BY <2>3, <2>4, <3>1, <3>2, <3>3, <3>4
  <2>7. QED
    BY <2>5, <2>6
<1>8. ASSUME NEW h \in Handlers, Trigger(h) PROVE SaveInv' /\ FileInv'
  BY <1>8 DEF Trigger
<1>9. ASSUME NEW h \in Handlers, BadRequest(h) PROVE SaveInv' /\ FileInv'
  BY <1>9 DEF BadRequest
<1>10. ASSUME NEW h \in Handlers, SetRunning(h) PROVE SaveInv' /\ FileInv'
  BY <1>10 DEF SetRunning
<1>11. ASSUME NEW h \in Handlers, Stopped(h) PROVE SaveInv' /\ FileInv'
  BY <1>11 DEF Stopped
<1>12. ASSUME NEW h \in Handlers, ClearStop(h) PROVE SaveInv' /\ FileInv'
  <2>1. \A g \in Runners : g # h => /\ runner'[g].point = runner[g].point
                                   /\ runner'[g].run = runner[g].run
                                   /\ runner'[g].text = runner[g].text
    BY <1>12 DEF ClearStop
  <2>2. runner'[h].point = "idle" /\ runner[h].point = "stopped"
    BY <1>12 DEF ClearStop
  <2>3. UNCHANGED diskVars
    BY <1>12 DEF ClearStop
  <2>4. QED
    BY <2>1, <2>2, <2>3
<1>13. ASSUME NEW h \in Handlers, ClearRunning(h) PROVE SaveInv' /\ FileInv'
  BY <1>13 DEF ClearRunning
<1>14. ASSUME NEW h \in Jobs, JobStarts(h) PROVE SaveInv' /\ FileInv'
  BY <1>14 DEF JobStarts
<1>15. CASE stop_filter
  <2>1. \A g \in Runners : /\ runner'[g].point = runner[g].point
                          /\ runner'[g].run = runner[g].run
                          /\ runner'[g].text = runner[g].text
    BY <1>15 DEF stop_filter
  <2>2. UNCHANGED diskVars
    BY <1>15 DEF stop_filter
  <2>3. QED
    BY <2>1, <2>2
<1>16. ASSUME NEW procs \in {Processes, {"child"}}, Starts(procs) PROVE SaveInv' /\ FileInv'
  <2>1. \A g \in Runners : IF ProcessOf(g) \in procs THEN runner'[g] = Resting ELSE runner'[g] = runner[g]
    BY <1>16 DEF Starts
  <2>2. \A p \in Processes : p \notin procs => memory'[p] = memory[p] /\ stale'[p] = stale[p]
    <3>1. \A p \in Processes : p \notin procs => memory'[p] = memory[p]
      BY <1>16 DEF Starts
    <3>2. stale' = [p \in Processes |-> IF p \in procs THEN ~file.valid ELSE stale[p]]
      BY <1>16 DEF Starts
    <3>3. QED
      BY <3>1, <3>2, Zenon
  <2>3. \A g \in Runners : ProcessOf(g) \in Processes
    BY DEF ProcessOf, Processes
  <2>4. SaveInv'
    BY <2>1, <2>2, <2>3
  <2>5. CASE damaged' \/ shared
    BY <1>16, <2>4, <2>5 DEF Starts
  <2>6. CASE ~damaged' /\ ~shared
    <3>1. ~damaged /\ UNCHANGED <<file, saved, shared>>
      BY <1>16, <2>6 DEF Starts
    <3>2. \A g \in Runners : runner[g].point \in Saving => runner'[g] = runner[g] /\ ProcessOf(g) \notin procs
      BY <1>16, <2>1, <2>6 DEF Starts
    <3>3. \A p \in Processes : p \in procs /\ ~stale'[p] => file.valid /\ memory'[p] = file.entries
      BY <1>16 DEF Starts, Readable
    <3>4. \A p \in Processes : ~stale'[p] => saved \subseteq memory'[p]
      BY <2>2, <2>6, <3>1, <3>3
    <3>5. \A g \in Runners : runner'[g].point \in Saving => runner[g].point \in Saving /\ runner'[g] = runner[g]
      BY <2>1
    <3>6. QED
      BY <2>2, <2>3, <2>4, <2>6, <3>1, <3>2, <3>4, <3>5
  <2>7. QED
    BY <2>5, <2>6
<1>17. CASE UNCHANGED appVars
  BY <1>17 DEF appVars
<1>18. ASSUME NEW h \in Runners, SaveFails(h) PROVE SaveInv' /\ FileInv'
  <2>1. \A g \in Runners : g # h => runner'[g] = runner[g]
    BY <1>18 DEF SaveFails, AfterSave
  <2>2. runner'[h].point \in {"idle", "saved"}
    BY <1>18 DEF SaveFails, AfterSave
  <2>3. UNCHANGED <<memory, stale, shared, saved>>
    BY <1>18 DEF SaveFails
  <2>4. SaveInv'
    BY <2>1, <2>2, <2>3
  <2>5. CASE runner[h].point \in Saving
    BY <1>18, <2>4, <2>5 DEF SaveFails
  <2>6. CASE runner[h].point = "save"
    <3>1. UNCHANGED <<file, damaged>>
      BY <1>18, <2>6 DEF SaveFails
    <3>2. QED
      BY <2>1, <2>2, <2>3, <2>4, <2>6, <3>1
  <2>7. QED
    BY <1>18, <2>5, <2>6 DEF SaveFails
<1>19. QED
  BY <1>18, <1>1, <1>2, <1>3, <1>4, <1>5, <1>6, <1>7, <1>8, <1>9, <1>10, <1>11, <1>12, <1>13, <1>14, <1>15, <1>16, <1>17 DEF AppNext, RunStep, HandlerStep, Restart, Reload

(* HistorySurvives, for every number of threads, runs and restarts: what   *)
(* was saved is in the file, and the file parses, whenever nobody is       *)
(* writing it, unless two saves overlapped, one failed or was cut short,   *)
(* or the parent or the child process saved a list that lacked an entry    *)
(* saved by the other.                                                     *)
THEOREM HistoryKept == AppSpec => []HistorySurvives
<1>1. AppInv /\ SaveInv /\ FileInv => HistorySurvives
  BY DEF FileInv, HistorySurvives, HistoryOnDisk, SaveGoesOn
<1>2. AppSpec => [](SaveInv /\ FileInv)
  BY AppInitInv, AppFileStep, AppInvariance, PTL DEF AppSpec
<1>3. QED
  BY <1>1, <1>2, AppInvariance, PTL

-----------------------------------------------------------------------------
(* The stock filter: the pool and the collection of its results *)

Fresh(s) == done[s] = Unknown /\ results[s] = Unknown

(* The stocks of the batch that the main thread waits for *)
Current(s) == (phase = "local" => s \in batch.local) /\ (phase = "fetch" => s \in batch.fetch)

(* The pool has work only while a batch is submitted or drained *)
PhaseInv ==
    /\ phase \in {"quick", "finished", "cancelled"} => pending = {} /\ \A w \in Pool : ~Busy(w)
    /\ phase = "draining" => pending = {}
    /\ phase = "quick" => \A s \in Stocks : Fresh(s)

(* The two batches divide what was kept. The second is untouched during    *)
(* the first, which is collected to the last stock before the second.      *)
BatchInv ==
    phase # "quick" =>
        /\ batch.local \cap batch.fetch = {} /\ batch.local \cup batch.fetch = kept
        /\ phase = "local" => \A s \in batch.fetch : Fresh(s)
        /\ phase \in {"fetch", "finished"} => \A s \in batch.local : Collected(s)
        /\ phase = "finished" => \A s \in batch.fetch : Collected(s)

(* A stock is in one place: waiting, with one thread, or at an end *)
WorkInv ==
    /\ \A s \in pending : Fresh(s) /\ Current(s)
    /\ \A w \in Pool : Busy(w) => /\ thread[w].stock \in kept /\ thread[w].stock \notin pending
                                  /\ Fresh(thread[w].stock) /\ Current(thread[w].stock)
    /\ \A v, w \in Pool : Busy(v) /\ Busy(w) /\ thread[v].stock = thread[w].stock => v = w

(* A thread skips a stock only after Ctrl+C, and nothing is collected then *)
SkipInv == \A s \in Stocks : (done[s] = "cancelled" => exit) /\ results[s] # "cancelled"

PoolInv == FilterTypeOK /\ PhaseInv /\ BatchInv /\ WorkInv /\ SkipInv

(* The failure list while no calls have overlapped and none has failed:    *)
(* one thread is between reading and writing, what it read is what the     *)
(* file held, and only the stocks of calls still under way are missing.    *)
Listing == {thread[w].stock : w \in {v \in Pool : thread[v].point \in Writing \cup {"read"}}}

ListInv ==
    clashed \/ unlisted \/
        /\ \A v, w \in Pool : thread[v].point \in Writing /\ thread[w].point \in Writing => v = w
        /\ (\A w \in Pool : thread[w].point # "write") =>
               listFile.valid /\ failed \subseteq listFile.stocks \cup Listing
        /\ \A w \in Pool : thread[w].point = "truncate" => thread[w].list = listFile.stocks
        /\ \A w \in Pool : thread[w].point = "write" =>
               listFile.stocks = {} /\ failed \subseteq thread[w].list \cup Listing

-----------------------------------------------------------------------------
LEMMA FilterInitInv == FilterInit => PoolInv /\ ListInv
<1> SUFFICES ASSUME FilterInit PROVE PoolInv /\ ListInv
  OBVIOUS
<1> USE FilterAssumption DEF FilterInit
<1>1. \A w \in Pool : thread[w] = FreeThread /\ FreeThread \in Worker
  BY DEF FreeThread, Worker
<1>2. FilterTypeOK
  BY <1>1 DEF FilterTypeOK, FreeThread, Busy, Status
<1>3. PhaseInv /\ BatchInv /\ WorkInv /\ SkipInv
  BY <1>1 DEF PhaseInv, BatchInv, WorkInv, SkipInv, Fresh, Busy, FreeThread, Unknown
<1>4. ListInv
  BY <1>1 DEF ListInv, FreeThread, Writing
<1>5. QED
  BY <1>2, <1>3, <1>4 DEF PoolInv

(* A stock begun by a thread of the pool leaves the other threads alone *)
LEMMA BeginEffect ==
    ASSUME FilterTypeOK, NEW w \in Pool, NEW s \in Stocks, Begin(w, s), ~exit
    PROVE  /\ thread' \in [Pool -> Worker] /\ \A v \in Pool \ {w} : thread'[v] = thread[v]
           /\ thread[w].point = "free" /\ thread'[w].point = "fetch" /\ thread'[w].stock = s
           /\ s \in pending /\ pending' = pending \ {s}
           /\ UNCHANGED <<exit, mainVars, done, results, listVars>>
  BY FilterAssumption DEF Begin, Busy, FilterTypeOK, Worker

(* Every action keeps the types *)
LEMMA FilterTypeStep == PoolInv /\ [FilterNext]_filterVars => FilterTypeOK'
<1> SUFFICES ASSUME PoolInv, [FilterNext]_filterVars PROVE FilterTypeOK'
  OBVIOUS
<1> USE FilterAssumption DEF PoolInv, FilterTypeOK, Worker, Status, PhaseInv, BatchInv, WorkInv, Busy, FreeThread, Unknown, Writing,
        mainVars, listVars
<1>1. ASSUME NEW w \in Pool, NEW s \in Stocks, Begin(w, s) PROVE FilterTypeOK'
  <2>1. CASE exit
    BY <1>1, <2>1 DEF Begin
  <2>2. CASE ~exit
    BY <1>1, <2>2, BeginEffect
  <2>3. QED
    BY <2>1, <2>2
<1>2. ASSUME NEW w \in Pool, Fetched(w) PROVE FilterTypeOK'
  BY <1>2 DEF Fetched
<1>3. ASSUME NEW w \in Pool, NotFetched(w) PROVE FilterTypeOK'
  BY <1>3 DEF NotFetched
<1>4. ASSUME NEW w \in Pool, thread[w].point \in {"fetch", "apply"}, Fail(w) PROVE FilterTypeOK'
  BY <1>4 DEF Fail
<1>5. ASSUME NEW w \in Pool, NEW status \in {"success", "error"}, Apply(w, status) PROVE FilterTypeOK'
  BY <1>5 DEF Apply, End
<1>6. ASSUME NEW w \in Pool, ReadList(w) PROVE FilterTypeOK'
  BY <1>6 DEF ReadList, End
<1>7. ASSUME NEW w \in Pool, Truncate(w) PROVE FilterTypeOK'
  BY <1>7 DEF Truncate
<1>8. ASSUME NEW w \in Pool, NEW valid \in BOOLEAN, WriteList(w, valid) PROVE FilterTypeOK'
  BY <1>8 DEF WriteList, End
<1>9. ASSUME NEW s \in Stocks, NEW keep \in BOOLEAN, QuickExclude(s, keep) PROVE FilterTypeOK'
  BY <1>9 DEF QuickExclude
<1>10. ASSUME NEW local \in SUBSET kept, Divide(local) PROVE FilterTypeOK'
  BY <1>10 DEF Divide, SubmitBatch
<1>11. ASSUME NEW s \in Stocks, Collect(s) PROVE FilterTypeOK'
  BY <1>11 DEF Collect
<1>12. CASE LocalDone
  BY <1>12 DEF LocalDone, SubmitBatch
<1>13. CASE FetchDone
  BY <1>13 DEF FetchDone
<1>14. CASE Drained
  BY <1>14 DEF Drained
<1>15. CASE Signal
  BY <1>15 DEF Signal
<1>16. CASE UNCHANGED filterVars
  BY <1>16, SMTT(30) DEF filterVars
<1>17. ASSUME NEW w \in Pool, ListFails(w) PROVE FilterTypeOK'
  <2>1. listFile' \in [stocks : SUBSET Stocks, valid : BOOLEAN]
    BY <1>17 DEF ListFails
  <2>2. QED
    BY <1>17, <2>1 DEF ListFails, End
<1>18. QED
  BY <1>1, <1>2, <1>3, <1>4, <1>5, <1>6, <1>7, <1>8, <1>9, <1>10, <1>11, <1>12, <1>13, <1>14, <1>15, <1>16, <1>17
     DEF FilterNext, Main, Process, NeverFetched, Raise

(* Every action keeps the invariant of the pool *)
LEMMA FilterPoolStep == PoolInv /\ [FilterNext]_filterVars => PhaseInv' /\ BatchInv' /\ WorkInv' /\ SkipInv'
<1> DEFINE Goal == PhaseInv /\ BatchInv /\ WorkInv /\ SkipInv
<1> SUFFICES ASSUME PoolInv, [FilterNext]_filterVars PROVE Goal'
  OBVIOUS
<1> USE FilterAssumption DEF PoolInv, FilterTypeOK, Worker, Status, PhaseInv, BatchInv, WorkInv, SkipInv, Fresh, Current,
        Collected, Busy, FreeThread, Unknown, Writing, mainVars, listVars
<1>1. ASSUME NEW w \in Pool, NEW s \in Stocks, Begin(w, s) PROVE Goal'
  <2>1. CASE exit
    BY <1>1, <2>1 DEF Begin
  <2>2. CASE ~exit
    BY <1>1, <2>2, BeginEffect
  <2>3. QED
    BY <2>1, <2>2
<1>2. ASSUME NEW w \in Pool, Fetched(w) PROVE Goal'
  BY <1>2 DEF Fetched
<1>3. ASSUME NEW w \in Pool, NotFetched(w) PROVE Goal'
  BY <1>3 DEF NotFetched
<1>4. ASSUME NEW w \in Pool, thread[w].point \in {"fetch", "apply"}, Fail(w) PROVE Goal'
  BY <1>4 DEF Fail
<1>5. ASSUME NEW w \in Pool, NEW status \in {"success", "error"}, Apply(w, status) PROVE Goal'
  BY <1>5 DEF Apply, End
<1>6. ASSUME NEW w \in Pool, ReadList(w) PROVE Goal'
  BY <1>6, SMTT(30) DEF ReadList, End
<1>7. ASSUME NEW w \in Pool, Truncate(w) PROVE Goal'
  BY <1>7 DEF Truncate
<1>8. ASSUME NEW w \in Pool, NEW valid \in BOOLEAN, WriteList(w, valid) PROVE Goal'
  BY <1>8 DEF WriteList, End
<1>9. ASSUME NEW s \in Stocks, NEW keep \in BOOLEAN, QuickExclude(s, keep) PROVE Goal'
  BY <1>9 DEF QuickExclude
<1>10. ASSUME NEW local \in SUBSET kept, Divide(local) PROVE Goal'
  BY <1>10 DEF Divide, SubmitBatch
<1>11. ASSUME NEW s \in Stocks, Collect(s) PROVE Goal'
  BY <1>11 DEF Collect
<1>12. CASE LocalDone
  BY <1>12 DEF LocalDone, SubmitBatch
<1>13. CASE FetchDone
  BY <1>13 DEF FetchDone
<1>14. CASE Drained
  BY <1>14 DEF Drained
<1>15. CASE Signal
  BY <1>15 DEF Signal
<1>16. CASE UNCHANGED filterVars
  BY <1>16 DEF filterVars
<1>17. ASSUME NEW w \in Pool, ListFails(w) PROVE Goal'
  BY <1>17 DEF ListFails, End
<1>18. QED
  BY <1>1, <1>2, <1>3, <1>4, <1>5, <1>6, <1>7, <1>8, <1>9, <1>10, <1>11, <1>12, <1>13, <1>14, <1>15, <1>16, <1>17
     DEF FilterNext, Main, Process, NeverFetched, Raise

LEMMA PoolInvariance == FilterSpec => []PoolInv
<1>1. PoolInv /\ [FilterNext]_filterVars => PoolInv'
  BY FilterTypeStep, FilterPoolStep DEF PoolInv
<1>2. QED
  BY FilterInitInv, <1>1, PTL DEF FilterSpec

(* FilterInv, for every number of stocks and threads: no stock that was    *)
(* skipped because of Ctrl+C is among the results, a run that was not      *)
(* cancelled has a result for every stock kept, and no thread is at work   *)
(* when run_filter returns.                                                *)
THEOREM FilterResults == FilterSpec => []FilterInv
<1>1. PoolInv => FilterInv
  BY DEF PoolInv, FilterTypeOK, PhaseInv, BatchInv, SkipInv, Collected, FilterInv, ResultsAreReal, QuietAtTheEnd
<1>2. QED
  BY <1>1, PoolInvariance, PTL

-----------------------------------------------------------------------------
(* The stock filter: the failure list *)

(* A thread that begins is not concerned with the list *)
LEMMA BeginListing ==
    ASSUME FilterTypeOK, NEW w \in Pool, NEW s \in Stocks, Begin(w, s), ~exit
    PROVE  Listing' = Listing
<1>1. /\ \A v \in Pool \ {w} : thread'[v] = thread[v]
      /\ thread[w].point = "free" /\ thread'[w].point = "fetch"
  BY BeginEffect
<1>2. {v \in Pool : thread'[v].point \in Writing \cup {"read"}}
        = {v \in Pool : thread[v].point \in Writing \cup {"read"}}
  BY <1>1 DEF Writing
<1>3. \A v \in Pool : thread[v].point \in Writing \cup {"read"} => thread'[v] = thread[v]
  BY <1>1 DEF Writing
<1>4. QED
  BY <1>2, <1>3 DEF Listing

(* Every action keeps the invariant of the list *)
LEMMA FilterListStep == FilterTypeOK /\ ListInv /\ [FilterNext]_filterVars => ListInv'
<1> SUFFICES ASSUME FilterTypeOK, ListInv, [FilterNext]_filterVars PROVE ListInv'
  OBVIOUS
<1> USE FilterAssumption DEF FilterTypeOK, Worker, ListInv, Listing, Busy, FreeThread, Writing, mainVars, listVars
<1>1. ASSUME NEW w \in Pool, NEW s \in Stocks, Begin(w, s) PROVE ListInv'
  <2>1. CASE exit
    BY <1>1, <2>1 DEF Begin
  <2>2. CASE ~exit
    <3>1. Listing' = Listing
      BY <1>1, <2>2, BeginListing
    <3> HIDE DEF Listing
    <3>2. \A v \in Pool : thread'[v].point # thread[v].point => v = w
      BY <1>1, <2>2, BeginEffect
    <3>3. UNCHANGED <<listFile, failed, clashed, unlisted>>
      BY <1>1, <2>2, BeginEffect
    <3>4. QED
      BY <1>1, <2>2, <3>1, <3>2, <3>3, BeginEffect, SMTT(30)
  <2>3. QED
    BY <2>1, <2>2
<1>2. ASSUME NEW w \in Pool, Fetched(w) PROVE ListInv'
  BY <1>2 DEF Fetched
<1>3. ASSUME NEW w \in Pool, NotFetched(w) PROVE ListInv'
  BY <1>3 DEF NotFetched
<1>4. ASSUME NEW w \in Pool, thread[w].point \in {"fetch", "apply"}, Fail(w) PROVE ListInv'
  BY <1>4 DEF Fail
<1>5. ASSUME NEW w \in Pool, NEW status \in {"success", "error"}, Apply(w, status) PROVE ListInv'
  BY <1>5 DEF Apply, End
<1>6. ASSUME NEW w \in Pool, ReadList(w) PROVE ListInv'
  <2>1. CASE clashed \/ unlisted \/ \E v \in Pool \ {w} : thread[v].point \in Writing
    BY <1>6, <2>1 DEF ReadList
  <2>2. CASE ~clashed /\ ~unlisted /\ \A v \in Pool \ {w} : thread[v].point \notin Writing
    <3>1. listFile.valid /\ failed \subseteq listFile.stocks \cup Listing
      BY <1>6, <2>2 DEF ReadList
    <3>2. /\ thread' = [thread EXCEPT ![w].point = "truncate", ![w].list = listFile.stocks]
          /\ listFile' = listFile /\ failed' = failed
      BY <1>6, <3>1 DEF ReadList
    <3>3. Listing' = Listing
      BY <1>6, <3>2 DEF ReadList
    <3>4. QED
      BY <1>6, <2>2, <3>1, <3>2, <3>3 DEF ReadList
  <2>3. QED
    BY <2>1, <2>2
<1>7. ASSUME NEW w \in Pool, Truncate(w) PROVE ListInv'
  BY <1>7 DEF Truncate
<1>8. ASSUME NEW w \in Pool, NEW valid \in BOOLEAN, WriteList(w, valid) PROVE ListInv'
  BY <1>8 DEF WriteList, End
<1>9. CASE Main
  BY <1>9 DEF Main, QuickExclude, Divide, SubmitBatch, Collect, LocalDone, FetchDone, Drained
<1>10. CASE Signal
  BY <1>10 DEF Signal
<1>11. CASE UNCHANGED filterVars
  BY <1>11 DEF filterVars
<1>12. ASSUME NEW w \in Pool, ListFails(w) PROVE ListInv'
  BY <1>12 DEF ListFails
<1>13. QED
  BY <1>1, <1>2, <1>3, <1>4, <1>5, <1>6, <1>7, <1>8, <1>9, <1>10, <1>11, <1>12
     DEF FilterNext, Process, NeverFetched, Raise

(* ForgottenOnlyByClash, for every number of stocks and threads: without   *)
(* overlapping calls of add_failed_stock, and without a call that could    *)
(* not read or write the file, every failed stock is listed.               *)
THEOREM FailuresListed == FilterSpec => []ForgottenOnlyByClash
<1>1. ListInv => ForgottenOnlyByClash
  BY DEF ListInv, Listing, ForgottenOnlyByClash, Writing
<1>2. PoolInv => FilterTypeOK
  BY DEF PoolInv
<1>3. QED
  BY <1>1, <1>2, FilterInitInv, FilterListStep, PoolInvariance, PTL DEF FilterSpec

-----------------------------------------------------------------------------
(* The market data client: the account of a free token *)

(* Threads that wait for an answer with token k, and threads whose answer  *)
(* is still to be added to the counter                                     *)
Awaiting(k)   == {p \in Threads : asker[p].point = "asked" /\ asker[p].token = k}
Unrecorded(k) == {p \in Threads : /\ asker[p].point \in {"count", "write"}
                                  /\ asker[p].marks = 0 /\ asker[p].token = k}

(* A token about to be marked is one that was given up *)
MarkInv ==
    overlapped \/ \A p \in Threads :
        asker[p].point \in {"count", "write"} /\ asker[p].marks > 0 /\ asker[p].token \in Free =>
            asker[p].token \in gaveUp

(* Below the limit the counter lacks only what is unrecorded. At the limit *)
(* the token is chosen no more, and only the threads that chose it before  *)
(* can still be served.                                                    *)
CountInv ==
    overlapped \/ \A k \in Free :
        /\ usage[k] < DailyLimit =>
               /\ served[k] <= usage[k] + Cardinality(Unrecorded(k))
               /\ k \in gaveUp \/ served[k] = usage[k] + Cardinality(Unrecorded(k))
        /\ usage[k] = DailyLimit =>
               /\ served[k] + Cardinality(Awaiting(k)) < MaxServed
               /\ k \in gaveUp \/ served[k] >= DailyLimit

(* Each failed attempt of a request has used up a free token of its own,   *)
(* apart from the answers 403: the token in use was not yet used up when   *)
(* it was chosen, whoever marks it in the meantime.                        *)
UsedUp == {k \in Free : usage[k] = DailyLimit}

Excused(r) == r.paid \/ r.refusals = 2 \/ r.cleared

Accounted(r) ==
    Excused(r) \/
        /\ r.point # "failed"
        /\ r.point \in {"date", "stale", "choose"} => r.attempt <= Cardinality(UsedUp) + r.refusals
        /\ r.point \in InUse => /\ r.token \in Free
                                /\ r.attempt <= Cardinality(UsedUp \ {r.token}) + r.refusals

AttemptInv == overlapped \/ \A p \in Threads : Accounted(asker[p])

TokenInv == MarketTypeOK /\ MarkInv /\ CountInv /\ AttemptInv

-----------------------------------------------------------------------------
(* Every set of naturals has a least element *)
LEMMA LeastNatural == ASSUME NEW T, T \subseteq Nat, T # {} PROVE \E x \in T : \A y \in T : x <= y
<1> DEFINE F == {0 .. n : n \in T}
<1>1. F \subseteq FiniteSubsetsOf(Nat) /\ F # {}
  <2>1. \A n \in T : IsFiniteSet(0 .. n) /\ 0 .. n \subseteq Nat
    BY FS_Interval
  <2>2. \A I \in F : IsFiniteSet(I) /\ I \subseteq Nat
    BY <2>1
  <2>3. F # {}
    OBVIOUS
  <2>4. QED
    BY <2>2, <2>3 DEF FiniteSubsetsOf
<1> HIDE DEF F
<1>2. PICK I \in F : \A J \in F : <<J, I>> \notin StrictSubsetOrdering(Nat)
  BY <1>1, WFMin, FS_StrictSubsetOrderingWellFounded
<1>3. PICK x \in T : I = 0 .. x
  BY <1>2 DEF F
<1>4. ASSUME NEW y \in T, y < x PROVE FALSE
  <2>1. <<0 .. y, I>> \notin StrictSubsetOrdering(Nat)
    BY <1>2 DEF F
  <2>2. 0 .. y \subseteq Nat /\ I \subseteq Nat /\ 0 .. y \subseteq I
    BY <1>3, <1>4
  <2>3. x \in I /\ x \notin 0 .. y
    BY <1>3, <1>4
  <2>4. QED
    BY <2>1, <2>2, <2>3 DEF StrictSubsetOrdering
<1>5. QED
  BY <1>4

(* _get_current_token takes a free token below its limit if there is one *)
LEMMA CurrentTokenIs ==
    ASSUME MarketTypeOK
    PROVE  /\ Usable = {} => CurrentToken = Paid /\ \A k \in Free : usage[k] = DailyLimit
           /\ Usable # {} => CurrentToken \in Free /\ usage[CurrentToken] < DailyLimit
<1>1. CASE Usable = {}
  BY <1>1, MarketAssumption DEF Usable, CurrentToken, Free, MarketTypeOK
<1>2. CASE Usable # {}
  <2>1. Usable \subseteq Nat
    BY MarketAssumption DEF Usable
  <2>2. \E i \in Usable : \A j \in Usable : i <= j
    BY <1>2, <2>1, LeastNatural
  <2>3. CurrentToken \in {FreeTokens[i] : i \in Usable}
    BY <1>2, <2>2 DEF CurrentToken
  <2>4. QED
    BY <1>2, <2>3 DEF Usable, Free
<1>3. QED
  BY <1>1, <1>2

(* Numbers and sets behind the account *)
LEMMA MarketNumbers ==
    /\ Cardinality(Threads) \in Nat \ {0} /\ MaxServed \in Nat /\ MaxServed > DailyLimit
    /\ Len(FreeTokens) \in Nat /\ IsFiniteSet(Free) /\ Cardinality(Free) <= Len(FreeTokens)
    /\ DailyLimit \in Nat \ {0} /\ Paid \in Tokens /\ Paid \notin Free /\ Free \subseteq Tokens
<1>1. Cardinality(Threads) \in Nat \ {0}
  BY MarketAssumption, FS_CardinalityType, FS_EmptySet
<1>2. Len(FreeTokens) \in Nat /\ DOMAIN FreeTokens = 1 .. Len(FreeTokens)
  BY MarketAssumption
<1>3. IsFiniteSet(1 .. Len(FreeTokens)) /\ Cardinality(1 .. Len(FreeTokens)) = Len(FreeTokens)
  <2>1. \A n \in Nat : IsFiniteSet(1 .. n) /\ Cardinality(1 .. n) = n
    BY FS_Interval
  <2>2. QED
    BY <1>2, <2>1
<1>4. IsFiniteSet(Free) /\ Cardinality(Free) <= Len(FreeTokens)
  <2>1. FreeTokens \in [1 .. Len(FreeTokens) -> Free]
    BY <1>2, MarketAssumption DEF Free
  <2>2. FreeTokens \in Surjection(1 .. Len(FreeTokens), Free)
    BY <1>2, <2>1 DEF Surjection, Free
  <2>3. QED
    BY <1>3, <2>2, FS_Surjection
<1>5. QED
  BY <1>1, <1>2, <1>4, MarketAssumption DEF MaxServed, Tokens

LEMMA MarketInitInv == MarketInit => TokenInv
<1> SUFFICES ASSUME MarketInit PROVE TokenInv
  OBVIOUS
<1> USE MarketNumbers, MarketAssumption DEF MarketInit
<1>1. Idle \in Asking /\ Idle.point = "idle"
  BY DEF Idle, Asking, MaxAttempts
<1>2. MarketTypeOK
  <2>1. asker \in [Threads -> Asking]
    BY <1>1
  <2>2. usage \in [Free -> 0 .. DailyLimit] /\ served \in [Free -> 0 .. MaxServed]
    OBVIOUS
  <2>3. QED
    <3> HIDE MarketNumbers
    <3>1. day \in 1 .. MaxDays + 1 /\ usageDate \in 0 .. MaxDays + 1
      OBVIOUS
    <3>2. gaveUp \subseteq Free /\ overlapped \in BOOLEAN
      OBVIOUS
    <3>3. QED
      BY <2>1, <2>2, <3>1, <3>2 DEF MarketTypeOK
<1>3. MarkInv /\ AttemptInv
  BY <1>1 DEF MarkInv, AttemptInv, Accounted, InUse
<1>4. CountInv
  <2>1. \A k \in Free : Unrecorded(k) = {}
    BY <1>1 DEF Unrecorded
  <2>2. \A k \in Free : Cardinality(Unrecorded(k)) = 0
    BY <2>1, FS_EmptySet
  <2>3. \A k \in Free : usage[k] = 0 /\ served[k] = 0
    OBVIOUS
  <2>4. QED
    BY <2>2, <2>3 DEF CountInv
<1>5. QED
  BY <1>2, <1>3, <1>4 DEF TokenInv

(* What Update does to the threads *)
LEMMA UpdateEffect ==
    ASSUME MarketTypeOK, NEW p \in Threads, NEW r \in Asking, Update(p, r)
    PROVE  /\ asker' \in [Threads -> Asking] /\ asker'[p] = r
           /\ \A q \in Threads \ {p} : asker'[q] = asker[q]
  BY DEF MarketTypeOK, Update

(* The next attempt, or the end of the request *)
LEMMA RetryIs ==
    ASSUME NEW r \in Asking
    PROVE  /\ Retry(r) \in Asking
           /\ Retry(r).refusals = r.refusals /\ Retry(r).paid = r.paid /\ Retry(r).cleared = r.cleared
           /\ \/ Retry(r).point = "date" /\ Retry(r).attempt = r.attempt + 1
              \/ Retry(r).point = "failed" /\ r.attempt + 1 >= MaxAttempts
<1> r.attempt \in 0 .. MaxAttempts - 1 /\ MaxAttempts \in Nat /\ MaxAttempts > 0
  BY MarketNumbers DEF Asking, MaxAttempts
<1>1. CASE r.attempt + 1 < MaxAttempts
  <2> DEFINE a == r.attempt + 1
  <2>1. Retry(r) = [r EXCEPT !.point = "date", !.attempt = a, !.token = Paid]
    BY <1>1 DEF Retry
  <2>2. a \in 0 .. MaxAttempts - 1
    BY <1>1
  <2> HIDE DEF a
  <2>3. Retry(r) \in Asking /\ Retry(r).point = "date" /\ Retry(r).attempt = a
    BY <2>1, <2>2, MarketNumbers DEF Asking
  <2>4. Retry(r).refusals = r.refusals /\ Retry(r).paid = r.paid /\ Retry(r).cleared = r.cleared
    BY <2>1 DEF Asking
  <2>5. QED
    BY <2>3, <2>4 DEF a
<1>2. CASE ~(r.attempt + 1 < MaxAttempts)
  <2>1. Retry(r) = [r EXCEPT !.point = "failed", !.attempt = 0, !.token = Paid]
    BY <1>2 DEF Retry
  <2>2. Retry(r) \in Asking /\ Retry(r).point = "failed"
    <3>1. 0 \in 0 .. MaxAttempts - 1 /\ Paid \in Tokens
      BY MarketNumbers
    <3>2. QED
      BY <2>1, <3>1 DEF Asking
  <2>3. Retry(r).refusals = r.refusals /\ Retry(r).paid = r.paid /\ Retry(r).cleared = r.cleared
    BY <2>1 DEF Asking
  <2>4. QED
    BY <1>2, <2>2, <2>3
<1>3. QED
  BY <1>1, <1>2

(* The number of threads in a set of them *)
LEMMA ThreadSets == \A T \in SUBSET Threads : IsFiniteSet(T) /\ Cardinality(T) \in Nat /\ Cardinality(T) <= Cardinality(Threads)
  BY MarketAssumption, FS_Subset, FS_CardinalityType

LEMMA TokenSets == \A T \in SUBSET Free : IsFiniteSet(T) /\ Cardinality(T) \in Nat /\ Cardinality(T) <= Cardinality(Free)
  BY MarketNumbers, FS_Subset, FS_CardinalityType

(* A step that counts nothing keeps the account: no answer is added, and   *)
(* no thread chooses a token that is used up.                              *)
LEMMA AccountKept ==
    ASSUME MarketTypeOK, CountInv, gaveUp \subseteq gaveUp', UNCHANGED <<usage, served, overlapped>>,
           \A k \in Free : Unrecorded(k)' = Unrecorded(k),
           \A k \in Free : usage[k] = DailyLimit => Awaiting(k)' \subseteq Awaiting(k)
    PROVE  CountInv'
<1> SUFFICES ASSUME ~overlapped, NEW k \in Free
             PROVE  /\ usage[k] < DailyLimit =>
                           /\ served[k] <= usage[k] + Cardinality(Unrecorded(k))
                           /\ k \in gaveUp' \/ served[k] = usage[k] + Cardinality(Unrecorded(k))
                    /\ usage[k] = DailyLimit =>
                           /\ served[k] + Cardinality(Awaiting(k)') < MaxServed
                           /\ k \in gaveUp' \/ served[k] >= DailyLimit
  BY DEF CountInv
<1>1. usage[k] = DailyLimit => Cardinality(Awaiting(k)') <= Cardinality(Awaiting(k))
  <2>1. Awaiting(k) \in SUBSET Threads
    BY DEF Awaiting
  <2>2. QED
    BY <2>1, ThreadSets, FS_Subset
<1>2. Cardinality(Awaiting(k)) \in Nat /\ Cardinality(Awaiting(k)') \in Nat
  <2>1. Awaiting(k) \in SUBSET Threads /\ Awaiting(k)' \in SUBSET Threads
    BY DEF Awaiting
  <2>2. QED
    BY <2>1, ThreadSets
<1>3. served[k] \in Nat /\ MaxServed \in Nat
  BY MarketNumbers DEF MarketTypeOK
<1>4. QED
  BY <1>1, <1>2, <1>3 DEF CountInv

(* Every action but ClearUsage and WriteUsage leaves the counters alone    *)
(* and moves one thread. The lemmas below say how.                         *)
LEMMA AskEffect ==
    ASSUME MarketTypeOK, NEW p \in Threads, Ask(p) \/ UnknownStock(p)
    PROVE  /\ asker' \in [Threads -> Asking] /\ \A q \in Threads \ {p} : asker'[q] = asker[q]
           /\ asker[p].point \in {"idle", "failed", "asked"}
           /\ asker'[p].point \in {"idle", "date"} /\ asker'[p].attempt = 0 /\ asker'[p].refusals = 0
           /\ UNCHANGED <<day, counterVars, marketHistory>>
<1>1. Idle \in Asking /\ Idle.point = "idle" /\ Idle.attempt = 0 /\ Idle.refusals = 0
  BY MarketNumbers, MarketAssumption DEF Idle, Asking, MaxAttempts
<1>2. \A r \in Asking : LET s == [r EXCEPT !.point = "date"] IN
          s \in Asking /\ s.point = "date" /\ s.attempt = r.attempt /\ s.refusals = r.refusals
  BY DEF Asking
<1>3. CASE Ask(p)
  BY <1>1, <1>2, <1>3, UpdateEffect DEF Ask
<1>4. CASE UnknownStock(p)
  BY <1>1, <1>4, UpdateEffect DEF UnknownStock
<1>5. QED
  BY <1>3, <1>4

LEMMA CompareDateEffect ==
    ASSUME MarketTypeOK, NEW p \in Threads, CompareDate(p)
    PROVE  /\ asker' \in [Threads -> Asking] /\ \A q \in Threads \ {p} : asker'[q] = asker[q]
           /\ asker[p].point = "date" /\ asker'[p].point \in {"stale", "choose"}
           /\ asker'[p].attempt = asker[p].attempt /\ asker'[p].refusals = asker[p].refusals
           /\ asker'[p].paid = asker[p].paid /\ asker'[p].cleared = asker[p].cleared
           /\ UNCHANGED <<day, counterVars, marketHistory>>
<1> DEFINE r == asker[p]
           s == IF usageDate # day THEN [r EXCEPT !.point = "stale", !.today = day]
                ELSE [r EXCEPT !.point = "choose"]
<1>1. r \in Asking /\ day \in 0 .. MaxDays + 1
  BY MarketAssumption DEF MarketTypeOK
<1>2. /\ s \in Asking /\ s.point \in {"stale", "choose"} /\ s.attempt = r.attempt
      /\ s.refusals = r.refusals /\ s.paid = r.paid /\ s.cleared = r.cleared
  <2>1. CASE usageDate # day
    BY <1>1, <2>1 DEF Asking
  <2>2. CASE usageDate = day
    BY <1>1, <2>2 DEF Asking
  <2>3. QED
    BY <2>1, <2>2
<1>3. Update(p, s) /\ r.point = "date" /\ UNCHANGED <<day, counterVars, marketHistory>>
  BY DEF CompareDate
<1> HIDE DEF s
<1>4. QED
  BY <1>2, <1>3, UpdateEffect

LEMMA ChooseEffect ==
    ASSUME MarketTypeOK, NEW p \in Threads, ChooseToken(p)
    PROVE  /\ asker' \in [Threads -> Asking] /\ \A q \in Threads \ {p} : asker'[q] = asker[q]
           /\ asker[p].point = "choose" /\ asker'[p].point = "asked" /\ asker'[p].token = CurrentToken
           /\ asker'[p].attempt = asker[p].attempt /\ asker'[p].refusals = asker[p].refusals
           /\ asker'[p].cleared = asker[p].cleared
           /\ asker'[p].paid <=> (asker[p].paid \/ CurrentToken = Paid)
           /\ UNCHANGED <<day, counterVars, marketHistory>>
<1> DEFINE r == asker[p]
           b == r.paid \/ CurrentToken = Paid
           s == [r EXCEPT !.point = "asked", !.token = CurrentToken, !.paid = b]
<1>1. r \in Asking /\ CurrentToken \in Tokens
  BY CurrentTokenIs, MarketNumbers DEF MarketTypeOK
<1>2. b \in BOOLEAN
  OBVIOUS
<1>3. Update(p, s) /\ r.point = "choose" /\ UNCHANGED <<day, counterVars, marketHistory>>
  BY DEF ChooseToken
<1>4. asker'[p] = s => (asker'[p].paid <=> b)
  <2> HIDE DEF b
  <2>1. s.paid = b
    BY <1>1 DEF Asking
  <2>2. QED
    BY <2>1
<1>5. /\ s \in Asking /\ s.point = "asked" /\ s.token = CurrentToken /\ s.attempt = r.attempt
      /\ s.refusals = r.refusals /\ s.cleared = r.cleared
  <2> HIDE DEF b
  <2>1. QED
    BY <1>1, <1>2 DEF Asking
<1> HIDE DEF s
<1>6. QED
  BY <1>3, <1>4, <1>5, UpdateEffect

LEMMA FailureEffect ==
    ASSUME MarketTypeOK, NEW p \in Threads, NEW m \in 1 .. 2, Failure(p, m)
    PROVE  /\ asker' \in [Threads -> Asking] /\ \A q \in Threads \ {p} : asker'[q] = asker[q]
           /\ asker[p].point = "asked" /\ asker'[p].point = "count" /\ asker'[p].marks = m
           /\ asker'[p].token = asker[p].token /\ asker'[p].attempt = asker[p].attempt
           /\ asker'[p].refusals = asker[p].refusals
           /\ asker'[p].paid = asker[p].paid /\ asker'[p].cleared = asker[p].cleared
<1> DEFINE r == asker[p]
           s == [r EXCEPT !.point = "count", !.marks = m]
<1>1. r \in Asking /\ m \in 0 .. 2
  BY DEF MarketTypeOK
<1>2. /\ s \in Asking /\ s.point = "count" /\ s.marks = m /\ s.token = r.token /\ s.attempt = r.attempt
      /\ s.refusals = r.refusals /\ s.paid = r.paid /\ s.cleared = r.cleared
  BY <1>1 DEF Asking
<1>3. Update(p, s) /\ r.point = "asked"
  BY DEF Failure
<1> HIDE DEF s
<1>4. QED
  BY <1>2, <1>3, UpdateEffect

LEMMA DataEffect ==
    ASSUME MarketTypeOK, NEW p \in Threads, Data(p)
    PROVE  /\ asker' \in [Threads -> Asking] /\ \A q \in Threads \ {p} : asker'[q] = asker[q]
           /\ asker[p].point = "asked" /\ asker'[p].point = "count" /\ asker'[p].marks = 0
           /\ asker'[p].token = asker[p].token /\ asker'[p].attempt = asker[p].attempt
           /\ asker'[p].refusals = asker[p].refusals
           /\ asker'[p].paid = asker[p].paid /\ asker'[p].cleared = asker[p].cleared
<1> DEFINE r == asker[p]
           s == [r EXCEPT !.point = "count", !.marks = 0]
<1>1. r \in Asking /\ 0 \in 0 .. 2
  BY DEF MarketTypeOK
<1>2. /\ s \in Asking /\ s.point = "count" /\ s.marks = 0 /\ s.token = r.token /\ s.attempt = r.attempt
      /\ s.refusals = r.refusals /\ s.paid = r.paid /\ s.cleared = r.cleared
  BY <1>1 DEF Asking
<1>3. Update(p, s) /\ r.point = "asked"
  BY DEF Data
<1> HIDE DEF s
<1>4. QED
  BY <1>2, <1>3, UpdateEffect

(* The numbers of a request *)
LEMMA RequestNumbers ==
    ASSUME MarketTypeOK, NEW p \in Threads
    PROVE  /\ asker[p].attempt \in Nat /\ asker[p].refusals \in 0 .. 2
           /\ asker[p].marks \in 0 .. 2 /\ asker[p].read \in 0 .. DailyLimit
<1>1. MaxAttempts \in Nat
  BY MarketNumbers DEF MaxAttempts
<1>2. QED
  BY <1>1 DEF MarketTypeOK, Asking

LEMMA ForbiddenEffect ==
    ASSUME MarketTypeOK, NEW p \in Threads, Forbidden(p)
    PROVE  /\ asker' \in [Threads -> Asking] /\ \A q \in Threads \ {p} : asker'[q] = asker[q]
           /\ asker[p].point = "asked"
           /\ asker'[p].refusals = IF asker[p].refusals < 2 THEN asker[p].refusals + 1 ELSE 2
           /\ asker'[p].paid = asker[p].paid /\ asker'[p].cleared = asker[p].cleared
           /\ \/ asker'[p].point = "date" /\ asker'[p].attempt = asker[p].attempt + 1
              \/ asker'[p].point = "failed" /\ asker[p].attempt + 1 >= MaxAttempts
           /\ UNCHANGED <<day, counterVars, marketHistory>>
<1> DEFINE r == asker[p]
           n == IF r.refusals < 2 THEN r.refusals + 1 ELSE 2
           s == [r EXCEPT !.refusals = n]
<1>1. r \in Asking
  BY DEF MarketTypeOK
<1>2. n \in 0 .. 2
  BY <1>1 DEF Asking
<1>3. Update(p, Retry(s)) /\ r.point = "asked" /\ UNCHANGED <<day, counterVars, marketHistory>>
  BY DEF Forbidden
<1> HIDE DEF n
<1>4. /\ s \in Asking /\ s.refusals = n /\ s.attempt = r.attempt
      /\ s.paid = r.paid /\ s.cleared = r.cleared
  BY <1>1, <1>2 DEF Asking
<1> HIDE DEF s
<1>5. QED
  BY <1>3, <1>4, UpdateEffect, RetryIs DEF n

LEMMA ReadEffect ==
    ASSUME MarketTypeOK, NEW p \in Threads, ReadUsage(p)
    PROVE  /\ asker' \in [Threads -> Asking] /\ \A q \in Threads \ {p} : asker'[q] = asker[q]
           /\ asker[p].point = "count" /\ asker'[p].point = "write"
           /\ asker'[p].token = asker[p].token /\ asker'[p].attempt = asker[p].attempt
           /\ asker'[p].refusals = asker[p].refusals /\ asker'[p].marks = asker[p].marks
           /\ asker'[p].paid = asker[p].paid /\ asker'[p].cleared = asker[p].cleared
           /\ UNCHANGED <<day, counterVars, marketHistory>>
<1> DEFINE r == asker[p]
           c == CountOf(r.token)
           s == [r EXCEPT !.point = "write", !.read = c]
<1>1. r \in Asking
  BY DEF MarketTypeOK
<1>2. c \in 0 .. DailyLimit
  BY MarketNumbers DEF CountOf, MarketTypeOK
<1>3. Update(p, s) /\ r.point = "count" /\ UNCHANGED <<day, counterVars, marketHistory>>
  BY DEF ReadUsage
<1> HIDE DEF c
<1>4. /\ s \in Asking /\ s.point = "write" /\ s.token = r.token /\ s.attempt = r.attempt
      /\ s.refusals = r.refusals /\ s.marks = r.marks /\ s.paid = r.paid /\ s.cleared = r.cleared
  BY <1>1, <1>2 DEF Asking
<1> HIDE DEF s
<1>5. QED
  BY <1>3, <1>4, UpdateEffect

(* The counter after a write is the one read, plus one or up to the limit *)
LEMMA CountedIs ==
    ASSUME NEW n \in 0 .. DailyLimit, NEW m \in 0 .. 2
    PROVE  /\ Counted(n, m) \in 0 .. DailyLimit /\ Counted(n, m) >= n
           /\ m > 0 => Counted(n, m) = DailyLimit
           /\ m = 0 => Counted(n, m) = IF n < DailyLimit THEN n + 1 ELSE DailyLimit
  BY MarketNumbers DEF Counted

LEMMA WriteEffect ==
    ASSUME MarketTypeOK, NEW p \in Threads, WriteUsage(p)
    PROVE  /\ asker' \in [Threads -> Asking] /\ \A q \in Threads \ {p} : asker'[q] = asker[q]
           /\ asker[p].point = "write"
           /\ asker[p].marks = 0 => asker'[p].point = "idle"
           /\ asker[p].marks = 1 =>
                  \/ asker'[p].point = "date" /\ asker'[p].attempt = asker[p].attempt + 1
                  \/ asker'[p].point = "failed" /\ asker[p].attempt + 1 >= MaxAttempts
           /\ asker[p].marks = 2 =>
                  /\ asker'[p].point = "count" /\ asker'[p].marks = 1
                  /\ asker'[p].token = asker[p].token /\ asker'[p].attempt = asker[p].attempt
           /\ asker[p].marks > 0 =>
                  /\ asker'[p].refusals = asker[p].refusals
                  /\ asker'[p].paid = asker[p].paid /\ asker'[p].cleared = asker[p].cleared
<1> DEFINE r == asker[p]
<1>1. r \in Asking /\ r.marks \in 0 .. 2
  BY DEF MarketTypeOK, Asking
<1>2. r.point = "write"
  BY DEF WriteUsage
<1>3. CASE r.marks = 0
  <2>1. Update(p, Idle)
    BY <1>3 DEF WriteUsage
  <2>2. Idle \in Asking /\ Idle.point = "idle"
    BY MarketNumbers, MarketAssumption DEF Idle, Asking, MaxAttempts
  <2>3. QED
    BY <1>2, <1>3, <2>1, <2>2, UpdateEffect
<1>4. CASE r.marks = 1
  <2> DEFINE s == [r EXCEPT !.marks = 0, !.read = 0]
  <2>1. Update(p, Retry(s))
    BY <1>4 DEF WriteUsage
  <2>2. /\ s \in Asking /\ s.attempt = r.attempt /\ s.refusals = r.refusals
        /\ s.paid = r.paid /\ s.cleared = r.cleared
    <3>1. 0 \in 0 .. DailyLimit /\ 0 \in 0 .. 2 /\ 1 \in 0 .. 2
      BY MarketNumbers
    <3>2. s \in Asking
      <4>1. \A t \in Asking, a \in 0 .. 2, b \in 0 .. DailyLimit : [t EXCEPT !.marks = a, !.read = b] \in Asking
        BY DEF Asking
      <4>2. QED
        BY <1>1, <3>1, <4>1
    <3>3. s.attempt = r.attempt /\ s.refusals = r.refusals /\ s.paid = r.paid /\ s.cleared = r.cleared
      BY <1>1 DEF Asking
    <3>4. QED
      BY <3>2, <3>3
  <2> HIDE DEF s
  <2>3. QED
    BY <1>2, <1>4, <2>1, <2>2, UpdateEffect, RetryIs
<1>5. CASE r.marks = 2
  <2> DEFINE s == [r EXCEPT !.point = "count", !.marks = 1, !.read = 0]
  <2>1. Update(p, s)
    BY <1>5 DEF WriteUsage
  <2>2. /\ s \in Asking /\ s.point = "count" /\ s.marks = 1 /\ s.token = r.token /\ s.attempt = r.attempt
        /\ s.refusals = r.refusals /\ s.paid = r.paid /\ s.cleared = r.cleared
    <3>1. 0 \in 0 .. DailyLimit /\ 0 \in 0 .. 2 /\ 1 \in 0 .. 2
      BY MarketNumbers
    <3>2. s \in Asking
      <4>1. \A t \in Asking, a \in 0 .. 2, b \in 0 .. DailyLimit :
                [t EXCEPT !.point = "count", !.marks = a, !.read = b] \in Asking
        BY DEF Asking
      <4>2. QED
        BY <1>1, <3>1, <4>1
    <3>3. /\ s.point = "count" /\ s.marks = 1 /\ s.token = r.token /\ s.attempt = r.attempt
          /\ s.refusals = r.refusals /\ s.paid = r.paid /\ s.cleared = r.cleared
      BY <1>1 DEF Asking
    <3>4. QED
      BY <3>2, <3>3
  <2> HIDE DEF s
  <2>3. QED
    BY <1>2, <1>5, <2>1, <2>2, UpdateEffect
<1>6. QED
  BY <1>1, <1>3, <1>4, <1>5

LEMMA ClearEffect ==
    ASSUME MarketTypeOK, NEW p \in Threads, ClearUsage(p)
    PROVE  /\ asker' \in [Threads -> Asking] /\ asker[p].point = "stale" /\ asker'[p].point = "choose"
           /\ asker[p].today \in 0 .. MaxDays + 1
           /\ \A q \in Threads : /\ q # p => asker'[q].point = asker[q].point
                                 /\ asker'[q].token = asker[q].token /\ asker'[q].marks = asker[q].marks
                                 /\ asker'[q].attempt = asker[q].attempt
                                 /\ asker'[q].refusals = asker[q].refusals
                                 /\ asker'[q].paid = asker[q].paid
                                 /\ asker'[q].cleared <=> \/ asker[q].cleared \/ asker[q].attempt > 0
                                                          \/ asker[q].point \in InUse
<1> DEFINE onTask(q) == asker[q].attempt > 0 \/ asker[q].point \in InUse
           c(q) == asker[q].cleared \/ onTask(q)
           r(q) == [asker[q] EXCEPT !.cleared = c(q)]
           s(q) == IF q = p THEN [r(q) EXCEPT !.point = "choose", !.today = 0] ELSE r(q)
<1>1. \A q \in Threads : asker[q] \in Asking /\ c(q) \in BOOLEAN
  BY DEF MarketTypeOK
<1>2. asker' = [q \in Threads |-> s(q)] /\ asker[p].point = "stale"
  BY DEF ClearUsage
<1>3. \A q \in Threads : c(q) <=> \/ asker[q].cleared \/ asker[q].attempt > 0
                                  \/ asker[q].point \in InUse
  OBVIOUS
<1> HIDE DEF c
<1>4. ASSUME NEW q \in Threads
      PROVE  /\ r(q) \in Asking /\ r(q).point = asker[q].point /\ r(q).cleared = c(q)
             /\ r(q).token = asker[q].token /\ r(q).marks = asker[q].marks /\ r(q).attempt = asker[q].attempt
             /\ r(q).refusals = asker[q].refusals /\ r(q).paid = asker[q].paid
  BY <1>1 DEF Asking
<1> HIDE DEF r
<1>5. ASSUME NEW q \in Threads
      PROVE  /\ s(q) \in Asking /\ s(q).point = IF q = p THEN "choose" ELSE asker[q].point
             /\ s(q).cleared = c(q)
             /\ s(q).token = asker[q].token /\ s(q).marks = asker[q].marks /\ s(q).attempt = asker[q].attempt
             /\ s(q).refusals = asker[q].refusals /\ s(q).paid = asker[q].paid
  <2>1. CASE q = p
    <3>1. 0 \in 0 .. MaxDays + 1
      BY MarketAssumption
    <3>2. s(q) = [r(q) EXCEPT !.point = "choose", !.today = 0]
      BY <2>1
    <3>3. QED
      BY <1>4, <2>1, <3>1, <3>2 DEF Asking
  <2>2. CASE q # p
    BY <1>4, <2>2
  <2>3. QED
    BY <2>1, <2>2
<1> HIDE DEF s
<1>6. asker' \in [Threads -> Asking] /\ \A q \in Threads : asker'[q] = s(q)
  BY <1>2, <1>5
<1>7. asker[p].today \in 0 .. MaxDays + 1
  BY <1>1 DEF Asking
<1>8. QED
  BY <1>2, <1>3, <1>5, <1>6, <1>7

(* The types after a step, from those of the threads *)
LEMMA MarketTypeStep ==
    ASSUME MarketTypeOK, asker' \in [Threads -> Asking], UNCHANGED <<day, counterVars, served, overlapped>>,
           gaveUp' \subseteq Free
    PROVE  MarketTypeOK'
  BY DEF MarketTypeOK, counterVars

(* A token in use is counted once, whichever other tokens are used up *)
LEMMA OneMore ==
    ASSUME NEW S \in SUBSET Free, NEW k \in Free
    PROVE  /\ Cardinality(S \ {k}) <= Cardinality(S)
           /\ Cardinality(S \cup {k}) = Cardinality(S \ {k}) + 1
           /\ k \notin S => S \ {k} = S
<1>1. IsFiniteSet(S) /\ Cardinality(S) \in Nat
  BY TokenSets
<1>2. IsFiniteSet(S \ {k}) /\ Cardinality(S \ {k}) = IF k \in S THEN Cardinality(S) - 1 ELSE Cardinality(S)
  BY <1>1, FS_RemoveElement
<1>3. Cardinality((S \ {k}) \cup {k}) = Cardinality(S \ {k}) + 1
  BY <1>2, FS_AddElement
<1>4. (S \ {k}) \cup {k} = S \cup {k}
  OBVIOUS
<1>5. QED
  BY <1>1, <1>2, <1>3, <1>4

(* A request that moves while the counters stay keeps the account of its   *)
(* attempts if its own part of it holds.                                   *)
LEMMA AttemptsKept ==
    ASSUME AttemptInv, NEW p \in Threads, UNCHANGED <<usage, overlapped>>,
           \A q \in Threads \ {p} : asker'[q] = asker[q],
           overlapped \/ Accounted(asker'[p])
    PROVE  AttemptInv'
<1>1. UsedUp' = UsedUp
  BY DEF UsedUp
<1>2. \A q \in Threads : Accounted(asker[q])' <=> Accounted(asker'[q])
  BY <1>1 DEF Accounted
<1>3. QED
  BY <1>2 DEF AttemptInv

(* The attempts suffice: a request that is out of attempts is excused *)
LEMMA AttemptsSuffice ==
    ASSUME NEW S \in SUBSET Free, NEW a \in Nat, NEW n \in 0 .. 1, a <= Cardinality(S) + n, a >= MaxAttempts
    PROVE  FALSE
<1>1. Cardinality(S) \in Nat /\ Cardinality(S) <= Cardinality(Free) /\ Cardinality(Free) \in Nat
  BY TokenSets
<1>2. QED
  BY <1>1, MarketNumbers DEF MaxAttempts

(* Waiting for an answer and having one to record exclude each other *)
LEMMA AskingSets ==
    ASSUME NEW k \in Free
    PROVE  /\ IsFiniteSet(Awaiting(k)) /\ IsFiniteSet(Unrecorded(k))
           /\ Cardinality(Awaiting(k)) \in Nat /\ Cardinality(Unrecorded(k)) \in Nat
           /\ Cardinality(Awaiting(k)) + Cardinality(Unrecorded(k)) <= Cardinality(Threads)
<1>1. Awaiting(k) \in SUBSET Threads /\ Unrecorded(k) \in SUBSET Threads /\ Awaiting(k) \cap Unrecorded(k) = {}
  BY DEF Awaiting, Unrecorded
<1>2. Awaiting(k) \cup Unrecorded(k) \in SUBSET Threads
  BY <1>1
<1>3. /\ IsFiniteSet(Awaiting(k)) /\ IsFiniteSet(Unrecorded(k))
      /\ Cardinality(Awaiting(k)) \in Nat /\ Cardinality(Unrecorded(k)) \in Nat
  BY <1>1, ThreadSets
<1>4. Cardinality(Awaiting(k) \cup Unrecorded(k)) = Cardinality(Awaiting(k)) + Cardinality(Unrecorded(k))
  <2>1. Cardinality(Awaiting(k) \cap Unrecorded(k)) = 0
    BY <1>1, FS_EmptySet
  <2>2. Cardinality(Awaiting(k) \cup Unrecorded(k)) =
            Cardinality(Awaiting(k)) + Cardinality(Unrecorded(k)) - Cardinality(Awaiting(k) \cap Unrecorded(k))
    BY <1>3, FS_Union
  <2>3. QED
    BY <1>3, <2>1, <2>2
<1>5. QED
  BY <1>2, <1>3, <1>4, ThreadSets

(* What the account promises of a token: the numbers behind QuotaKept *)
LEMMA QuotaLeft ==
    ASSUME MarketTypeOK, CountInv, ~overlapped, NEW k \in Free
    PROVE  /\ served[k] \in Nat /\ usage[k] \in 0 .. DailyLimit
           /\ served[k] + Cardinality(Awaiting(k)) < MaxServed
<1>1. served[k] \in Nat /\ usage[k] \in 0 .. DailyLimit
  BY MarketNumbers DEF MarketTypeOK
<1>2. CASE usage[k] = DailyLimit
  BY <1>1, <1>2 DEF CountInv
<1>3. CASE usage[k] < DailyLimit
  <2>1. served[k] <= usage[k] + Cardinality(Unrecorded(k))
    BY <1>3 DEF CountInv
  <2>2. MaxServed = DailyLimit + Cardinality(Threads) /\ DailyLimit \in Nat /\ Cardinality(Threads) \in Nat
    BY MarketNumbers DEF MaxServed
  <2>3. QED
    BY <1>1, <1>3, <2>1, <2>2, AskingSets
<1>4. QED
  BY <1>1, <1>2, <1>3, MarketNumbers

(* An answer with data adds to what was served and is to be recorded *)
LEMMA DataKeepsCount == ASSUME MarketTypeOK, CountInv, NEW p \in Threads, Data(p) PROVE CountInv'
<1> DEFINE t == asker[p].token
<1>1. /\ \A q \in Threads \ {p} : asker'[q] = asker[q]
      /\ asker[p].point = "asked" /\ asker'[p].point = "count" /\ asker'[p].marks = 0 /\ asker'[p].token = t
  BY DataEffect
<1>2. UNCHANGED <<usage, gaveUp, overlapped>>
  BY DEF Data, counterVars
<1> SUFFICES ASSUME ~overlapped, NEW k \in Free
             PROVE  /\ usage[k] < DailyLimit =>
                           /\ served'[k] <= usage[k] + Cardinality(Unrecorded(k)')
                           /\ k \in gaveUp \/ served'[k] = usage[k] + Cardinality(Unrecorded(k)')
                    /\ usage[k] = DailyLimit =>
                           /\ served'[k] + Cardinality(Awaiting(k)') < MaxServed
                           /\ k \in gaveUp \/ served'[k] >= DailyLimit
  BY <1>2 DEF CountInv
<1>3. CASE k # t
  <2>1. Unrecorded(k)' = Unrecorded(k) /\ Awaiting(k)' = Awaiting(k)
    BY <1>1, <1>3 DEF Unrecorded, Awaiting
  <2>2. served'[k] = served[k]
    BY <1>3 DEF Data
  <2>3. QED
    BY <2>1, <2>2 DEF CountInv
<1>4. CASE k = t
  <2>1. Unrecorded(k)' = Unrecorded(k) \cup {p} /\ p \notin Unrecorded(k)
    BY <1>1, <1>4 DEF Unrecorded
  <2>2. Awaiting(k)' = Awaiting(k) \ {p} /\ p \in Awaiting(k)
    BY <1>1, <1>4 DEF Awaiting
  <2>3. Cardinality(Unrecorded(k)') = Cardinality(Unrecorded(k)) + 1
    BY <2>1, AskingSets, FS_AddElement
  <2>4. Cardinality(Awaiting(k)') = Cardinality(Awaiting(k)) - 1
    BY <2>2, AskingSets, FS_RemoveElement
  <2>5. served'[k] = served[k] + 1
    BY <1>4, QuotaLeft, AskingSets, MarketNumbers DEF Data
  <2>6. QED
    <3>1. /\ usage[k] < DailyLimit =>
                 /\ served[k] <= usage[k] + Cardinality(Unrecorded(k))
                 /\ k \in gaveUp \/ served[k] = usage[k] + Cardinality(Unrecorded(k))
          /\ usage[k] = DailyLimit => k \in gaveUp \/ served[k] >= DailyLimit
      BY DEF CountInv
    <3>2. /\ served[k] \in Nat /\ usage[k] \in Nat /\ DailyLimit \in Nat /\ MaxServed \in Nat
          /\ Cardinality(Unrecorded(k)) \in Nat /\ Cardinality(Awaiting(k)) \in Nat
          /\ served[k] + Cardinality(Awaiting(k)) < MaxServed
      BY QuotaLeft, AskingSets, MarketNumbers
    <3>3. QED
      BY <2>3, <2>4, <2>5, <3>1, <3>2
<1>5. QED
  BY <1>3, <1>4

(* A use or a mark that is written brings the counter up to date *)
LEMMA WriteKeepsCount ==
    ASSUME MarketTypeOK, MarkInv, CountInv, NEW p \in Threads, WriteUsage(p) PROVE CountInv'
<1> DEFINE t == asker[p].token
           m == asker[p].marks
<1>1. /\ \A q \in Threads \ {p} : asker'[q] = asker[q]
      /\ asker[p].point = "write" /\ m = 0 => asker'[p].point = "idle"
      /\ asker'[p].point \in {"idle", "date", "failed", "count"}
      /\ m > 0 => asker'[p].point # "count" \/ asker'[p].marks > 0
  BY WriteEffect DEF MarketTypeOK, Asking
<1>2. UNCHANGED <<served, gaveUp>> /\ asker[p].point = "write" /\ m \in 0 .. 2
  BY DEF WriteUsage, MarketTypeOK, Asking
<1> SUFFICES ASSUME ~overlapped', NEW k \in Free
             PROVE  /\ usage'[k] < DailyLimit =>
                           /\ served[k] <= usage'[k] + Cardinality(Unrecorded(k)')
                           /\ k \in gaveUp \/ served[k] = usage'[k] + Cardinality(Unrecorded(k)')
                    /\ usage'[k] = DailyLimit =>
                           /\ served[k] + Cardinality(Awaiting(k)') < MaxServed
                           /\ k \in gaveUp \/ served[k] >= DailyLimit
  BY <1>2 DEF CountInv
<1>3. ~overlapped /\ CountOf(t) = asker[p].read
  BY DEF WriteUsage
<1>4. Awaiting(k)' = Awaiting(k)
  BY <1>1, <1>2 DEF Awaiting
<1>5. CASE k # t
  <2>1. Unrecorded(k)' = Unrecorded(k)
    BY <1>1, <1>2, <1>5, WriteEffect DEF Unrecorded
  <2>2. usage'[k] = usage[k]
    BY <1>5 DEF WriteUsage
  <2>3. QED
    BY <1>3, <1>4, <2>1, <2>2 DEF CountInv
<1>6. CASE k = t
  <2>1. usage'[k] = Counted(usage[k], m)
    BY <1>3, <1>6 DEF WriteUsage, CountOf
  <2>2. CASE m = 0
    <3>1. Unrecorded(k)' = Unrecorded(k) \ {p} /\ p \in Unrecorded(k)
      BY <1>1, <1>2, <1>6, <2>2 DEF Unrecorded
    <3>2. Cardinality(Unrecorded(k)') = Cardinality(Unrecorded(k)) - 1 /\ Cardinality(Unrecorded(k)) > 0
      BY <3>1, AskingSets, FS_RemoveElement, FS_EmptySet
    <3>3. usage'[k] = IF usage[k] < DailyLimit THEN usage[k] + 1 ELSE DailyLimit
      BY <1>3, <2>1, <2>2, QuotaLeft, CountedIs
    <3>4. QED
      <4>1. /\ usage[k] < DailyLimit =>
                   /\ served[k] <= usage[k] + Cardinality(Unrecorded(k))
                   /\ k \in gaveUp \/ served[k] = usage[k] + Cardinality(Unrecorded(k))
            /\ usage[k] = DailyLimit => k \in gaveUp \/ served[k] >= DailyLimit
        BY <1>3 DEF CountInv
      <4>2. /\ served[k] \in Nat /\ usage[k] \in 0 .. DailyLimit /\ DailyLimit \in Nat
            /\ Cardinality(Unrecorded(k)) \in Nat
            /\ served[k] + Cardinality(Awaiting(k)) < MaxServed
        BY <1>3, QuotaLeft, AskingSets, MarketNumbers
      <4>3. QED
        BY <1>4, <3>2, <3>3, <4>1, <4>2
  <2>3. CASE m > 0
    <3>1. usage'[k] = DailyLimit
      BY <1>2, <1>3, <2>1, <2>3, QuotaLeft, CountedIs
    <3>2. k \in gaveUp
      BY <1>2, <1>3, <1>6, <2>3 DEF MarkInv
    <3>3. QED
      BY <1>3, <1>4, <3>1, <3>2, QuotaLeft, MarketNumbers
  <2>4. QED
    BY <1>2, <2>2, <2>3
<1>7. QED
  BY <1>5, <1>6

(* A token that is marked is used up, and none is taken back *)
LEMMA WriteKeepsAttempts ==
    ASSUME MarketTypeOK, AttemptInv, NEW p \in Threads, WriteUsage(p) PROVE AttemptInv'
<1> DEFINE t == asker[p].token
           m == asker[p].marks
<1> SUFFICES ASSUME ~overlapped' PROVE \A q \in Threads : Accounted(asker[q])'
  BY DEF AttemptInv
<1>1. /\ ~overlapped /\ CountOf(t) = asker[p].read /\ asker[p].point = "write"
      /\ m \in 0 .. 2 /\ asker[p].attempt \in Nat /\ asker[p].refusals \in 0 .. 2
  BY RequestNumbers DEF WriteUsage
<1>2. \A k \in Free : /\ usage[k] \in 0 .. DailyLimit
                      /\ usage'[k] = IF k = t THEN Counted(usage[k], m) ELSE usage[k]
  BY <1>1 DEF WriteUsage, CountOf, MarketTypeOK
<1>3. /\ UsedUp \in SUBSET Free /\ UsedUp' \in SUBSET Free /\ UsedUp \subseteq UsedUp'
      /\ m > 0 /\ t \in Free => t \in UsedUp'
  <2>1. \A k \in Free : usage[k] = DailyLimit => usage'[k] = DailyLimit
    <3>1. \A k \in Free : Counted(usage[k], m) \in 0 .. DailyLimit /\ Counted(usage[k], m) >= usage[k]
      BY <1>1, <1>2, CountedIs
    <3>2. QED
      BY <1>2, <3>1, MarketNumbers
  <2>2. m > 0 /\ t \in Free => usage'[t] = DailyLimit
    BY <1>1, <1>2, CountedIs
  <2>3. QED
    BY <2>1, <2>2 DEF UsedUp
<1>4. \A s : Cardinality(UsedUp \ {s}) <= Cardinality(UsedUp' \ {s}) /\ Cardinality(UsedUp \ {s}) \in Nat
  <2> SUFFICES ASSUME NEW s
               PROVE  Cardinality(UsedUp \ {s}) <= Cardinality(UsedUp' \ {s}) /\ Cardinality(UsedUp \ {s}) \in Nat
    OBVIOUS
  <2>1. UsedUp \ {s} \in SUBSET (UsedUp' \ {s}) /\ UsedUp' \ {s} \in SUBSET Free
    BY <1>3
  <2>2. IsFiniteSet(UsedUp' \ {s})
    BY <2>1, TokenSets
  <2>3. Cardinality(UsedUp \ {s}) <= Cardinality(UsedUp' \ {s})
    BY <2>1, <2>2, FS_Subset
  <2>4. UsedUp \ {s} \in SUBSET Free
    BY <1>3
  <2>5. QED
    BY <2>3, <2>4, TokenSets
<1>5. Cardinality(UsedUp) <= Cardinality(UsedUp') /\ Cardinality(UsedUp) \in Nat /\ Cardinality(UsedUp') \in Nat
  <2>1. IsFiniteSet(UsedUp')
    BY <1>3, TokenSets
  <2>2. QED
    BY <1>3, <2>1, TokenSets, FS_Subset
<1>6. ASSUME NEW q \in Threads \ {p} PROVE Accounted(asker[q])'
  <2>1. asker'[q] = asker[q] /\ asker[q].attempt \in Nat /\ asker[q].refusals \in Nat
    BY WriteEffect, RequestNumbers
  <2>2. Accounted(asker[q])
    BY <1>1 DEF AttemptInv
  <2>3. Cardinality(UsedUp' \ {asker[q].token}) \in Nat
    <3>1. UsedUp' \ {asker[q].token} \in SUBSET Free
      BY <1>3
    <3>2. QED
      BY <3>1, TokenSets
  <2>4. QED
    <3>1. CASE Excused(asker[q])
      BY <2>1, <3>1 DEF Accounted, Excused
    <3>2. CASE ~Excused(asker[q])
      <4>1. Cardinality(UsedUp \ {asker[q].token}) <= Cardinality(UsedUp' \ {asker[q].token})
        BY <1>4
      <4>2. Cardinality(UsedUp \ {asker[q].token}) \in Nat
        BY <1>4
      <4>3. QED
        BY <1>5, <2>1, <2>2, <2>3, <3>2, <4>1, <4>2 DEF Accounted
    <3>3. QED
      BY <3>1, <3>2
<1>7. Accounted(asker[p])'
  <2>1. CASE m = 0
    BY <2>1, WriteEffect DEF Accounted, InUse
  <2>2. CASE m > 0 /\ Excused(asker[p])
    BY <2>2, WriteEffect DEF Accounted, Excused
  <2>3. CASE m > 0 /\ ~Excused(asker[p])
    <3>1. t \in Free /\ asker[p].attempt <= Cardinality(UsedUp \ {t}) + asker[p].refusals
      BY <1>1, <2>3 DEF AttemptInv, Accounted, InUse
    <3>2. asker[p].refusals \in 0 .. 1 /\ asker'[p].refusals = asker[p].refusals
      BY <1>1, <2>3, WriteEffect DEF Excused
    <3>3. asker[p].attempt <= Cardinality(UsedUp' \ {t}) + asker[p].refusals
      <4>1. UsedUp' \ {t} \in SUBSET Free
        BY <1>3
      <4>2. Cardinality(UsedUp' \ {t}) \in Nat
        BY <4>1, TokenSets
      <4>3. Cardinality(UsedUp \ {t}) <= Cardinality(UsedUp' \ {t}) /\ Cardinality(UsedUp \ {t}) \in Nat
        BY <1>4
      <4>4. QED
        BY <1>1, <3>1, <3>2, <4>2, <4>3
    <3>4. UsedUp' \cup {t} = UsedUp' /\ Cardinality(UsedUp' \cup {t}) = Cardinality(UsedUp' \ {t}) + 1
      BY <1>3, <2>3, <3>1, OneMore
    <3>5. asker[p].attempt + 1 <= Cardinality(UsedUp') + asker[p].refusals
      <4>1. Cardinality(UsedUp' \ {t}) \in Nat
        BY <1>3, TokenSets
      <4>2. QED
        <5>1. Cardinality(UsedUp') = Cardinality(UsedUp' \ {t}) + 1
          BY <3>4
        <5>2. QED
          BY <1>1, <3>2, <3>3, <4>1, <5>1
    <3>6. CASE m = 1
      <4>1. asker'[p].point = "date" /\ asker'[p].attempt = asker[p].attempt + 1
        BY <1>1, <1>3, <3>2, <3>5, <3>6, AttemptsSuffice, WriteEffect
      <4>2. QED
        BY <3>2, <3>5, <4>1 DEF Accounted, InUse
    <3>7. CASE m = 2
      BY <3>1, <3>2, <3>3, <3>7, WriteEffect DEF Accounted, InUse
    <3>8. QED
      BY <1>1, <2>3, <3>6, <3>7
  <2>4. QED
    BY <1>1, <2>1, <2>2, <2>3
<1>8. QED
  BY <1>6, <1>7

(* Every action keeps the invariant *)
LEMMA TokenStep == TokenInv /\ [MarketNext]_marketVars => TokenInv'
<1> SUFFICES ASSUME TokenInv, [MarketNext]_marketVars PROVE TokenInv'
  OBVIOUS
<1> USE DEF TokenInv
<1>0. UsedUp \in SUBSET Free /\ Cardinality(UsedUp) \in Nat
  BY TokenSets DEF UsedUp
<1>1. ASSUME NEW p \in Threads, Ask(p) \/ UnknownStock(p) PROVE TokenInv'
  <2> USE <1>1, AskEffect
  <2>1. MarketTypeOK' /\ MarkInv'
    BY MarketTypeStep DEF marketHistory, MarkInv, MarketTypeOK
  <2>2. CountInv'
    BY AccountKept DEF Awaiting, Unrecorded, counterVars, marketHistory
  <2>3. AttemptInv'
    <3>1. Accounted(asker'[p])
      BY <1>0 DEF Accounted, InUse
    <3>2. QED
      BY <3>1, AttemptsKept DEF counterVars, marketHistory
  <2>4. QED
    BY <2>1, <2>2, <2>3
<1>2. ASSUME NEW p \in Threads, CompareDate(p) PROVE TokenInv'
  <2> USE <1>2, CompareDateEffect
  <2>1. MarketTypeOK' /\ MarkInv'
    BY MarketTypeStep DEF marketHistory, MarkInv, MarketTypeOK
  <2>2. CountInv'
    BY AccountKept DEF Awaiting, Unrecorded, counterVars, marketHistory
  <2>3. AttemptInv'
    <3>1. overlapped \/ Accounted(asker'[p])
      BY DEF AttemptInv, Accounted, Excused, InUse
    <3>2. QED
      BY <3>1, AttemptsKept DEF counterVars, marketHistory
  <2>4. QED
    BY <2>1, <2>2, <2>3
<1>3. ASSUME NEW p \in Threads, ClearUsage(p) PROVE TokenInv'
  <2> USE <1>3, ClearEffect
  <2>1. MarketTypeOK'
    <3>1. usage' \in [Free -> 0 .. DailyLimit] /\ served' \in [Free -> 0 .. MaxServed] /\ gaveUp' \subseteq Free
      <4>1. \A k \in Free : 0 \in 0 .. DailyLimit /\ 0 \in 0 .. MaxServed
        BY MarketNumbers
      <4>2. QED
        BY <4>1 DEF ClearUsage
    <3>2. usageDate' \in 0 .. MaxDays + 1 /\ day' = day
      BY DEF ClearUsage
    <3>3. overlapped' \in BOOLEAN
      BY DEF ClearUsage
    <3>4. QED
      BY <3>1, <3>2, <3>3 DEF MarketTypeOK
  <2>2. CASE overlapped'
    BY <2>1, <2>2 DEF MarkInv, CountInv, AttemptInv
  <2>3. CASE ~overlapped'
    <3>1. \A q \in Threads : asker[q].point \notin {"count", "write"}
      BY <2>3 DEF ClearUsage
    <3>2. \A q \in Threads : asker'[q].point \notin {"count", "write"}
      BY <3>1
    <3>3. MarkInv'
      BY <3>2 DEF MarkInv
    <3>4. CountInv'
      <4>1. \A k \in Free : usage'[k] = 0 /\ served'[k] = 0
        BY DEF ClearUsage
      <4>2. \A k \in Free : Unrecorded(k)' = {}
        BY <3>2 DEF Unrecorded
      <4>3. \A k \in Free : Cardinality(Unrecorded(k)') = 0
        BY <4>2, FS_EmptySet
      <4>4. QED
        BY <4>1, <4>3, MarketNumbers DEF CountInv
    <3>5. AttemptInv'
      <4>1. ASSUME NEW q \in Threads, ~Excused(asker'[q])
            PROVE  asker'[q].attempt = 0 /\ asker[q].point \notin InUse /\ ~Excused(asker[q])
        BY <4>1 DEF Excused, Asking, MarketTypeOK
      <4>2. UsedUp' \in SUBSET Free /\ Cardinality(UsedUp') \in Nat
        BY TokenSets DEF UsedUp
      <4>3. \A q \in Threads : asker'[q].refusals \in Nat
        BY DEF Asking
      <4>4. ~overlapped
        BY <2>3 DEF ClearUsage
      <4>5. ASSUME NEW q \in Threads PROVE Accounted(asker[q])'
        <5>1. CASE Excused(asker'[q])
          BY <5>1 DEF Accounted, Excused
        <5>2. CASE ~Excused(asker'[q])
          <6>1. asker[q].point # "failed"
            BY <4>1, <4>4, <5>2 DEF AttemptInv, Accounted
          <6>2. asker'[q].point \notin InUse /\ asker'[q].point # "failed"
            BY <4>1, <5>2, <6>1 DEF InUse
          <6>3. QED
            BY <4>1, <4>2, <4>3, <5>2, <6>2 DEF Accounted
        <5>3. QED
          BY <5>1, <5>2
      <4>6. QED
        BY <4>5 DEF AttemptInv
    <3>6. QED
      BY <2>1, <3>3, <3>4, <3>5
  <2>4. QED
    BY <2>2, <2>3
<1>4. ASSUME NEW p \in Threads, ChooseToken(p) PROVE TokenInv'
  <2> USE <1>4, ChooseEffect
  <2>1. MarketTypeOK' /\ MarkInv'
    BY MarketTypeStep DEF marketHistory, MarkInv, MarketTypeOK
  <2>2. CountInv'
    <3>1. \A k \in Free : Unrecorded(k)' = Unrecorded(k)
      BY DEF Unrecorded
    <3>2. \A k \in Free : usage[k] = DailyLimit => k # CurrentToken
      BY CurrentTokenIs, MarketNumbers DEF MarketTypeOK
    <3>3. \A k \in Free : usage[k] = DailyLimit => Awaiting(k)' \subseteq Awaiting(k)
      BY <3>2 DEF Awaiting
    <3>4. QED
      BY <3>1, <3>3, AccountKept DEF counterVars, marketHistory
  <2>3. AttemptInv'
    <3>1. CASE CurrentToken = Paid
      <4>1. Accounted(asker'[p])
        BY <3>1 DEF Accounted, Excused
      <4>2. QED
        BY <4>1, AttemptsKept DEF counterVars, marketHistory
    <3>2. CASE CurrentToken # Paid
      <4>1. CurrentToken \in Free /\ CurrentToken \notin UsedUp
        BY <3>2, CurrentTokenIs, MarketNumbers DEF UsedUp, MarketTypeOK
      <4>2. UsedUp \ {CurrentToken} = UsedUp
        BY <4>1
      <4>3. overlapped \/ Accounted(asker'[p])
        BY <3>2, <4>1, <4>2 DEF AttemptInv, Accounted, Excused, InUse
      <4>4. QED
        BY <4>3, AttemptsKept DEF counterVars, marketHistory
    <3>3. QED
      BY <3>1, <3>2
  <2>4. QED
    BY <2>1, <2>2, <2>3
<1>5. ASSUME NEW p \in Threads, Forbidden(p) PROVE TokenInv'
  <2> USE <1>5, ForbiddenEffect
  <2>1. MarketTypeOK' /\ MarkInv'
    BY MarketTypeStep DEF marketHistory, MarkInv, MarketTypeOK
  <2>2. CountInv'
    BY AccountKept DEF Awaiting, Unrecorded, counterVars, marketHistory
  <2>3. AttemptInv'
    <3>1. CASE overlapped \/ Excused(asker'[p])
      BY <3>1, AttemptsKept DEF Accounted, counterVars, marketHistory
    <3>2. CASE ~overlapped /\ ~Excused(asker'[p])
      <4>0. asker[p].refusals \in 0 .. 2 /\ asker[p].attempt \in Nat
        BY MarketNumbers DEF MarketTypeOK, Asking, MaxAttempts
      <4>1. ~Excused(asker[p]) /\ asker[p].refusals = 0 /\ asker'[p].refusals = 1
        BY <3>2, <4>0 DEF Excused
      <4>2. asker[p].token \in Free /\ asker[p].attempt <= Cardinality(UsedUp \ {asker[p].token})
        <5>1. Cardinality(UsedUp \ {asker[p].token}) \in Nat
          BY <1>0, TokenSets
        <5>2. QED
          BY <3>2, <4>1, <5>1 DEF AttemptInv, Accounted, InUse
      <4>3. asker[p].attempt + 1 <= Cardinality(UsedUp) + 1
        <5>1. Cardinality(UsedUp \ {asker[p].token}) \in Nat
          BY <1>0, TokenSets
        <5>2. Cardinality(UsedUp \ {asker[p].token}) <= Cardinality(UsedUp)
          BY <1>0, <4>2, OneMore
        <5>3. QED
          BY <1>0, <4>0, <4>2, <5>1, <5>2
      <4>4. asker'[p].point = "date"
        BY <1>0, <4>0, <4>3, AttemptsSuffice
      <4>5. QED
        <5>1. Accounted(asker'[p])
          BY <4>1, <4>3, <4>4 DEF Accounted, InUse
        <5>2. QED
          BY <5>1, AttemptsKept DEF counterVars, marketHistory
    <3>3. QED
      BY <3>1, <3>2
  <2>4. QED
    BY <2>1, <2>2, <2>3
<1>6. ASSUME NEW p \in Threads, NEW m \in 1 .. 2, Failure(p, m) PROVE TokenInv'
  <2>0. m \in 0 .. 2 /\ m > 0
    OBVIOUS
  <2> USE <1>6, <2>0, FailureEffect
  <2>1. MarketTypeOK' /\ MarkInv'
    BY MarketTypeStep, ZenonT(60) DEF Failure, MarkInv, MarketTypeOK
  <2>2. CountInv'
    <3>1. \A k \in Free : Unrecorded(k)' = Unrecorded(k) /\ Awaiting(k)' \subseteq Awaiting(k)
      BY DEF Awaiting, Unrecorded
    <3>2. UNCHANGED <<usage, served, overlapped>> /\ gaveUp \subseteq gaveUp'
      BY DEF Failure, counterVars
    <3>3. QED
      BY <3>1, <3>2, AccountKept
  <2>3. AttemptInv'
    <3>1. overlapped \/ Accounted(asker'[p])
      BY SMTT(30) DEF AttemptInv, Accounted, Excused, InUse
    <3>2. UNCHANGED <<usage, overlapped>>
      BY DEF Failure, counterVars
    <3>3. QED
      BY <3>1, <3>2, AttemptsKept
  <2>4. QED
    BY <2>1, <2>2, <2>3
<1>7. ASSUME NEW p \in Threads, ReadUsage(p) PROVE TokenInv'
  <2> USE <1>7, ReadEffect
  <2>1. MarketTypeOK' /\ MarkInv'
    BY MarketTypeStep DEF marketHistory, MarkInv, MarketTypeOK
  <2>2. CountInv'
    BY AccountKept DEF Awaiting, Unrecorded, counterVars, marketHistory
  <2>3. AttemptInv'
    <3>1. overlapped \/ Accounted(asker'[p])
      BY DEF AttemptInv, Accounted, Excused, InUse
    <3>2. QED
      BY <3>1, AttemptsKept DEF counterVars, marketHistory
  <2>4. QED
    BY <2>1, <2>2, <2>3
<1>8. CASE Midnight \/ UNCHANGED marketVars
  <2>1. UNCHANGED <<usageDate, usage, asker, served, gaveUp, overlapped>>
    BY <1>8 DEF Midnight, counterVars, marketHistory, marketVars
  <2>2. MarketTypeOK'
    <3>1. day' \in 1 .. MaxDays + 1
      BY <1>8, MarketAssumption DEF Midnight, marketVars, MarketTypeOK
    <3>2. QED
      BY <2>1, <3>1 DEF MarketTypeOK
  <2>3. MarkInv' /\ CountInv' /\ AttemptInv'
    BY <2>1 DEF MarkInv, CountInv, AttemptInv, Accounted, Awaiting, Unrecorded, UsedUp
  <2>4. QED
    BY <2>2, <2>3
<1>9. ASSUME NEW p \in Threads, Data(p) PROVE TokenInv'
  <2> USE <1>9, DataEffect
  <2>1. MarketTypeOK'
    <3>1. served' \in [Free -> 0 .. MaxServed]
      <4>1. \A n \in 0 .. MaxServed : n < MaxServed => n + 1 \in 0 .. MaxServed
        BY MarketNumbers
      <4>2. QED
        BY <4>1 DEF Data, MarketTypeOK
    <3>2. asker' \in [Threads -> Asking]
      OBVIOUS
    <3>3. QED
      BY <3>1, <3>2 DEF Data, MarketTypeOK, counterVars
  <2>2. MarkInv'
    <3>1. UNCHANGED <<gaveUp, overlapped>>
      BY DEF Data
    <3>2. QED
      BY <3>1 DEF MarkInv
  <2>3. CountInv'
    BY DataKeepsCount
  <2>4. AttemptInv'
    <3>1. overlapped \/ Accounted(asker'[p])
      BY DEF AttemptInv, Accounted, Excused, InUse
    <3>2. UNCHANGED <<usage, overlapped>>
      BY DEF Data, counterVars
    <3>3. QED
      BY <3>1, <3>2, AttemptsKept
  <2>5. QED
    BY <2>1, <2>2, <2>3, <2>4
<1>10. ASSUME NEW p \in Threads, WriteUsage(p) PROVE TokenInv'
  <2> USE <1>10, WriteEffect
  <2>1. MarketTypeOK'
    <3>1. asker[p].read \in 0 .. DailyLimit /\ asker[p].marks \in 0 .. 2
      BY SMTT(30) DEF MarketTypeOK, Asking
    <3>2. usage' \in [Free -> 0 .. DailyLimit]
      BY <3>1, CountedIs, ZenonT(60) DEF WriteUsage, MarketTypeOK
    <3>3. overlapped' \in BOOLEAN
      BY DEF WriteUsage
    <3>4. QED
      BY <3>2, <3>3 DEF WriteUsage, MarketTypeOK
  <2>2. MarkInv'
    <3>1. asker[p].marks \in 0 .. 2 /\ gaveUp' = gaveUp /\ (overlapped => overlapped')
      BY DEF MarketTypeOK, Asking, WriteUsage
    <3>2. QED
      BY <3>1 DEF MarkInv
  <2>3. CountInv' /\ AttemptInv'
    BY WriteKeepsCount, WriteKeepsAttempts
  <2>4. QED
    BY <2>1, <2>2, <2>3, ZenonT(60)
<1>11. QED
  BY <1>1, <1>2, <1>3, <1>4, <1>5, <1>6, <1>7, <1>8, <1>9, <1>10 DEF MarketNext, Request

LEMMA TokenInvariance == MarketSpec => []TokenInv
  BY MarketInitInv, TokenStep, PTL DEF MarketSpec

(* MarketInv, for every number of threads, free tokens and every limit: a  *)
(* free token answers, between two clearings of the counters, at most once *)
(* for each unit of its limit and once for each other thread, unless       *)
(* counting overlapped.                                                    *)
THEOREM QuotaHolds == MarketSpec => []MarketInv
<1>1. ASSUME TokenInv PROVE MarketInv
  <2>1. ASSUME ~overlapped, NEW k \in Free PROVE served[k] < MaxServed
    BY <1>1, <2>1, QuotaLeft, AskingSets, MarketNumbers DEF TokenInv
  <2>2. QED
    BY <1>1, <2>1 DEF TokenInv, MarketInv, QuotaKept
<1>2. QED
  BY <1>1, TokenInvariance, PTL

(* FailedOnlyAfterPaid, for every number of threads and free tokens: the   *)
(* attempts of a request suffice to reach the paid token past every free   *)
(* one and one answer 403.                                                 *)
THEOREM PaidIsReached == MarketSpec => []FailedOnlyAfterPaid
<1>1. TokenInv => FailedOnlyAfterPaid
  BY DEF TokenInv, AttemptInv, Accounted, Excused, FailedOnlyAfterPaid
<1>2. QED
  BY <1>1, TokenInvariance, PTL

(* PaidOnlyWhenFreeUsedUp, for every number of threads, free tokens and    *)
(* every limit: the paid token is not spent while a free one is left.      *)
THEOREM PaidIsLast == MarketSpec => PaidOnlyWhenFreeUsedUp
<1> DEFINE Paying(p) == asker[p].point = "choose" /\ asker'[p].point = "asked" /\ asker'[p].token = Paid
           Spared == \A p \in Threads : Paying(p) => overlapped \/ \A k \in Free : served[k] >= DailyLimit \/ k \in gaveUp
<1>1. ASSUME TokenInv, MarketNext PROVE Spared
  <2> USE <1>1 DEF TokenInv
  <2>1. SUFFICES ASSUME NEW p \in Threads, Paying(p), ~overlapped, NEW k \in Free
                 PROVE  served[k] >= DailyLimit \/ k \in gaveUp
    OBVIOUS
  <2>2. ChooseToken(p)
    <3>1. ASSUME NEW q \in Threads, Request(q), ~ChooseToken(q) PROVE asker'[p].point = asker[p].point \/ asker'[p].point # "asked"
      <4>1. CASE Ask(q) \/ UnknownStock(q)
        BY <4>1, AskEffect
      <4>2. CASE CompareDate(q)
        BY <4>2, CompareDateEffect
      <4>3. CASE ClearUsage(q)
        BY <4>3, ClearEffect
      <4>4. CASE Data(q)
        BY <4>4, DataEffect
      <4>5. CASE Forbidden(q)
        BY <4>5, ForbiddenEffect
      <4>6. ASSUME NEW m \in 1 .. 2, Failure(q, m) PROVE asker'[p].point = asker[p].point \/ asker'[p].point # "asked"
        <5>1. m \in 0 .. 2 /\ m > 0
          OBVIOUS
        <5>2. QED
          BY <4>6, <5>1, FailureEffect
      <4>7. CASE ReadUsage(q)
        BY <4>7, ReadEffect
      <4>8. CASE WriteUsage(q)
        <5>1. asker[q].marks \in 0 .. 2
          BY DEF MarketTypeOK, Asking
        <5>2. QED
          BY <4>8, <5>1, WriteEffect
      <4>9. QED
        BY <3>1, <4>1, <4>2, <4>3, <4>4, <4>5, <4>6, <4>7, <4>8 DEF Request
    <3>2. ~Midnight
      BY <2>1 DEF Midnight
    <3>3. ASSUME NEW q \in Threads, ChooseToken(q) PROVE q = p
      BY <2>1, <3>3, ChooseEffect
    <3>4. QED
      BY <2>1, <3>1, <3>2, <3>3 DEF MarketNext
  <2>3. CurrentToken = Paid
    BY <2>1, <2>2, ChooseEffect
  <2>4. usage[k] = DailyLimit
    BY <2>3, CurrentTokenIs, MarketNumbers
  <2>5. QED
    BY <2>1, <2>4 DEF CountInv
<1>2. TokenInv /\ [MarketNext]_marketVars => [Spared]_marketVars
  BY <1>1
<1>3. QED
  BY <1>2, TokenInvariance, PTL DEF MarketSpec, PaidOnlyWhenFreeUsedUp

-----------------------------------------------------------------------------
(* The price cache: 18:00 divides the hours *)

(* The hours from 18:00 of day d to 17:59 of day d + 1 have end date d *)
LEMMA EndDateIs ==
    ASSUME NEW t \in Nat
    PROVE  /\ EndDate(t) \in Int /\ EndDate(t) >= -1
           /\ 24 * EndDate(t) + 18 <= t /\ t < 24 * EndDate(t) + 42
           /\ EndDate(t) <= Day(t)
<1>1. /\ Day(t) \in Nat /\ Hour(t) \in 0 .. 23 /\ t = 24 * Day(t) + Hour(t)
  BY DEF Day, Hour
<1>2. QED
  BY <1>1 DEF EndDate

(* An answer lacks a day only if 18:00 struck during its request, and no   *)
(* request lasts a day                                                     *)
LEMMA EndDateOrder ==
    ASSUME NEW s \in Nat, NEW t \in Nat, s <= t
    PROVE  /\ EndDate(s) <= EndDate(t)
           /\ t - s <= 24 => EndDate(t) <= EndDate(s) + 1
BY EndDateIs

(* The rule of 18:00 is a comparison of end dates *)
LEMMA BeforeSixIs ==
    ASSUME clock \in Nat, NEW s \in Nat, s <= clock
    PROVE  BeforeSix(s) <=> EndDate(s) < EndDate(clock)
<1>1. /\ Day(clock) \in Nat /\ Hour(clock) \in 0 .. 23 /\ clock = 24 * Day(clock) + Hour(clock)
      /\ Day(s) \in Nat /\ Hour(s) \in 0 .. 23 /\ s = 24 * Day(s) + Hour(s)
  BY DEF Day, Hour
<1>2. QED
  BY <1>1 DEF EndDate, BeforeSix

(* What is in the file was asked for at most a request before its time     *)
(* stamp, and what a request will write was asked for when it began        *)
Dated(e) == /\ 0 <= e.stamp /\ e.stamp <= clock
            /\ e.end \in {EndDate(e.stamp) - 1, EndDate(e.stamp)}

DateInv ==
    /\ CacheTypeOK
    /\ Filled => Dated(entry)
    /\ request.point = "asked" => /\ request.begun <= clock /\ clock - request.begun <= MaxRequest
                                  /\ request.entry.end = EndDate(request.begun)
    /\ request.point = "saving" => Dated(request.entry)

LEMMA CacheNumbers ==
    ASSUME CacheTypeOK
    PROVE  /\ clock \in Nat /\ MaxHours \in Nat /\ MaxRequest \in 0 .. 23
           /\ entry.end \in Int /\ entry.stamp \in Int
           /\ request.begun \in Nat /\ request.entry.end \in Int /\ request.entry.stamp \in Int
           /\ EndDate(clock) \in -1 .. Day(MaxHours)
<1>1. /\ clock \in 0 .. MaxHours /\ MaxHours \in Nat /\ MaxRequest \in 0 .. 23
      /\ Day(MaxHours) \in Nat /\ Day(clock) \in Nat /\ Day(clock) <= Day(MaxHours)
  BY CacheAssumption DEF CacheTypeOK, Day
<1>2. /\ entry.end \in Int /\ entry.stamp \in Int
      /\ request.begun \in Nat /\ request.entry.end \in Int /\ request.entry.stamp \in Int
  BY <1>1 DEF CacheTypeOK, CacheEntry, CacheRequest
<1>3. QED
  BY <1>1, <1>2, EndDateIs

LEMMA DatesInit == CacheInit => DateInv
<1> SUFFICES ASSUME CacheInit PROVE DateInv
  OBVIOUS
<1>1. MaxHours \in Nat /\ Day(MaxHours) \in Nat
  BY CacheAssumption DEF Day
<1>2. NoEntry \in CacheEntry
  BY <1>1 DEF NoEntry, CacheEntry
<1>3. NoRequest \in CacheRequest /\ NoRequest.point = "idle"
  BY <1>1, <1>2 DEF NoRequest, CacheRequest
<1>4. unlimited \in BOOLEAN
  BY DEF CacheInit
<1>5. QED
  BY <1>1, <1>2, <1>3, <1>4 DEF CacheInit, DateInv, CacheTypeOK, Filled

LEMMA DatesStep == DateInv /\ [CacheNext]_cacheVars => DateInv'
<1> SUFFICES ASSUME DateInv, [CacheNext]_cacheVars PROVE DateInv'
  OBVIOUS
<1>1. CacheTypeOK
  BY DEF DateInv
<1>2. /\ clock \in Nat /\ clock <= MaxHours /\ MaxHours \in Nat /\ MaxRequest \in 0 .. 23
      /\ entry.end \in Int /\ entry.stamp \in Int
      /\ request.begun \in Nat /\ request.entry.end \in Int /\ request.entry.stamp \in Int
      /\ EndDate(clock) \in -1 .. Day(MaxHours)
  BY <1>1, CacheNumbers DEF CacheTypeOK
<1>3. NoEntry \in CacheEntry
  BY <1>2, CacheAssumption DEF NoEntry, CacheEntry, Day
<1>4. NoRequest \in CacheRequest /\ NoRequest.point = "idle"
  BY <1>2, <1>3 DEF NoRequest, CacheRequest
<1>5. CASE AskService
  <2> DEFINE e == [end |-> EndDate(clock), stamp |-> -1]
             q == [point |-> "asked", begun |-> clock, entry |-> e]
  <2>1. e \in CacheEntry /\ e.end = EndDate(clock)
    BY <1>2 DEF CacheEntry
  <2>2. q \in CacheRequest /\ q.point = "asked" /\ q.begun = clock /\ q.entry = e
    <3> HIDE DEF e
    <3>1. QED
      BY <1>2, <2>1 DEF CacheRequest
  <2>3. request' = q /\ UNCHANGED <<kind, clock, entry, unlimited>>
    BY <1>5 DEF AskService
  <2> HIDE DEF q, e
  <2>4. QED
    BY <1>1, <1>2, <2>1, <2>2, <2>3 DEF DateInv, CacheTypeOK, Filled, Dated
<1>6. CASE NoAnswer
  BY <1>1, <1>4, <1>6 DEF NoAnswer, DateInv, CacheTypeOK, Filled, Dated
<1>7. CASE OpenCache
  <2> DEFINE e == [request.entry EXCEPT !.stamp = clock]
  <2>1. e \in CacheEntry /\ e.end = request.entry.end /\ e.stamp = clock
    BY <1>1, <1>2 DEF CacheTypeOK, CacheEntry, CacheRequest
  <2>2. /\ request'.point = "saving" /\ request'.entry = e /\ request' \in CacheRequest
        /\ entry' = NoEntry /\ UNCHANGED <<kind, clock, unlimited>>
    <3>1. request' = [request EXCEPT !.point = "saving", !.entry = e]
      BY <1>1, <1>7 DEF OpenCache, CacheTypeOK, CacheRequest
    <3> HIDE DEF e
    <3>2. QED
      BY <1>1, <1>7, <2>1, <3>1 DEF OpenCache, CacheTypeOK, CacheRequest
  <2>3. e.end \in {EndDate(clock) - 1, EndDate(clock)}
    <3>1. /\ EndDate(request.begun) <= EndDate(clock) /\ EndDate(clock) <= EndDate(request.begun) + 1
          /\ EndDate(request.begun) \in Int /\ e.end = EndDate(request.begun)
      <4>1. /\ request.begun <= clock /\ clock - request.begun <= MaxRequest
            /\ request.entry.end = EndDate(request.begun)
        BY <1>7 DEF DateInv, OpenCache
      <4>2. EndDate(request.begun) \in Int
        BY <1>2, EndDateIs
      <4> HIDE DEF e
      <4>3. QED
        BY <1>2, <2>1, <4>1, <4>2, EndDateOrder
    <3> HIDE DEF e
    <3>2. QED
      BY <1>2, <3>1
  <2> HIDE DEF e
  <2>4. QED
    BY <1>1, <1>2, <1>3, <2>1, <2>2, <2>3 DEF DateInv, CacheTypeOK, Filled, Dated
<1>8. CASE WriteCache
  <2>1. request.entry \in CacheEntry
    BY <1>1 DEF CacheTypeOK, CacheRequest
  <2>2. QED
    BY <1>1, <1>4, <1>8, <2>1 DEF WriteCache, DateInv, CacheTypeOK, Filled, Dated
<1>9. CASE Killed
  BY <1>1, <1>4, <1>9 DEF Killed, DateInv, CacheTypeOK, Filled, Dated
<1>10. CASE HourPasses
  <2>1. clock' = clock + 1 /\ clock' \in 0 .. MaxHours /\ UNCHANGED <<kind, entry, request, unlimited>>
    BY <1>2, <1>10 DEF HourPasses
  <2>2. CacheTypeOK' /\ request.point # "saving"
    BY <1>1, <1>10, <2>1 DEF CacheTypeOK, HourPasses
  <2>3. Filled' => Dated(entry)'
    BY <1>2, <2>1 DEF DateInv, Filled, Dated
  <2>4. request'.point = "asked" => /\ request'.begun <= clock' /\ clock' - request'.begun <= MaxRequest
                                    /\ request'.entry.end = EndDate(request'.begun)
    BY <1>2, <1>10, <2>1 DEF DateInv, HourPasses
  <2>5. QED
    BY <2>1, <2>2, <2>3, <2>4 DEF DateInv
<1>11. CASE UNCHANGED cacheVars
  BY <1>11 DEF cacheVars, DateInv, CacheTypeOK, Filled, Dated
<1>12. CASE DebugRun
  BY <1>1, <1>12 DEF DebugRun, DateInv, CacheTypeOK, Filled, Dated
<1>13. QED
  BY <1>5, <1>6, <1>7, <1>8, <1>9, <1>10, <1>11, <1>12 DEF CacheNext

(* The end date of the file and that of a new request, compared *)
LEMMA FileDates ==
    ASSUME DateInv, Filled
    PROVE  /\ clock \in Nat /\ entry.stamp \in Nat /\ entry.stamp <= clock /\ entry.end \in Int
           /\ EndDate(clock) \in Int /\ EndDate(entry.stamp) \in Int
           /\ entry.end \in {EndDate(entry.stamp) - 1, EndDate(entry.stamp)}
           /\ EndDate(entry.stamp) <= EndDate(clock)
           /\ BeforeSix(entry.stamp) <=> EndDate(entry.stamp) < EndDate(clock)
<1>1. /\ clock \in Nat /\ entry.stamp \in Nat /\ entry.stamp <= clock /\ entry.end \in Int
      /\ entry.end \in {EndDate(entry.stamp) - 1, EndDate(entry.stamp)}
  BY CacheNumbers DEF DateInv, Dated
<1>2. EndDate(clock) \in Int /\ EndDate(entry.stamp) \in Int
  BY <1>1, EndDateIs
<1>3. EndDate(entry.stamp) <= EndDate(clock)
  BY <1>1, EndDateOrder
<1>4. BeforeSix(entry.stamp) <=> EndDate(entry.stamp) < EndDate(clock)
  BY <1>1, BeforeSixIs
<1>5. QED
  BY <1>1, <1>2, <1>3, <1>4

LEMMA DailyFromDates == DateInv => DailyExact
<1> SUFFICES ASSUME DateInv, kind = "daily", Filled
             PROVE  IF Crossed THEN ~IsExpired => entry.end = EndDate(clock) - 1
                    ELSE IsExpired <=> entry.end < EndDate(clock)
  BY DEF DailyExact
<1>1. IsExpired <=> EndDate(entry.stamp) < EndDate(clock)
  BY FileDates DEF IsExpired
<1>2. QED
  BY <1>1, FileDates DEF Crossed

(* A daily series expires exactly when a new request would bring a later   *)
(* day, whatever time passes during the requests: the 18:00 of             *)
(* _is_expired and the 18:00 of get_stock_history_data fit together.       *)
THEOREM CacheExact == CacheSpec => []CacheInv
<1>1. DateInv => CacheInv
  BY DailyFromDates DEF DateInv, CacheInv
<1>2. QED
  BY <1>1, DatesInit, DatesStep, PTL DEF CacheSpec

=============================================================================
