-------------------------- MODULE CrossDayTracker --------------------------
(***************************************************************************)
(* CrossDayTracker of strategy_researcher/cross_day_tracker.py, driven by  *)
(* StrategyResearcher.run of strategy_researcher/researcher.py: a run      *)
(* first settles the signals that are due (verify_pending) and then        *)
(* records the signals of the day (record_today_signals).                  *)
(*                                                                         *)
(* The state is files: pending.json and one verified file per day. A file  *)
(* holds a list of records that the code only loops over and extends; the  *)
(* model keeps how often each record is in the list, and not their order.  *)
(* A file is replaced by opening it, which empties it, and writing it; a   *)
(* process killed between the two (_force_exit calls os._exit) leaves a    *)
(* Torn file, which the loaders read as an empty list. Runs are begun by   *)
(* the pipeline scheduler, by the researcher's own scheduler and by hand,  *)
(* so that two processes may run at once and a day may have several runs.  *)
(***************************************************************************)
EXTENDS Integers, FiniteSets

CONSTANTS
    Codes,         \* the stocks
    Processes,
    HoldDays,      \* RESEARCHER_CONFIG["hold_days"]
    LastDay,       \* bound: the last day of the model
    MaxRuns,       \* bound: runs begun on one day
    MayCrash,      \* a process may be killed
    Torn

Grace == 3         \* days a due signal waits for a price
Days  == 0..LastDay

Record  == [code : Codes, buy : Days]
Status  == {"verified", "no_price"}
Settled == [code : Codes, buy : Days, status : Status]
List(S) == [S -> Nat]     \* a list of members of S: how often each is in it

(* With hold_days = 0 a signal would be settled on the day it is recorded, *)
(* and recorded again by the next run of that day.                         *)
ASSUME TrackerAssumption ==
    /\ Processes # {} /\ HoldDays \in Nat \ {0}
    /\ LastDay \in Nat /\ MaxRuns \in Nat
    /\ MayCrash \in BOOLEAN
    /\ Torn \notin List(Record) /\ Torn \notin List(Settled)

VARIABLES
    day,        \* date.today()
    runs,       \* runs begun today
    pending,    \* pending.json
    verified,   \* the verified file of each day
    pc,         \* program point of each process
    still,      \* still_pending, or the list record_today_signals will save
    newly,      \* newly_verified, or the list _save_verified will save
    recorded,   \* history: every signal saved to pending.json
    overlap,    \* history: two processes have been in a run at once
    killed      \* history: a process has been killed

vars  == <<day, runs, pending, verified, pc, still, newly, recorded, overlap, killed>>
local == <<still, newly>>
past  == <<recorded, overlap, killed>>

Points == {"idle", "verify", "truncP", "writeP", "loadV", "truncV", "writeV",
           "record", "truncR", "writeR"}

Empty(S)       == [x \in S |-> 0]
Elements(list) == {x \in DOMAIN list : list[x] > 0}
Load(file, S)  == IF file = Torn THEN Empty(S) ELSE file
Waiting        == Load(pending, Record)     \* _load_pending
SettledOn(d)   == Load(verified[d], Settled)

Signal(s) == [code |-> s.code, buy |-> s.buy]
Age(r)    == day - r.buy

Init ==
    /\ day = 0 /\ runs = 0
    /\ pending = Empty(Record)
    /\ verified = [d \in Days |-> Empty(Settled)]
    /\ pc = [p \in Processes |-> "idle"]
    /\ still = [p \in Processes |-> Empty(Record)]
    /\ newly = [p \in Processes |-> Empty(Settled)]
    /\ recorded = {} /\ overlap = FALSE /\ killed = FALSE

Goto(p, point) == pc' = [pc EXCEPT ![p] = point]

(* The process ends, or is killed: its lists are gone *)
End(p) == /\ Goto(p, "idle")
          /\ still' = [still EXCEPT ![p] = Empty(Record)]
          /\ newly' = [newly EXCEPT ![p] = Empty(Settled)]

(* The loop of verify_pending: the records that stay, being younger than   *)
(* hold or, without a price, than limit, and the others with the status    *)
(* they are settled with.                                                  *)
Split(p, priced, hold, limit) ==
    LET Stays(r)   == Age(r) < hold \/ (r.code \notin priced /\ Age(r) < limit)
        Outcome(s) == IF s.code \in priced THEN "verified" ELSE "no_price"
    IN  /\ still' = [still EXCEPT ![p] =
               [r \in Record |-> IF Stays(r) THEN Waiting[r] ELSE 0]]
        /\ newly' = [newly EXCEPT ![p] =
               [s \in Settled |-> IF ~Stays(Signal(s)) /\ s.status = Outcome(s)
                                  THEN Waiting[Signal(s)] ELSE 0]]
        /\ Goto(p, "truncP")
        /\ UNCHANGED <<day, runs, pending, verified, past>>

(* pending.extend(new_records): the stocks in signals, bought today. A set *)
(* of codes: the filter lists a stock once.                                *)
Extend(p, signals) ==
    still' = [still EXCEPT ![p] =
        [r \in Record |-> Waiting[r] + (IF r.buy = day /\ r.code \in signals THEN 1 ELSE 0)]]

(* existing.extend(records): the file of today and the records of p *)
WithToday(p) == [s \in Settled |-> SettledOn(day)[s] + newly[p][s]]

(* run() goes on to verify_pending only when there is filter data *)
Begin(p) ==
    /\ pc[p] = "idle" /\ runs < MaxRuns
    /\ runs' = runs + 1
    /\ Goto(p, "verify")
    /\ overlap' = (overlap \/ \E q \in Processes : pc[q] # "idle")
    /\ UNCHANGED <<day, pending, verified, local, recorded, killed>>

-----------------------------------------------------------------------------
(* Plausible mistakes, used by no specification *)

(* due one day early *)
VerifyEarly(p) ==
    /\ pc[p] = "verify"
    /\ \E priced \in SUBSET Codes : Split(p, priced, HoldDays - 1, HoldDays + Grace)

(* a due signal without a price waits for ever *)
VerifyWaits(p) ==
    /\ pc[p] = "verify"
    /\ \E priced \in SUBSET Codes : Split(p, priced, HoldDays, LastDay + 1)

(* the verified signals are saved without the ones already in the file *)
LoadVerifiedReplaces(p) ==
    /\ pc[p] = "loadV"
    /\ Goto(p, "truncV")
    /\ UNCHANGED <<day, runs, pending, verified, local, past>>

(* the signals of the day are recorded whether or not they already are *)
RecordAgain(p) ==
    /\ pc[p] = "record"
    /\ \E signals \in SUBSET Codes : Extend(p, signals)
    /\ Goto(p, "truncR")
    /\ UNCHANGED <<day, runs, pending, verified, newly, past>>

(* the verified file is saved first, then pending.json *)
TruncatePendingLate(p) ==
    /\ pc[p] = "truncP"
    /\ IF newly[p] = Empty(Settled)
       THEN pending' = Torn /\ Goto(p, "writeP") /\ UNCHANGED <<verified, newly>>
       ELSE /\ verified' = [verified EXCEPT ![day] = WithToday(p)]
            /\ newly' = [newly EXCEPT ![p] = Empty(Settled)]
            /\ UNCHANGED <<pending, pc>>
    /\ UNCHANGED <<day, runs, still, past>>

-----------------------------------------------------------------------------
(* verify_pending *)

(* Loads pending.json and splits it by age and price; without any price    *)
(* nothing is verified. *)
VerifySkipped(p) ==
    /\ pc[p] = "verify"
    /\ Goto(p, "record")
    /\ UNCHANGED <<day, runs, pending, verified, local, past>>

VerifyPending(p) ==
    /\ pc[p] = "verify"
    /\ \E priced \in SUBSET Codes : Split(p, priced, HoldDays, HoldDays + Grace)

(* _save_pending(still_pending): the file is emptied, then written *)
TruncatePending(p) ==
    /\ pc[p] = "truncP"
    /\ pending' = Torn
    /\ Goto(p, "writeP")
    /\ UNCHANGED <<day, runs, verified, local, past>>

WritePending(p) ==
    /\ pc[p] = "writeP"
    /\ pending' = still[p]
    /\ Goto(p, IF newly[p] = Empty(Settled) THEN "record" ELSE "loadV")
    /\ UNCHANGED <<day, runs, verified, local, past>>

(* _save_verified: today's file is loaded, extended and written back *)
LoadVerified(p) ==
    /\ pc[p] = "loadV"
    /\ newly' = [newly EXCEPT ![p] = WithToday(p)]
    /\ Goto(p, "truncV")
    /\ UNCHANGED <<day, runs, pending, verified, still, past>>

TruncateVerified(p) ==
    /\ pc[p] = "truncV"
    /\ verified' = [verified EXCEPT ![day] = Torn]
    /\ Goto(p, "writeV")
    /\ UNCHANGED <<day, runs, pending, local, past>>

WriteVerified(p) ==
    /\ pc[p] = "writeV"
    /\ verified' = [verified EXCEPT ![day] = newly[p]]
    /\ Goto(p, "record")
    /\ UNCHANGED <<day, runs, pending, local, past>>

-----------------------------------------------------------------------------
(* record_today_signals: the union by code of the B1 and B2 signals that   *)
(* have a price, unless pending.json has signals of today *)
RecordSkipped(p) ==
    /\ pc[p] = "record"
    /\ \E r \in Elements(Waiting) : r.buy = day
    /\ End(p)
    /\ UNCHANGED <<day, runs, pending, verified, past>>

RecordTodaySignals(p) ==
    /\ pc[p] = "record"
    /\ \A r \in Elements(Waiting) : r.buy # day
    /\ \E signals \in SUBSET Codes : Extend(p, signals)
    /\ Goto(p, "truncR")
    /\ UNCHANGED <<day, runs, pending, verified, newly, past>>

TruncateForRecord(p) ==
    /\ pc[p] = "truncR"
    /\ pending' = Torn
    /\ Goto(p, "writeR")
    /\ UNCHANGED <<day, runs, verified, local, past>>

WriteRecord(p) ==
    /\ pc[p] = "writeR"
    /\ pending' = still[p]
    /\ recorded' = recorded \cup Elements(still[p])
    /\ End(p)
    /\ UNCHANGED <<day, runs, verified, overlap, killed>>

-----------------------------------------------------------------------------
(* A killed process leaves the files as they are *)
Crash(p) ==
    /\ MayCrash /\ pc[p] # "idle"
    /\ End(p)
    /\ killed' = TRUE
    /\ UNCHANGED <<day, runs, pending, verified, recorded, overlap>>

NextDay ==
    /\ \A p \in Processes : pc[p] = "idle"
    /\ day < LastDay
    /\ day' = day + 1 /\ runs' = 0
    /\ UNCHANGED <<pending, verified, pc, local, past>>

Finished == /\ day = LastDay /\ runs = MaxRuns
            /\ \A p \in Processes : pc[p] = "idle"
            /\ UNCHANGED vars

Next ==
    \/ \E p \in Processes :
          \/ Begin(p) \/ Crash(p)
          \/ VerifySkipped(p) \/ VerifyPending(p) \/ TruncatePending(p) \/ WritePending(p)
          \/ LoadVerified(p) \/ TruncateVerified(p) \/ WriteVerified(p)
          \/ RecordSkipped(p) \/ RecordTodaySignals(p) \/ TruncateForRecord(p) \/ WriteRecord(p)
    \/ NextDay \/ Finished

Spec == Init /\ [][Next]_vars

-----------------------------------------------------------------------------
(* Types: a file is torn or a list of records of its kind *)
TypeOK ==
    /\ day \in Days /\ runs \in 0..MaxRuns
    /\ pending \in List(Record) \cup {Torn}
    /\ verified \in [Days -> List(Settled) \cup {Torn}]
    /\ pc \in [Processes -> Points]
    /\ still \in [Processes -> List(Record)] /\ newly \in [Processes -> List(Settled)]
    /\ recorded \subseteq Record
    /\ overlap \in BOOLEAN /\ killed \in BOOLEAN

(* How often signal r was settled, over the verified files of all days *)
Copies(d, s) == {<<d, s, n>> : n \in 1..SettledOn(d)[s]}
SettledAs(r) == {s \in Settled : Signal(s) = r}
Times(r)     == Cardinality(UNION {Copies(d, s) : d \in Days, s \in SettledAs(r)})

(* Between runs every signal ever recorded is either waiting or settled,   *)
(* and it is in one place once: the rewriting of two files loses and       *)
(* doubles nothing when the runs come one after the other, to their end.   *)
NothingLost ==
    ~overlap /\ ~killed /\ (\A p \in Processes : pc[p] = "idle") =>
        \A r \in recorded : Waiting[r] + Times(r) = 1

(* No signal is settled twice, also when a process is killed between any   *)
(* two file operations: pending.json is saved before the verified file, so *)
(* that a kill loses a return but never counts it twice (two processes at  *)
(* once do: the files have no lock).                                       *)
AtMostOnce == ~overlap => \A r \in recorded : Times(r) <= 1

(* The signals of a day are recorded once, however many runs the day has   *)
(* and however they overlap.                                               *)
RecordedOnce == \A r \in Record : Waiting[r] <= 1

(* A signal is settled neither early nor late: with a price not before     *)
(* hold_days, without one not before the three days of grace.              *)
NeverEarly ==
    \A d \in Days : \A s \in Elements(SettledOn(d)) :
        d - s.buy >= (IF s.status = "verified" THEN HoldDays ELSE HoldDays + Grace)

(* Whenever verify_pending saves pending.json no signal older than         *)
(* hold_days and the grace is left waiting.                                *)
SettledInTime ==
    [][\A p \in Processes : pc[p] = "writeP" /\ pc'[p] \in {"record", "loadV"} =>
          \A r \in Elements(pending') : Age(r) < HoldDays + Grace]_vars

(* No signal is lost or settled early: the parts above as one invariant *)
TrackerInv == TypeOK /\ NothingLost /\ NeverEarly

=============================================================================
