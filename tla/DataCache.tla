------------------------------ MODULE DataCache ------------------------------
(***************************************************************************)
(* One file of the price cache, data_storage.py as api.py uses it: a daily *)
(* series, a weekly series or a realtime quotation of a stock, with the    *)
(* time it was saved. A caller gets what the file holds unless it has      *)
(* expired; then it asks the market data service and saves the answer.     *)
(* The end of a series is chosen before the request, the time is stamped   *)
(* after it, and the file is emptied before it is written. A run with      *)
(* --debug raises the ages of the configuration for its program.           *)
(* Time is counted in hours and looked at half past each; day 0 is a       *)
(* Wednesday.                                                              *)
(***************************************************************************)
EXTENDS Integers, FiniteSets

CONSTANTS
    MaxHours,      \* bound: hours that pass
    MaxRequest     \* bound: hours that begin during one request, which times out

(* A request is tried once or twice per token, with a timeout of at most   *)
(* 15 seconds: it does not last a day                                      *)
ASSUME CacheAssumption == MaxHours \in Nat /\ MaxRequest \in 0 .. 23

VARIABLES
    kind,      \* what the file is for: "daily", "weekly" or "realtime"
    clock,     \* hours since the beginning
    entry,     \* the file: the end date of the data and the time stamp
    request,   \* the request in progress: its point, its beginning, what it will save
    unlimited  \* the ages in STORAGE_CONFIG of the program are 99999

cacheVars == <<kind, clock, entry, request, unlimited>>

Kinds      == {"daily", "weekly", "realtime"}
NoEntry    == [end |-> -1, stamp |-> -1]     \* no file, or one that does not parse
NoRequest  == [point |-> "idle", begun |-> 0, entry |-> NoEntry]
Day(t)     == t \div 24
Hour(t)    == t % 24
Weekday(d) == (d + 2) % 7 < 5                \* Saturday is day 3
Filled     == entry # NoEntry

CacheInit ==
    /\ kind \in Kinds
    /\ clock = 0
    /\ entry = NoEntry
    /\ request = NoRequest
    /\ unlimited = FALSE

-----------------------------------------------------------------------------
(* Expiry *)

Configured(hours) == IF unlimited THEN 99999 ELSE hours

Trading == Weekday(Day(clock)) /\ Hour(clock) \in 9 .. 14

(* In trading hours, at the weekend, and otherwise *)
RealtimeAge ==
    CASE Trading              -> Configured(1)
      [] ~Weekday(Day(clock)) -> 66
      [] OTHER                -> 18

MaxAge == IF kind = "weekly" THEN Configured(72) ELSE RealtimeAge

BeforeYesterdaysSix(stamp) ==     \* mutant: the evening is not told from the day
    Day(stamp) # Day(clock) /\ stamp < 24 * (Day(clock) - 1) + 18

(* Saved before the last 18:00. What was saved today is never older than   *)
(* 18:00 of yesterday: the test for today changes nothing.                 *)
BeforeSix(stamp) ==
    IF Hour(clock) >= 18 THEN stamp < 24 * Day(clock) + 18
    ELSE Day(stamp) # Day(clock) /\ stamp < 24 * (Day(clock) - 1) + 18

IsExpired == IF kind = "daily" THEN BeforeSix(entry.stamp) ELSE clock - entry.stamp > MaxAge

-----------------------------------------------------------------------------
(* A request *)

(* The last day a series asked for at time t includes *)
EndDate(t) == IF Hour(t) >= 18 THEN Day(t) ELSE Day(t) - 1

AskService ==
    /\ request.point = "idle"
    /\ ~Filled \/ IsExpired
    /\ request' = [point |-> "asked", begun |-> clock,
                   entry |-> [end |-> EndDate(clock), stamp |-> -1]]
    /\ UNCHANGED <<kind, clock, entry, unlimited>>

(* No token answers, or the answer holds no data *)
NoAnswer ==
    /\ request.point = "asked"
    /\ request' = NoRequest
    /\ UNCHANGED <<kind, clock, entry, unlimited>>

(* save_stock_data: the time is taken and the file opened *)
OpenCache ==
    /\ request.point = "asked"
    /\ request' = [request EXCEPT !.point = "saving", !.entry.stamp = clock]
    /\ entry' = NoEntry
    /\ UNCHANGED <<kind, clock, unlimited>>

WriteCache ==
    /\ request.point = "saving"
    /\ entry' = request.entry
    /\ request' = NoRequest
    /\ UNCHANGED <<kind, clock, unlimited>>

(* The program ends or dies; the next one reads its configuration again *)
Killed ==
    /\ request.point # "idle" \/ unlimited
    /\ request' = NoRequest
    /\ unlimited' = FALSE
    /\ UNCHANGED <<kind, clock, entry>>

-----------------------------------------------------------------------------
(* Debug mode *)

(* run_filter with --debug raises the ages of the configuration, and       *)
(* nothing lowers them again: the later runs of the program have them too  *)
DebugRun ==
    /\ request.point = "idle" /\ ~unlimited
    /\ unlimited' = TRUE
    /\ UNCHANGED <<kind, clock, entry, request>>

HourPasses ==
    /\ clock < MaxHours
    /\ request.point = "idle" \/ (request.point = "asked" /\ clock - request.begun < MaxRequest)
    /\ clock' = clock + 1
    /\ UNCHANGED <<kind, entry, request, unlimited>>

CacheNext ==
    \/ AskService \/ NoAnswer \/ OpenCache \/ WriteCache \/ Killed
    \/ DebugRun \/ HourPasses

CacheSpec == CacheInit /\ [][CacheNext]_cacheVars

-----------------------------------------------------------------------------
(* Properties *)

CacheEntry   == [end : -1 .. Day(MaxHours), stamp : -1 .. MaxHours]
CacheRequest == [point : {"idle", "asked", "saving"}, begun : 0 .. MaxHours, entry : CacheEntry]

(* The file and the request hold times and dates up to now. *)
CacheTypeOK ==
    /\ unlimited \in BOOLEAN
    /\ kind \in Kinds
    /\ clock \in 0 .. MaxHours
    /\ entry \in CacheEntry
    /\ request \in CacheRequest

(* 18:00 came between the choice of the end and the time stamp *)
Crossed == entry.end < EndDate(entry.stamp)

(* The daily series expires exactly when a new request would bring a later *)
(* day: the rule of 18:00 and the end date that is asked for fit together, *)
(* so that no run works on an old day or asks for what it has. The one gap *)
(* is a request during which 18:00 struck: it lacks a day and counts as    *)
(* fresh until the next 18:00.                                             *)
DailyExact ==
    kind = "daily" /\ Filled =>
        IF Crossed THEN ~IsExpired => entry.end = EndDate(clock) - 1
        ELSE IsExpired <=> entry.end < EndDate(clock)

(* The file has its form, and a daily series is as old as its expiry says *)
CacheInv == CacheTypeOK /\ DailyExact

-----------------------------------------------------------------------------
(* What a comment says of the cache and the code does not do *)

FromCache == Filled /\ ~IsExpired       \* a caller would get what the file holds

MissedCloses == {d \in 0 .. Day(clock) :
                    Weekday(d) /\ entry.stamp < 24 * d + 15 /\ 24 * d + 15 <= clock}

(* Outside trading hours a quotation need not be fetched again, since it   *)
(* does not change after the close. The age does not say that it was       *)
(* fetched after the close: one taken before the opening is used in the    *)
(* evening of the same day.                                                *)
QuotationHasTheClose == kind = "realtime" /\ FromCache /\ ~Trading => MissedCloses = {}

=============================================================================
