----------------------------- MODULE Scheduler -----------------------------
(***************************************************************************)
(* When the pipeline runs, and for which day: next_trading_day and         *)
(* PipelineScheduler of pipeline/orchestrator.py, and the --run mode of    *)
(* pipeline/main.py, which runs once at once and then starts the           *)
(* scheduler. Time is a day (day 0 is a Monday) and the hour of the next   *)
(* thing that happens in it. APScheduler is external: it fires a job at    *)
(* its time, and skips it when its previous run has not ended.             *)
(***************************************************************************)
EXTENDS Integers, FiniteSets

CONSTANTS
    LastDay,          \* bound: the last day the model looks at
    HolidayChoices,   \* weekdays that may be public holidays
    LastKnown,        \* last day the installed chinese_calendar knows
    ScheduleHours,    \* the values of config.schedule_time (--time) looked at
    FirstRunHours,    \* the hours of day 0 at which "--run" may be started
    Overrun,          \* hours a run may go on after its deadline
    NoJob

Days  == 0..LastDay
Hours == {1, 9, 10, 12, 23} \cup ScheduleHours

ASSUME SchedulerAssumption ==
    /\ LastDay \in Nat /\ LastKnown \in Int /\ Overrun \in Nat
    /\ ScheduleHours \subseteq 0..23
    /\ FirstRunHours \subseteq Hours
    /\ HolidayChoices \subseteq Days
    /\ NoJob \notin Nat /\ NoJob \notin [target : Nat, deadline : Nat, begun : Nat]

VARIABLES
    day, hour,   \* datetime.now()
    scheduleHour, \* config.schedule_time
    holidays,    \* the public holidays of the year
    serving,     \* scheduler.start() was reached
    job,         \* the run of the pipeline in progress: its target, deadline and beginning
    fired,       \* the jobs fired at this hour
    first,       \* the day the first run of --run is for, or NoJob
    targets,     \* history: how often a scheduled run was for each day
    skipped,     \* history: days whose trigger was dropped or came too early
    research     \* history: days on which the strategy researcher ran

vars == <<day, hour, scheduleHour, holidays, serving, job, fired, first, targets, skipped, research>>

Min(S) == CHOOSE x \in S : \A y \in S : x <= y

-----------------------------------------------------------------------------
(* The trading calendar *)

Weekday(d) == d % 7

(* is_holiday raises for a weekday beyond the years the library knows *)
CalendarKnows(d) == Weekday(d) >= 5 \/ d <= LastKnown

IsDateTradingDay(d) == Weekday(d) < 5 /\ d \notin holidays

(* the deadline of a run: 09:00 on its report date *)
At(d, h)    == 24 * d + h
Deadline(d) == At(d, 9)

(* A plausible mistake, used by no specification: the loop steps to the    *)
(* next candidate before it tests the first one.                           *)
NextTradingDayStepsFirst(d, h) ==
    LET candidate == IF h <= 9 THEN d ELSE d + 1
        trading   == {c \in (candidate + 1)..(candidate + 10) : IsDateTradingDay(c)}
    IN  IF trading = {} THEN candidate + 10 ELSE Min(trading)

(* Another: today counts until the market closes *)
NextTradingDayUntilClose(d, h) ==
    LET candidate == IF h <= 15 THEN d ELSE d + 1
        trading   == {c \in candidate..(candidate + 9) : IsDateTradingDay(c)}
    IN  IF trading = {} THEN candidate + 10 ELSE Min(trading)

(* The market opens at 09:30: hour 9 stands for 09:00 to 09:30. It is used *)
(* for the first run only, whose candidates the calendar knows.            *)
NextTradingDay(d, h) ==
    LET candidate == IF h <= 9 THEN d ELSE d + 1
        trading   == {c \in candidate..(candidate + 9) : IsDateTradingDay(c)}
    IN  IF trading = {} THEN candidate + 10 ELSE Min(trading)

-----------------------------------------------------------------------------
(* --schedule starts the scheduler; --run first runs for the next trading day *)
Init ==
    /\ day = 0
    /\ holidays \in SUBSET HolidayChoices
    /\ fired = {}
    /\ targets = [d \in 0..(LastDay + 1) |-> 0]
    /\ research = {}
    /\ scheduleHour \in ScheduleHours
    /\ \/ hour = Min(Hours) /\ serving = TRUE /\ job = NoJob /\ first = NoJob /\ skipped = {}
       \/ /\ hour \in FirstRunHours
          /\ serving = FALSE
          /\ skipped = IF hour > scheduleHour THEN {1} ELSE {}
          /\ LET target == NextTradingDay(0, hour)
             IN  /\ first = target
                 /\ job = [target |-> target, deadline |-> Deadline(target), begun |-> At(0, hour)]

(* Plausible mistakes, used by no specification *)

(* the decision looks at today instead of tomorrow *)
FireIfToday ==
    /\ serving /\ hour = scheduleHour /\ "pipeline" \notin fired
    /\ fired' = fired \cup {"pipeline"}
    /\ IF job = NoJob /\ CalendarKnows(day) /\ IsDateTradingDay(day)
       THEN /\ job' = [target |-> day + 1, deadline |-> Deadline(day + 1), begun |-> At(day, hour)]
            /\ targets' = [targets EXCEPT ![day + 1] = @ + 1]
       ELSE UNCHANGED <<job, targets>>
    /\ UNCHANGED <<day, hour, scheduleHour, holidays, serving, first, skipped, research>>

(* the researcher looks at tomorrow, like _run_pipeline *)
FireResearcherTomorrow ==
    /\ serving /\ hour = 10 /\ "research" \notin fired
    /\ fired' = fired \cup {"research"}
    /\ research' = IF IsDateTradingDay(day + 1) THEN research \cup {day} ELSE research
    /\ UNCHANGED <<day, hour, scheduleHour, holidays, serving, job, first, targets, skipped>>

(* the trigger is skipped on weekends as well *)
FireWeekdaysOnly ==
    /\ serving /\ hour = scheduleHour /\ "pipeline" \notin fired
    /\ fired' = fired \cup {"pipeline"}
    /\ IF /\ job = NoJob /\ CalendarKnows(day + 1)
          /\ Weekday(day) < 5 /\ IsDateTradingDay(day + 1)
       THEN /\ job' = [target |-> day + 1, deadline |-> Deadline(day + 1), begun |-> At(day, hour)]
            /\ targets' = [targets EXCEPT ![day + 1] = @ + 1]
       ELSE UNCHANGED <<job, targets>>
    /\ skipped' = IF job # NoJob THEN skipped \cup {day + 1} ELSE skipped
    /\ UNCHANGED <<day, hour, scheduleHour, holidays, serving, first, research>>

-----------------------------------------------------------------------------
(* _run_pipeline: only when tomorrow is a trading day. APScheduler drops   *)
(* the trigger while the previous run is in progress (max_instances = 1).  *)
Fire ==
    /\ serving /\ hour = scheduleHour /\ "pipeline" \notin fired
    /\ fired' = fired \cup {"pipeline"}
    /\ IF job = NoJob /\ CalendarKnows(day + 1) /\ IsDateTradingDay(day + 1)
       THEN /\ job' = [target |-> day + 1, deadline |-> Deadline(day + 1), begun |-> At(day, hour)]
            /\ targets' = [targets EXCEPT ![day + 1] = @ + 1]
       ELSE UNCHANGED <<job, targets>>
    /\ skipped' = IF job # NoJob THEN skipped \cup {day + 1} ELSE skipped
    /\ UNCHANGED <<day, hour, scheduleHour, holidays, serving, first, research>>

(* _run_researcher, every day at 10:00 *)
FireResearcher ==
    /\ serving /\ hour = 10 /\ "research" \notin fired
    /\ fired' = fired \cup {"research"}
    /\ research' = IF CalendarKnows(day) /\ IsDateTradingDay(day) THEN research \cup {day} ELSE research
    /\ UNCHANGED <<day, hour, scheduleHour, holidays, serving, job, first, targets, skipped>>

(* The run in progress ends; after the first one, --run starts the scheduler *)
EndRun ==
    /\ job # NoJob
    /\ job' = NoJob
    /\ serving' = TRUE
    /\ UNCHANGED <<day, hour, scheduleHour, holidays, fired, first, targets, skipped, research>>

(* The clock moves to the next hour at which something happens, once the  *)
(* jobs of this hour have fired. A run ends at most Overrun hours after    *)
(* its deadline, when the analyses begun before it have timed out.         *)
Due == (IF hour = scheduleHour THEN {"pipeline"} ELSE {})
       \cup (IF hour = 10 THEN {"research"} ELSE {})

Advance ==
    LET later == {h \in Hours : h > hour}
        d     == IF later = {} THEN day + 1 ELSE day
        h     == IF later = {} THEN Min(Hours) ELSE Min(later)
    IN  /\ serving => Due \subseteq fired
        /\ d <= LastDay
        /\ job # NoJob => At(d, h) <= job.deadline + Overrun
        /\ day' = d /\ hour' = h /\ fired' = {}
        /\ skipped' = IF ~serving /\ hour = scheduleHour THEN skipped \cup {day + 1} ELSE skipped
        /\ UNCHANGED <<scheduleHour, holidays, serving, job, first, targets, research>>

Finished == /\ day = LastDay /\ hour = 23 /\ job = NoJob
            /\ serving /\ Due \subseteq fired
            /\ UNCHANGED vars

Next == Fire \/ FireResearcher \/ EndRun \/ Advance \/ Finished

Spec == Init /\ [][Next]_vars

-----------------------------------------------------------------------------
(* Types: a run is for a day of the calendar and has a deadline *)
TypeOK ==
    /\ day \in Days /\ hour \in Hours /\ scheduleHour \in ScheduleHours /\ holidays \in SUBSET Days
    /\ serving \in BOOLEAN
    /\ job \in [target : 0..(LastDay + 14), deadline : Nat, begun : Nat] \cup {NoJob}
    /\ fired \in SUBSET {"pipeline", "research"}
    /\ first \in Nat \cup {NoJob}
    /\ targets \in [0..(LastDay + 1) -> Nat]
    /\ skipped \in SUBSET Nat /\ research \in SUBSET Days

(* The scheduler runs the pipeline for a trading day only, and for none    *)
(* twice, however its runs overlap its triggers.                           *)
OncePerTradingDay ==
    \A d \in DOMAIN targets : targets[d] > 0 => targets[d] = 1 /\ IsDateTradingDay(d)

TradingSoFar == {d \in 1..day : IsDateTradingDay(d) /\ d <= LastKnown}
HasRun(d)    == targets[d] = 1 \/ d = first

(* A run is over before the next trigger, even if it goes on to the end *)
EveningTrigger == scheduleHour > 9 + Overrun

(* With a trigger in the evening no trading day that the calendar knows is *)
(* left out: when it comes a run for it was started. Weekends, holidays    *)
(* and holiday weeks must all lead up to it, and a first run of --run,     *)
(* begun at any time of the day, must not take a day from the scheduler.   *)
EveryTradingDayRun == EveningTrigger => \A d \in TradingSoFar : HasRun(d)

(* The only way a trading day is left out is that its trigger came while   *)
(* the previous run, or the first run of --run, was in progress, or before *)
(* the program was started.                                                *)
LeftOutOnlyIfBusy == \A d \in TradingSoFar : HasRun(d) \/ d \in skipped

(* The first run of --run, begun between 09:00 and 09:30 of a trading day: *)
(* it is for that day, whose deadline has passed.                          *)
BegunAtOpening == ~serving /\ job.target = 0 /\ job.begun = At(0, 9)

(* Every run in progress, the first one of --run too, began before its     *)
(* deadline, with the one exception above (it analyses nothing: each stock *)
(* is skipped as late). No run is for an earlier day than a run before it: *)
(* the scheduler goes on where the first run left off, and at most repeats *)
(* its day.                                                                *)
RunsInTimeAndOrder ==
    /\ job # NoJob =>
          /\ job.begun < job.deadline \/ BegunAtOpening
          /\ \A d \in DOMAIN targets : targets[d] > 0 => d <= job.target
    /\ first # NoJob => \A d \in DOMAIN targets : targets[d] > 0 => d >= first

(* The researcher of --schedule runs on every trading day that has passed, *)
(* and the one of either mode on no other day.                             *)
ResearchOnTradingDays ==
    /\ first = NoJob => \A d \in TradingSoFar : d < day => d \in research
    /\ \A d \in research : IsDateTradingDay(d)

(* Every trading day has its one run, or met a busy scheduler: the parts   *)
(* above as one invariant.                                                 *)
ScheduleInv ==
    /\ TypeOK /\ OncePerTradingDay /\ EveryTradingDayRun /\ LeftOutOnlyIfBusy
    /\ ResearchOnTradingDays

-----------------------------------------------------------------------------
(* What the documentation says and the code does not do *)

(* The scheduler runs the pipeline on every trading day, whatever its      *)
(* time is.                                                                *)
NoTradingDayLeftOut == \A d \in TradingSoFar : HasRun(d)
=============================================================================
