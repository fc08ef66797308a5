-------------------------- MODULE SchedulerProofs --------------------------
(***************************************************************************)
(* Proofs about the scheduler: every trading day has its one run or met a  *)
(* busy scheduler (ScheduleInv), and runs begin before their deadline and  *)
(* in the order of their days (RunsInTimeAndOrder), for every length of    *)
(* the calendar, every choice of holidays, every schedule_time and every   *)
(* overrun.                                                                *)
(*                                                                         *)
(* ScheduleInv speaks of the days up to today, and the run of a day is     *)
(* started on the day before: the inductive invariant speaks of the days   *)
(* whose trigger has passed.                                               *)
(***************************************************************************)
EXTENDS Scheduler, WellFoundedInduction, TLAPS

-----------------------------------------------------------------------------
(* The inductive invariant *)

(* The trigger of day d's run, on the day before, has passed *)
Passed(d) ==
    \/ d <= day
    \/ d = day + 1 /\ (hour > scheduleHour \/ "pipeline" \in fired)

Known(d) == IsDateTradingDay(d) /\ d <= LastKnown

(* What has fired this hour was due this hour *)
FiredInv ==
    /\ "pipeline" \in fired => serving /\ hour = scheduleHour
    /\ "research" \in fired => hour = 10

(* A run goes on for at most Overrun hours after its deadline. A run of    *)
(* the scheduler has been counted for its day; until the scheduler is      *)
(* started the run is the first one of --run.                              *)
JobInv ==
    /\ job # NoJob =>
          /\ At(day, hour) <= job.deadline + Overrun
          /\ job.deadline = Deadline(job.target)
          /\ serving => job.target \in 0..(LastDay + 1) /\ targets[job.target] > 0
    /\ ~serving => job # NoJob /\ first # NoJob /\ job.target = first

(* A run began before its deadline, or at the opening of its first day. No *)
(* run was for a later day than the one in progress.                       *)
BegunInv ==
    job # NoJob =>
        /\ job.begun < job.deadline \/ BegunAtOpening
        /\ \A d \in 0..(LastDay + 1) : targets[d] > 0 => d <= job.target

(* The first run of --run is for the next trading day *)
FirstInv ==
    first # NoJob => \A d \in 1..(first - 1) : ~IsDateTradingDay(d)

(* A run was counted only for a trading day whose trigger has passed *)
TargetInv ==
    \A d \in 0..(LastDay + 1) :
        targets[d] > 0 => targets[d] = 1 /\ IsDateTradingDay(d) /\ Passed(d) /\ d >= 1

(* Every trigger that has passed started a run or was dropped *)
PassedInv ==
    \A d \in 1..(LastDay + 1) : Known(d) /\ Passed(d) =>
        /\ HasRun(d) \/ d \in skipped
        /\ EveningTrigger => HasRun(d)

(* The same for the researcher, whose trigger is at 10:00 of the day *)
ResearchInv ==
    /\ first = NoJob =>
          /\ serving
          /\ \A d \in 1..day :
                Known(d) /\ (d < day \/ hour > 10 \/ "research" \in fired) => d \in research
    /\ \A d \in research : IsDateTradingDay(d)

SchedulerInv ==
    TypeOK /\ FiredInv /\ JobInv /\ BegunInv /\ FirstInv /\ TargetInv /\ PassedInv /\ ResearchInv
-----------------------------------------------------------------------------
(* The operators of the model *)

(* A set of naturals that is not empty has the minimum that Min names *)
LEMMA MinIsLeast ==
  ASSUME NEW S, S \subseteq Nat, S # {}
  PROVE  Min(S) \in S /\ \A y \in S : Min(S) <= y
<1>1. \E x \in S : \A y \in S : ~(<<y, x>> \in OpToRel(<, Nat))
  BY WFMin, NatLessThanWellFounded
<1>2. PICK x \in S : \A y \in S : ~(<<y, x>> \in OpToRel(<, Nat))
  BY <1>1
<1>3. ASSUME NEW y \in S
      PROVE  x <= y
  <2>1. x \in Nat /\ y \in Nat
    OBVIOUS
  <2>2. OpToRel(<, Nat) = {ss \in Nat \X Nat : ss[1] < ss[2]}
    BY DEF OpToRel
  <2>3. ~(y < x)
    BY <1>2, <2>1, <2>2
  <2> QED BY <2>1, <2>3
<1> QED BY <1>3 DEF Min

(* The hours are hours of a day, and the triggers are among them *)
LEMMA HoursOfDay ==
  Hours \subseteq 0..23 /\ Hours # {} /\ 10 \in Hours /\ ScheduleHours \subseteq Hours
BY SchedulerAssumption DEF Hours

(* The clock moves to the next of the hours, or to the first of the next day *)
LEMMA ClockMoves ==
  ASSUME TypeOK, Advance
  PROVE  /\ fired' = {} /\ (serving => Due \subseteq fired)
         /\ UNCHANGED <<scheduleHour, holidays, serving, job, first, targets, research>>
         /\ job # NoJob => At(day', hour') <= job.deadline + Overrun
         /\ day' \in Days /\ hour' \in Hours
         /\ \/ day' = day /\ hour' > hour /\ \A h \in Hours : h > hour => hour' <= h
            \/ /\ day' = day + 1 /\ (\A h \in Hours : h <= hour)
               /\ \A h \in Hours : hour' <= h
<1> DEFINE later == {h \in Hours : h > hour}
<1>1. fired' = {} /\ (serving => Due \subseteq fired)
  BY DEF Advance
<1>2. UNCHANGED <<scheduleHour, holidays, serving, job, first, targets, research>>
  BY DEF Advance
<1>3. job # NoJob => At(day', hour') <= job.deadline + Overrun
  BY DEF Advance
<1>4. CASE later = {}
  <2>1. day' = day + 1 /\ hour' = Min(Hours) /\ day + 1 <= LastDay
    BY <1>4 DEF Advance
  <2>2. hour' \in Hours /\ \A h \in Hours : hour' <= h
    <3>1. Hours \subseteq Nat /\ Hours # {}
      BY HoursOfDay
    <3> QED BY <2>1, <3>1, MinIsLeast
  <2>3. \A h \in Hours : h <= hour
    BY <1>4, HoursOfDay DEF TypeOK
  <2>4. day' \in Days
    BY <2>1, SchedulerAssumption DEF TypeOK, Days
  <2> QED BY <1>1, <1>2, <1>3, <2>1, <2>2, <2>3, <2>4
<1>5. CASE later # {}
  <2>1. day' = day /\ hour' = Min(later)
    BY <1>5 DEF Advance
  <2>2. later \subseteq Nat
    <3>1. Hours \subseteq Nat
      BY HoursOfDay
    <3> QED BY <3>1
  <2>3. hour' \in later /\ \A h \in later : hour' <= h
    BY <2>1, <2>2, <1>5, MinIsLeast
  <2>4. hour' \in Hours /\ hour' > hour /\ \A h \in Hours : h > hour => hour' <= h
    BY <2>3
  <2>5. day' \in Days
    BY <2>1 DEF TypeOK
  <2> QED BY <1>1, <1>2, <1>3, <2>1, <2>4, <2>5
<1> QED BY <1>4, <1>5

(* The first run of --run is for the first trading day that the program    *)
(* does not come too late for: no trading day lies before it.              *)
LEMMA NextTradingDayIsNext ==
  ASSUME NEW h \in 0..23
  PROVE  /\ NextTradingDay(0, h) \in 0..11
         /\ h > 9 => NextTradingDay(0, h) >= 1
         /\ \A d \in 1..(NextTradingDay(0, h) - 1) : ~IsDateTradingDay(d)
<1> DEFINE candidate == IF h <= 9 THEN 0 ELSE 1
           trading   == {c \in candidate..(candidate + 9) : IsDateTradingDay(c)}
<1>1. candidate \in 0..1 /\ (h > 9 => candidate = 1)
  OBVIOUS
<1>2. NextTradingDay(0, h) = IF trading = {} THEN candidate + 10 ELSE Min(trading)
  BY DEF NextTradingDay
<1> HIDE DEF candidate
<1>3. trading \subseteq candidate..(candidate + 9)
  OBVIOUS
<1>4. CASE trading = {}
  <2>1. \A d \in 1..(candidate + 9) : ~IsDateTradingDay(d)
    BY <1>4, <1>1
  <2> QED BY <1>1, <1>2, <1>4, <2>1
<1>5. CASE trading # {}
  <2>1. trading \subseteq Nat
    BY <1>1, <1>3
  <2>2. Min(trading) \in trading /\ \A c \in trading : Min(trading) <= c
    BY <2>1, <1>5, MinIsLeast
  <2>3. NextTradingDay(0, h) = Min(trading)
    BY <1>2, <1>5
  <2>4. ASSUME NEW d \in 1..(Min(trading) - 1)
        PROVE  ~IsDateTradingDay(d)
    <3>1. d \in candidate..(candidate + 9) /\ ~(Min(trading) <= d)
      BY <1>1, <1>3, <2>2
    <3>2. d \notin trading
      BY <2>2, <3>1
    <3> QED BY <3>1, <3>2
  <2> QED BY <1>1, <1>3, <2>2, <2>3, <2>4
<1> QED BY <1>4, <1>5

-----------------------------------------------------------------------------
(* The invariant holds initially *)

LEMMA InitSchedulerInv ==
  ASSUME Init
  PROVE  SchedulerInv
<1> DEFINE T == NextTradingDay(0, hour)
<1>1. day = 0 /\ fired = {} /\ research = {} /\ targets = [d \in 0..(LastDay + 1) |-> 0]
  BY DEF Init
<1>2. scheduleHour \in ScheduleHours /\ scheduleHour \in 0..23 /\ holidays \in SUBSET Days
  BY SchedulerAssumption DEF Init
<1>3. FiredInv /\ TargetInv
  BY <1>1 DEF FiredInv, TargetInv
<1>4. CASE hour = Min(Hours) /\ serving = TRUE /\ job = NoJob /\ first = NoJob /\ skipped = {}
  <2>1. hour \in Hours /\ hour <= scheduleHour /\ hour \in 0..23
    <3>1. Hours \subseteq Nat /\ Hours # {}
      BY HoursOfDay
    <3> QED BY <1>2, <1>4, <3>1, HoursOfDay, MinIsLeast
  <2>2. TypeOK
    BY <1>1, <1>2, <1>4, <2>1, SchedulerAssumption DEF TypeOK, Days
  <2>3. JobInv /\ BegunInv /\ FirstInv
    BY <1>4 DEF JobInv, BegunInv, FirstInv
  <2>4. PassedInv
    BY <1>1, <1>2, <2>1, SchedulerAssumption DEF PassedInv, Passed
  <2>5. ResearchInv
    BY <1>1, <1>4 DEF ResearchInv
  <2> QED BY <1>3, <2>2, <2>3, <2>4, <2>5 DEF SchedulerInv
<1>5. CASE /\ hour \in FirstRunHours /\ serving = FALSE
           /\ skipped = IF hour > scheduleHour THEN {1} ELSE {}
           /\ first = T /\ job = [target |-> T, deadline |-> Deadline(T), begun |-> At(0, hour)]
  <2> HIDE DEF T
  <2>1. hour \in Hours /\ hour \in 0..23
    BY <1>5, SchedulerAssumption, HoursOfDay
  <2>2. /\ T \in 0..11 /\ (hour > 9 => T >= 1)
        /\ \A d \in 1..(T - 1) : ~IsDateTradingDay(d)
    BY <2>1, NextTradingDayIsNext DEF T
  <2>3. job \in [target : 0..(LastDay + 14), deadline : Nat, begun : Nat] /\ job # NoJob /\ first # NoJob
    BY <1>5, <2>1, <2>2, SchedulerAssumption DEF Deadline, At
  <2>4. TypeOK
    <3>1. skipped \in SUBSET Nat /\ first \in Nat /\ serving \in BOOLEAN
      <4>1. skipped = {1} \/ skipped = {}
        BY <1>5
      <4>2. skipped \in SUBSET Nat
        BY <4>1
      <4>3. first \in Nat
        BY <1>5, <2>2
      <4> QED BY <1>5, <4>2, <4>3, Zenon
    <3>2. day \in Days /\ targets \in [0..(LastDay + 1) -> Nat]
      BY <1>1, SchedulerAssumption DEF Days
    <3> QED BY <1>1, <1>2, <2>1, <2>3, <3>1, <3>2 DEF TypeOK
  <2>5. JobInv
    BY <1>1, <1>5, <2>1, <2>2, <2>3, SchedulerAssumption DEF JobInv, Deadline, At
  <2>a. BegunInv
    <3>1. job.begun = hour /\ job.deadline = 24 * T + 9 /\ job.target = T
      BY <1>5, <2>1, <2>2 DEF Deadline, At
    <3>2. job.begun < job.deadline \/ BegunAtOpening
      BY <1>5, <2>1, <2>2, <3>1 DEF BegunAtOpening, At
    <3> QED BY <1>1, <3>2 DEF BegunInv
  <2>6. FirstInv
    BY <1>5, <2>2 DEF FirstInv
  <2>7. PassedInv
    <3> SUFFICES ASSUME NEW d \in 1..(LastDay + 1), Known(d), Passed(d)
                 PROVE  d \in skipped /\ (EveningTrigger => HasRun(d))
      BY DEF PassedInv
    <3>1. d = 1 /\ hour > scheduleHour
      BY <1>1, SchedulerAssumption DEF Passed
    <3>2. EveningTrigger => d = T
      BY <1>2, <2>1, <2>2, <3>1, SchedulerAssumption DEF EveningTrigger, Known
    <3> QED BY <1>5, <3>1, <3>2 DEF HasRun
  <2>8. ResearchInv
    BY <1>1, <2>3 DEF ResearchInv
  <2> QED BY <1>3, <2>4, <2>5, <2>a, <2>6, <2>7, <2>8 DEF SchedulerInv
<1> QED BY <1>4, <1>5 DEF Init

-----------------------------------------------------------------------------
(* Every step preserves it *)

(* What a step that leaves the clock alone cannot disturb *)
LEMMA SameCalendar ==
  ASSUME UNCHANGED holidays
  PROVE  \A d : (IsDateTradingDay(d))' = IsDateTradingDay(d) /\ (Known(d))' = Known(d)
BY DEF IsDateTradingDay, Known

LEMMA FireSchedulerInv ==
  ASSUME SchedulerInv, Fire
  PROVE  SchedulerInv'
<1>0. TypeOK /\ FiredInv /\ JobInv /\ BegunInv /\ FirstInv /\ TargetInv /\ PassedInv /\ ResearchInv
  BY DEF SchedulerInv
<1>1. /\ serving /\ hour = scheduleHour /\ "pipeline" \notin fired
      /\ fired' = fired \cup {"pipeline"}
      /\ UNCHANGED <<day, hour, scheduleHour, holidays, serving, first, research>>
  BY DEF Fire
<1>2. \A d : (IsDateTradingDay(d))' = IsDateTradingDay(d) /\ (Known(d))' = Known(d)
  BY <1>1, SameCalendar
<1>3. day \in 0..LastDay /\ day + 1 \in 0..(LastDay + 1) /\ day \in Nat /\ LastDay \in Nat
  BY <1>0, SchedulerAssumption DEF TypeOK, Days
<1>4. hour \in 0..23
  BY <1>0, HoursOfDay DEF TypeOK
<1>5. targets \in [0..(LastDay + 1) -> Nat]
  BY <1>0 DEF TypeOK
<1>6. \A d \in 0..(LastDay + 1) : Passed(d)' <=> Passed(d) \/ d = day + 1
  BY <1>1, <1>3 DEF Passed
<1>7. ~Passed(day + 1) /\ targets[day + 1] = 0
  <2>1. ~Passed(day + 1)
    BY <1>1, <1>3, <1>4 DEF Passed
  <2> QED BY <2>1, <1>0, <1>3, <1>5 DEF TargetInv
<1>8. FiredInv' /\ FirstInv'
  BY <1>0, <1>1, <1>2 DEF FiredInv, FirstInv
<1>9. ResearchInv'
  BY <1>0, <1>1, <1>2 DEF ResearchInv
<1>10. CASE job = NoJob /\ CalendarKnows(day + 1) /\ IsDateTradingDay(day + 1)
  <2> DEFINE new == [target |-> day + 1, deadline |-> Deadline(day + 1), begun |-> At(day, hour)]
  <2>1. /\ job' = new /\ targets' = [targets EXCEPT ![day + 1] = @ + 1]
        /\ skipped' = skipped
    BY <1>10 DEF Fire
  <2>2. targets'[day + 1] = 1 /\ \A d \in 0..(LastDay + 1) : d # day + 1 => targets'[d] = targets[d]
    BY <2>1, <1>3, <1>5, <1>7
  <2>3. TypeOK'
    BY <1>0, <1>1, <1>3, <1>4, <2>1, SchedulerAssumption, SMTT(30) DEF TypeOK, Deadline, At
  <2>4. JobInv'
    BY <1>1, <1>3, <1>4, <2>1, <2>2, SchedulerAssumption DEF JobInv, Deadline, At
  <2>a. BegunInv'
    <3>1. job'.begun < job'.deadline
      BY <1>3, <1>4, <2>1 DEF Deadline, At
    <3>2. \A d \in 0..(LastDay + 1) : targets'[d] > 0 => d <= day + 1
      BY <1>0, <1>3, <2>2 DEF TargetInv, Passed
    <3> QED BY <2>1, <3>1, <3>2 DEF BegunInv
  <2>5. TargetInv'
    BY <1>0, <1>2, <1>3, <1>6, <1>10, <2>2 DEF TargetInv
  <2>6. PassedInv'
    BY <1>0, <1>1, <1>2, <1>3, <1>6, <2>1, <2>2 DEF PassedInv, HasRun, EveningTrigger
  <2> QED BY <1>8, <1>9, <2>3, <2>4, <2>a, <2>5, <2>6 DEF SchedulerInv
<1>11. CASE ~(job = NoJob /\ CalendarKnows(day + 1) /\ IsDateTradingDay(day + 1))
  <2>1. /\ UNCHANGED <<job, targets>>
        /\ skipped' = IF job # NoJob THEN skipped \cup {day + 1} ELSE skipped
    BY <1>11 DEF Fire
  <2>2. TypeOK'
    BY <1>0, <1>1, <1>3, <2>1 DEF TypeOK
  <2>3. JobInv' /\ BegunInv'
    BY <1>0, <1>1, <2>1 DEF JobInv, BegunInv, BegunAtOpening, At, Deadline
  <2>4. TargetInv'
    BY <1>0, <1>2, <1>6, <2>1 DEF TargetInv
  <2>5. job = NoJob => ~Known(day + 1)
    BY <1>11 DEF Known, CalendarKnows
  <2>6. job # NoJob => ~EveningTrigger
    <3> SUFFICES ASSUME job # NoJob, EveningTrigger
                 PROVE  FALSE
      OBVIOUS
    <3>1. job.target \in 0..(LastDay + 1) /\ Passed(job.target)
      BY <1>0, <1>1 DEF JobInv, TargetInv
    <3>2. job.target <= day
      BY <1>1, <1>3, <1>4, <3>1 DEF Passed
    <3>3. 24 * day + hour <= 24 * job.target + 9 + Overrun
      BY <1>0 DEF JobInv, At, Deadline
    <3> QED BY <1>1, <1>3, <1>4, <3>1, <3>2, <3>3, SchedulerAssumption DEF EveningTrigger
  <2>7. PassedInv'
    <3> SUFFICES ASSUME NEW d \in 1..(LastDay + 1), Known(d), Passed(d)'
                 PROVE  (HasRun(d) \/ d \in skipped') /\ (EveningTrigger => HasRun(d))
      BY <1>1, <1>2, <2>1 DEF PassedInv, HasRun, EveningTrigger
    <3>1. CASE Passed(d)
      BY <1>0, <2>1, <3>1 DEF PassedInv
    <3>2. CASE d = day + 1
      BY <2>1, <2>5, <2>6, <3>2
    <3> QED BY <1>6, <3>1, <3>2
  <2> QED BY <1>8, <1>9, <2>2, <2>3, <2>4, <2>7 DEF SchedulerInv
<1> QED BY <1>10, <1>11

LEMMA FireResearcherSchedulerInv ==
  ASSUME SchedulerInv, FireResearcher
  PROVE  SchedulerInv'
<1>0. TypeOK /\ FiredInv /\ JobInv /\ BegunInv /\ FirstInv /\ TargetInv /\ PassedInv /\ ResearchInv
  BY DEF SchedulerInv
<1>1. /\ serving /\ hour = 10 /\ fired' = fired \cup {"research"}
      /\ research' = IF CalendarKnows(day) /\ IsDateTradingDay(day)
                     THEN research \cup {day} ELSE research
      /\ UNCHANGED <<day, hour, scheduleHour, holidays, serving, job, first, targets, skipped>>
  BY DEF FireResearcher
<1>2. \A d : (IsDateTradingDay(d))' = IsDateTradingDay(d) /\ (Known(d))' = Known(d)
  BY <1>1, SameCalendar
<1>3. \A d : Passed(d)' <=> Passed(d)
  BY <1>1 DEF Passed
<1>4. TypeOK'
  BY <1>0, <1>1 DEF TypeOK
<1>5. FiredInv' /\ FirstInv'
  BY <1>0, <1>1, <1>2 DEF FiredInv, FirstInv
<1>6. JobInv' /\ BegunInv'
  BY <1>0, <1>1 DEF JobInv, BegunInv, BegunAtOpening, At, Deadline
<1>7. TargetInv' /\ PassedInv'
  BY <1>0, <1>1, <1>2, <1>3 DEF TargetInv, PassedInv, HasRun, EveningTrigger
<1>8. ResearchInv'
  <2>1. \A d \in research' : IsDateTradingDay(d)
    BY <1>0, <1>1 DEF ResearchInv
  <2>2. ASSUME first = NoJob, NEW d \in 1..day, Known(d)
        PROVE  d \in research'
    <3>1. day \in Nat
      BY <1>0 DEF TypeOK, Days
    <3>2. d < day => d \in research
      BY <1>0, <2>2 DEF ResearchInv
    <3>3. d = day => CalendarKnows(day) /\ IsDateTradingDay(day)
      BY <2>2 DEF Known, CalendarKnows
    <3> QED BY <1>1, <3>1, <3>2, <3>3
  <2> QED BY <1>0, <1>1, <1>2, <2>1, <2>2 DEF ResearchInv
<1> QED BY <1>4, <1>5, <1>6, <1>7, <1>8 DEF SchedulerInv

LEMMA EndRunSchedulerInv ==
  ASSUME SchedulerInv, EndRun
  PROVE  SchedulerInv'
<1>0. TypeOK /\ FiredInv /\ JobInv /\ BegunInv /\ FirstInv /\ TargetInv /\ PassedInv /\ ResearchInv
  BY DEF SchedulerInv
<1>1. /\ job' = NoJob /\ serving' = TRUE
      /\ UNCHANGED <<day, hour, scheduleHour, holidays, fired, first, targets, skipped, research>>
  BY DEF EndRun
<1>2. \A d : (IsDateTradingDay(d))' = IsDateTradingDay(d) /\ (Known(d))' = Known(d)
  BY <1>1, SameCalendar
<1>3. \A d : Passed(d)' <=> Passed(d)
  BY <1>1 DEF Passed
<1>4. TypeOK'
  BY <1>0, <1>1 DEF TypeOK
<1>5. FiredInv' /\ FirstInv'
  BY <1>0, <1>1, <1>2 DEF FiredInv, FirstInv
<1>6. JobInv' /\ BegunInv'
  BY <1>0, <1>1 DEF JobInv, BegunInv
<1>7. TargetInv' /\ PassedInv'
  BY <1>0, <1>1, <1>2, <1>3 DEF TargetInv, PassedInv, HasRun, EveningTrigger
<1>8. ResearchInv'
  BY <1>0, <1>1, <1>2 DEF ResearchInv
<1> QED BY <1>4, <1>5, <1>6, <1>7, <1>8 DEF SchedulerInv

LEMMA AdvanceSchedulerInv ==
  ASSUME SchedulerInv, Advance
  PROVE  SchedulerInv'
<1>0. TypeOK /\ FiredInv /\ JobInv /\ BegunInv /\ FirstInv /\ TargetInv /\ PassedInv /\ ResearchInv
  BY DEF SchedulerInv
<1>1. /\ fired' = {} /\ (serving => Due \subseteq fired)
      /\ UNCHANGED <<scheduleHour, holidays, serving, job, first, targets, research>>
      /\ job # NoJob => At(day', hour') <= job.deadline + Overrun
      /\ day' \in Days /\ hour' \in Hours
  BY <1>0, ClockMoves
<1>2. \/ day' = day /\ hour' > hour /\ \A h \in Hours : h > hour => hour' <= h
      \/ /\ day' = day + 1 /\ (\A h \in Hours : h <= hour)
         /\ \A h \in Hours : hour' <= h
  BY <1>0, ClockMoves
<1>3. skipped' = IF ~serving /\ hour = scheduleHour THEN skipped \cup {day + 1} ELSE skipped
  BY DEF Advance
<1>4. \A d : (IsDateTradingDay(d))' = IsDateTradingDay(d) /\ (Known(d))' = Known(d)
  BY <1>1, SameCalendar
<1>5. /\ day \in Nat /\ day \in 0..LastDay /\ hour \in 0..23 /\ hour' \in 0..23
      /\ scheduleHour \in Hours /\ scheduleHour \in 0..23 /\ 10 \in Hours
  BY <1>0, <1>1, HoursOfDay, SchedulerAssumption DEF TypeOK, Days
<1>6. \A d \in 0..(LastDay + 1) :
          Passed(d)' <=> Passed(d) \/ (d = day + 1 /\ hour = scheduleHour)
  <2>1. CASE /\ day' = day /\ hour' > hour /\ \A h \in Hours : h > hour => hour' <= h
    <3>1. hour' > scheduleHour <=> hour >= scheduleHour
      BY <1>5, <2>1
    <3>2. "pipeline" \in fired => hour = scheduleHour
      BY <1>0 DEF FiredInv
    <3> QED BY <1>1, <1>5, <2>1, <3>1, <3>2 DEF Passed
  <2>2. CASE /\ day' = day + 1 /\ (\A h \in Hours : h <= hour)
             /\ \A h \in Hours : hour' <= h
    <3>1. hour' <= scheduleHour /\ scheduleHour <= hour
      BY <1>5, <2>2
    <3> QED BY <1>1, <1>5, <2>2, <3>1 DEF Passed
  <2> QED BY <1>2, <2>1, <2>2
<1>7. TypeOK'
  BY <1>0, <1>1, <1>3, <1>5 DEF TypeOK
<1>8. FiredInv' /\ FirstInv'
  BY <1>0, <1>1, <1>4 DEF FiredInv, FirstInv
<1>9. JobInv' /\ BegunInv'
  BY <1>0, <1>1 DEF JobInv, BegunInv, BegunAtOpening, Deadline, At
<1>10. TargetInv'
  BY <1>0, <1>1, <1>4, <1>6 DEF TargetInv
<1>11. PassedInv'
  <2> SUFFICES ASSUME NEW d \in 1..(LastDay + 1), Known(d), Passed(d)'
               PROVE  (HasRun(d) \/ d \in skipped') /\ (EveningTrigger => HasRun(d))
    BY <1>1, <1>4 DEF PassedInv, HasRun, EveningTrigger
  <2>1. CASE Passed(d)
    BY <1>0, <1>3, <2>1 DEF PassedInv
  <2>2. CASE serving /\ d = day + 1 /\ hour = scheduleHour
    <3>1. "pipeline" \in fired
      BY <1>1, <2>2 DEF Due
    <3>2. Passed(d)
      BY <2>2, <3>1 DEF Passed
    <3> QED BY <2>1, <3>2
  <2>3. CASE ~serving /\ d = day + 1 /\ hour = scheduleHour
    <3>1. d \in skipped'
      BY <1>3, <2>3
    <3>2. ASSUME EveningTrigger
          PROVE  d = first
      <4>1. /\ job # NoJob /\ first # NoJob /\ job.target = first
            /\ 24 * day + hour <= 24 * first + 9 + Overrun
        BY <1>0, <2>3 DEF JobInv, At, Deadline
      <4>2. first \in Nat
        BY <1>0, <4>1 DEF TypeOK
      <4>3. d <= first
        BY <1>5, <2>3, <3>2, <4>1, <4>2, SchedulerAssumption DEF EveningTrigger
      <4>4. ~(d \in 1..(first - 1))
        BY <1>0, <4>1 DEF FirstInv, Known
      <4> QED BY <4>2, <4>3, <4>4
    <3> QED BY <3>1, <3>2 DEF HasRun
  <2> QED BY <1>6, <2>1, <2>2, <2>3
<1>12. ResearchInv'
  <2> SUFFICES ASSUME first = NoJob, NEW d \in 1..day', Known(d), d < day' \/ hour' > 10
               PROVE  d \in research
    BY <1>0, <1>1, <1>4 DEF ResearchInv
  <2>1. serving
    BY <1>0 DEF ResearchInv
  <2>2. hour = 10 => "research" \in fired
    BY <1>1, <2>1 DEF Due
  <2>3. d \in 1..day /\ (d < day \/ hour > 10 \/ hour = 10)
    <3>1. CASE day' = day /\ hour' > hour /\ \A h \in Hours : h > hour => hour' <= h
      BY <1>5, <3>1
    <3>2. CASE /\ day' = day + 1 /\ (\A h \in Hours : h <= hour)
               /\ \A h \in Hours : hour' <= h
      BY <1>5, <3>2
    <3> QED BY <1>2, <3>1, <3>2
  <2> QED BY <1>0, <2>2, <2>3 DEF ResearchInv
<1> QED BY <1>7, <1>8, <1>9, <1>10, <1>11, <1>12 DEF SchedulerInv

(* A step that changes nothing *)
LEMMA StutterSchedulerInv ==
  ASSUME SchedulerInv, UNCHANGED vars
  PROVE  SchedulerInv'
<1>0. TypeOK /\ FiredInv /\ JobInv /\ BegunInv /\ FirstInv /\ TargetInv /\ PassedInv /\ ResearchInv
  BY DEF SchedulerInv
<1>1. UNCHANGED <<day, hour, scheduleHour, holidays, serving, job, fired, first, targets, skipped, research>>
  BY DEF vars
<1>2. \A d : (IsDateTradingDay(d))' = IsDateTradingDay(d) /\ (Known(d))' = Known(d)
  BY <1>1, SameCalendar
<1>3. \A d : Passed(d)' <=> Passed(d)
  BY <1>1 DEF Passed
<1>4. TypeOK' /\ FiredInv' /\ FirstInv' /\ ResearchInv'
  BY <1>0, <1>1, <1>2 DEF TypeOK, FiredInv, FirstInv, ResearchInv
<1>5. JobInv' /\ BegunInv'
  BY <1>0, <1>1 DEF JobInv, BegunInv, BegunAtOpening, At, Deadline
<1>6. TargetInv' /\ PassedInv'
  BY <1>0, <1>1, <1>2, <1>3 DEF TargetInv, PassedInv, HasRun, EveningTrigger
<1> QED BY <1>4, <1>5, <1>6 DEF SchedulerInv

LEMMA SchedulerInvariant == Spec => []SchedulerInv
<1>1. SchedulerInv /\ [Next]_vars => SchedulerInv'
  BY FireSchedulerInv, FireResearcherSchedulerInv, EndRunSchedulerInv, AdvanceSchedulerInv,
     StutterSchedulerInv DEF Next, Finished
<1> QED BY <1>1, InitSchedulerInv, PTL DEF Spec

-----------------------------------------------------------------------------
(* The results *)

(* _run_pipeline and _run_researcher: every trading day the calendar knows *)
(* has its one run, or its trigger met a busy scheduler; with a trigger in *)
(* the evening none is left out; the researcher runs on trading days only. *)
THEOREM TradingDaysServed == Spec => []ScheduleInv
<1>1. SchedulerInv => ScheduleInv
  <2> SUFFICES ASSUME SchedulerInv
               PROVE  ScheduleInv
    OBVIOUS
  <2>0. TypeOK /\ TargetInv /\ PassedInv /\ ResearchInv
    BY DEF SchedulerInv
  <2>1. \A d \in TradingSoFar :
            d \in 1..(LastDay + 1) /\ d \in 1..day /\ d <= day /\ Known(d) /\ Passed(d)
    BY <2>0, SchedulerAssumption DEF TypeOK, Days, TradingSoFar, Known, Passed
  <2>2. OncePerTradingDay
    BY <2>0 DEF TypeOK, TargetInv, OncePerTradingDay
  <2>3. EveryTradingDayRun /\ LeftOutOnlyIfBusy
    BY <2>0, <2>1 DEF PassedInv, EveryTradingDayRun, LeftOutOnlyIfBusy
  <2>4. ResearchOnTradingDays
    BY <2>0, <2>1 DEF ResearchInv, ResearchOnTradingDays
  <2> QED BY <2>0, <2>2, <2>3, <2>4 DEF ScheduleInv
<1> QED BY <1>1, SchedulerInvariant, PTL

(* main and _run_pipeline: every run begins before its deadline, but the   *)
(* first one of --run when it is started at the opening of a trading day,  *)
(* and no run is for an earlier day than a run before it.                  *)
THEOREM RunsBeginInTime == Spec => []RunsInTimeAndOrder
<1>1. SchedulerInv => RunsInTimeAndOrder
  <2> SUFFICES ASSUME SchedulerInv PROVE RunsInTimeAndOrder
    OBVIOUS
  <2>1. DOMAIN targets = 0..(LastDay + 1)
    BY DEF SchedulerInv, TypeOK
  <2>2. ASSUME first # NoJob, NEW d \in DOMAIN targets, targets[d] > 0
        PROVE  d >= first
    <3>1. first \in Nat /\ d \in Nat /\ d >= 1 /\ IsDateTradingDay(d)
      BY <2>1, <2>2, SchedulerAssumption DEF SchedulerInv, TypeOK, TargetInv
    <3>2. d \notin 1..(first - 1)
      BY <2>2, <3>1 DEF SchedulerInv, FirstInv
    <3> QED BY <3>1, <3>2
  <2> QED BY <2>1, <2>2 DEF SchedulerInv, BegunInv, RunsInTimeAndOrder
<1> QED BY <1>1, SchedulerInvariant, PTL

=============================================================================
