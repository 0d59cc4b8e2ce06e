--------------------------- MODULE TaskSchedules ---------------------------
(***************************************************************************)
(* The schedule of a task of DSM's Task Scheduler, as a configuration      *)
(* states it and as DSM stores it, and the two conversions between them    *)
(* (encodeSchedule and parseSchedule of client/task_scheduler.go).         *)
(*                                                                         *)
(* A weekday of a configuration is [day, lower]: its number and whether    *)
(* its name is spelled in lower case, as DSM's is read back.               *)
(***************************************************************************)
EXTENDS Integers

Unset == -1  \* repeat_until_hour is null

Frequencies == {"daily", "weekly", "monthly"}
NoFrequency == "none"
WeeksOfMonth == {"first", "second", "third", "fourth", "last"}
Weekdays == [day : 0 .. 6, lower : BOOLEAN]
ValidRepeatIntervalMinutes == {0, 1, 5, 10, 15, 20, 30}

TaskSchedule ==
    [frequency : Frequencies, days : SUBSET Weekdays, weeks : SUBSET WeeksOfMonth,
     hour : Int, minute : Int, everyHours : Int, everyMinutes : Int, until : Int]

RepeatDate(frequency) ==
    CASE frequency = "daily" -> 1001
      [] frequency = "weekly" -> 1002
      [] frequency = "monthly" -> 1003

\* What encodeSchedule lets through; until is the hour if it is not configured.
Valid(s) ==
    /\ (s.frequency = "daily") = (s.days = {})
    /\ (s.frequency = "monthly") = (s.weeks # {})
    /\ s.hour \in 0 .. 23 /\ s.minute \in 0 .. 59 /\ s.everyHours \in 0 .. 23
    /\ s.everyMinutes \in ValidRepeatIntervalMinutes
    /\ s.everyHours = 0 \/ s.everyMinutes = 0
    /\ s.until = Unset \/ s.until \in s.hour .. 23

EncodeWeekDays(s) == IF s.frequency = "daily" THEN 0 .. 6 ELSE {d.day : d \in s.days}

EncodeSchedule(s) ==
    [repeatDate |-> RepeatDate(s.frequency), weekDay |-> EncodeWeekDays(s),
     monthlyWeek |-> s.weeks, hour |-> s.hour, minute |-> s.minute,
     repeatHour |-> s.everyHours, repeatMin |-> s.everyMinutes,
     lastWorkHour |-> IF s.until = Unset THEN s.hour ELSE s.until]

Frequency(repeatDate) ==
    CASE repeatDate = 1001 -> "daily"
      [] repeatDate = 1002 -> "weekly"
      [] repeatDate = 1003 -> "monthly"
      [] OTHER -> NoFrequency

\* Mutant: the weeks of the month are not read back.
ParseWithoutWeeks(doc) ==
    [frequency |-> Frequency(doc.repeatDate),
     days |-> IF doc.repeatDate = 1001 THEN {}
              ELSE [day : doc.weekDay \intersect (0 .. 6), lower : {TRUE}],
     weeks |-> {}, hour |-> doc.hour, minute |-> doc.minute,
     everyHours |-> doc.repeatHour, everyMinutes |-> doc.repeatMin,
     until |-> doc.lastWorkHour]

\* A schedule that is neither daily, weekly nor monthly has no frequency.
ParseSchedule(doc) ==
    [frequency |-> Frequency(doc.repeatDate),
     days |-> IF doc.repeatDate = 1001 THEN {}
              ELSE [day : doc.weekDay \intersect (0 .. 6), lower : {TRUE}],
     weeks |-> doc.monthlyWeek, hour |-> doc.hour, minute |-> doc.minute,
     everyHours |-> doc.repeatHour, everyMinutes |-> doc.repeatMin,
     until |-> doc.lastWorkHour]

\* Terraform compares what is configured; a computed until is taken from the state.
Differs(s, seen) ==
    \/ [s EXCEPT !.until = 0] # [seen EXCEPT !.until = 0]
    \/ s.until # Unset /\ s.until # seen.until
=============================================================================
