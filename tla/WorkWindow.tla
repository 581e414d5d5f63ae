----------------------------- MODULE WorkWindow -----------------------------
(***************************************************************************)
(* The cron string and the work window of module CronString over a week,   *)
(* for one repeat specification out of many.                               *)
(***************************************************************************)
EXTENDS CronString

CONSTANT Repeats  \* the repeat specifications to look at

ASSUME RepeatsAssumption == Repeats \subseteq ScheduleRepeat

VARIABLES
  repeat,  \* spec.schedule.repeat
  minute,  \* the minute of the week
  gap      \* minutes since the last tick, or NoTick

vars == <<repeat, minute, gap>>

NoTick == -1

Init ==
  /\ repeat \in Repeats
  /\ minute = 0
  /\ gap = NoTick

Advance ==
  /\ minute' = (minute + 1) % (DaysPerWeek * MinutesPerDay)
  /\ gap' = IF IsTick(repeat, minute) THEN 1
            ELSE IF gap = NoTick THEN NoTick ELSE gap + 1
  /\ UNCHANGED repeat

Spec == Init /\ [][Advance]_vars

-----------------------------------------------------------------------------
(***************************************************************************)
(* What the user asked for, read off the items themselves.                 *)
(***************************************************************************)
\* The forms the comment in scheduleRepeat lists: 0,2,4 or Mon,Wed,Sat and
\* 2-4 or Mon-Wed.
Documented(list) ==
  \A i \in DOMAIN list :
    /\ list[i].step = NoStep
    /\ list[i].lo.text = list[i].hi.text /\ list[i].lo.text # "star"

Listed(f, x) ==
  ~f.given \/ \E i \in DOMAIN f.list : x \in f.list[i].lo.n..f.list[i].hi.n

\* The scheduler and cron read the documented forms alike: whenever the cron
\* string parses, isWeekdayPossible and isHoursPossible do not fail, and they
\* accept exactly the days and hours that the user listed.
DocumentedFormsAgree ==
  LET days == repeat.workDays
      hours == repeat.workHours
  IN
  Parseable(repeat) =>
    /\ days.given /\ Documented(days.list) =>
         isWeekdayPossible(days.list, minute) =
           IF Listed(days, WeekdayOf(minute)) THEN "yes" ELSE "no"
    /\ hours.given /\ Documented(hours.list) =>
         isHoursPossible(hours.list, minute) =
           IF Listed(hours, HourOf(minute)) THEN "yes" ELSE "no"

\* getRecentUnmetScheduleTime parses the cron string before firstScheduleTime
\* reads the lists, so that no list, documented or not, makes it write outside
\* the arrays finalDays and finalHours.
ArraysInBounds ==
  Parseable(repeat) =>
    /\ \A s \in WeekdaySpans(repeat.workDays.list) :
         s.lo..s.hi \subseteq 0..(DaysPerWeek - 1)
    /\ \A s \in HourSpans(repeat.workHours.list) :
         s.lo..s.hi \subseteq 0..(HoursPerDay - 1)

\* Ticks fall on the days and hours that were listed.  An interval in hours
\* spills over unless the hours are one range or none: the step is put behind
\* the last item only, and turns "9" into "from 9 on".
TicksInWorkWindow ==
  LET hours == repeat.workHours.list IN
  /\ IsTick(repeat, minute)
  /\ Documented(repeat.workDays.list) /\ Documented(hours)
  /\ "minute" \notin repeat.interval =>
       \A i \in DOMAIN hours : i = Len(hours) => hours[i].hyphen
  => Listed(repeat.workDays, WeekdayOf(minute))
       /\ Listed(repeat.workHours, HourOf(minute))

\* Two ticks are never closer than minChaosInterval, which is also the time
\* the schedule is requeued after, when the interval divides the hour, or the
\* day, and an interval in hours meets at most one item of hours.
IntervalKept ==
  LET every == scheduleRepeat(repeat).duration
      whole == IF "minute" \in repeat.interval
               THEN MinutesPerHour ELSE MinutesPerDay
  IN
  /\ IsTick(repeat, minute) /\ gap # NoTick
  /\ every > 0 /\ whole % every = 0
  /\ "minute" \notin repeat.interval => Len(repeat.workHours.list) <= 1
  => gap >= every

=============================================================================
