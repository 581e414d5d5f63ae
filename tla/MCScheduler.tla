---------------------------- MODULE MCScheduler ----------------------------
(***************************************************************************)
(* Small instances of SchedulerProperties for TLC.  The cron ticks, the    *)
(* intervals and the work hours are those of repeat specifications as      *)
(* module CronString reads them, on a calendar of days of two hours of two *)
(* minutes, a minute being a second long.                                  *)
(***************************************************************************)
EXTENDS SchedulerProperties, TLC

Calendar == INSTANCE CronString WITH MinutesPerHour <- 2, HoursPerDay <- 2

ControllerSymmetry == Permutations(Controllers)

Never == NoTime

AnyTime == 0..15

Minute == 2

EverySecond == {0, 2, 4, 6, 8, 10, 12, 14}
EveryTwoSeconds == {0, 4, 8, 12}

\* Chaos in the first hour of the day only: the work hours end after two
\* seconds and begin again two seconds later.
InHourZero == {0, 2, 8, 10}
HourZero == {0, 1, 2, 3, 8, 9, 10, 11}

\* ... or in the second one: a schedule made in the first has to wait.
InHourOne == {4, 6, 12, 14}
HourOne == {4, 5, 6, 7, 12, 13, 14, 15}

\* "Chaos is being started 1 min before the scheduled time" (schedule).
ChaosStartsAhead == [][StartsAhead(Minute)]_vars

\* What scheduleRepeat, cron and isHoursPossible make of a specification.
EveryNthMinute(n, workHours) ==
  [workDays |-> Calendar!Unset, workHours |-> workHours,
   interval |-> {"minute"}, everyNthMinute |-> n, everyNthHour |-> 0,
   minuteOfTheHour |-> 0]

TicksOf(r) == {Minute * t : t \in {t \in 0..7 : Calendar!IsTick(r, t)}}

TimesIn(hours) ==
  {t \in AnyTime : Calendar!isHoursPossible(hours.list, t \div Minute) = "yes"}

ASSUME CalendarAgrees ==
  LET hour(n) == Calendar!Given(<<Calendar!Single(Calendar!Digits(n))>>) IN
  /\ EverySecond = TicksOf(EveryNthMinute(1, Calendar!Unset))
  /\ EveryTwoSeconds = TicksOf(EveryNthMinute(2, Calendar!Unset))
  /\ InHourZero = TicksOf(EveryNthMinute(1, hour(0)))
  /\ HourZero = TimesIn(hour(0))
  /\ InHourOne = TicksOf(EveryNthMinute(1, hour(1)))
  /\ HourOne = TimesIn(hour(1))
  /\ MinChaosInterval \in
       {Minute * Calendar!scheduleRepeat(r).duration :
          r \in {r \in {EveryNthMinute(n, h) :
                          n \in {1, 2},
                          h \in {Calendar!Unset, hour(0), hour(1)}} :
                   TicksOf(r) = CronTicks}}

=============================================================================
