----------------------------- MODULE CronString -----------------------------
(***************************************************************************)
(* From spec.schedule.repeat to instants: the cron string scheduleRepeat   *)
(* forms, and the scheduler's own reading of the included days and hours   *)
(* that decides whether the first engine may start at once.                *)
(*                                                                         *)
(* The days and hours are lists of items as the user writes them           *)
(* ("Mon-Wed,6", "9-17/2"), an item being its parts rather than its        *)
(* characters; an instant is a minute of the week.  Module WorkWindow      *)
(* checks what is computed here, and module MCScheduler gives it to        *)
(* ChaosScheduler as CronTicks, WorkDays, WorkHours and MinChaosInterval.  *)
(***************************************************************************)
EXTENDS Integers, Sequences

CONSTANTS
  MinutesPerHour, \* 60, or fewer for TLC
  HoursPerDay     \* 24, or fewer for TLC

ASSUME CalendarAssumption ==
  MinutesPerHour \in Nat \ {0} /\ HoursPerDay \in Nat \ {0}

DaysPerWeek == 7
MinutesPerDay == MinutesPerHour * HoursPerDay
Week == 0..(DaysPerWeek * MinutesPerDay - 1)

WeekdayOf(t) == t \div MinutesPerDay
HourOf(t) == (t % MinutesPerDay) \div MinutesPerHour
MinuteOf(t) == t % MinutesPerHour

-----------------------------------------------------------------------------
(***************************************************************************)
(* The text of a list item: a word, or two with a hyphen, and a step.      *)
(***************************************************************************)
NoStep == -1

Digits(n) == [text |-> "digits", n |-> n]

\* An English abbreviation, the keys of WeekDays in types.go.
WeekDay(n) == [text |-> "name", n |-> n]

Asterisk == [text |-> "star", n |-> 0]

Single(w) == [lo |-> w, hi |-> w, hyphen |-> FALSE, step |-> NoStep]

Hyphenated(v, w) == [lo |-> v, hi |-> w, hyphen |-> TRUE, step |-> NoStep]

Stepped(d, n) == [d EXCEPT !.step = n]

\* WorkDays and WorkHours are pointers; Unset is nil.
Unset == [given |-> FALSE, list |-> <<>>]

Given(list) == [given |-> TRUE, list |-> list]

Word ==
  [text : {"digits"}, n : Nat] \cup [text : {"name"}, n : 0..6] \cup {Asterisk}

Item ==
  {d \in [lo : Word, hi : Word, hyphen : BOOLEAN, step : Nat \cup {NoStep}] :
     ~d.hyphen => d.hi = d.lo}

ItemList ==
  {f \in [given : BOOLEAN, list : Seq(Item)] : f.given \/ f.list = <<>>}

\* spec.schedule.repeat without its time range; interval says which of
\* minChaosInterval.minute and minChaosInterval.hour are set.
ScheduleRepeat ==
  [workDays : ItemList, workHours : ItemList,
   interval : SUBSET {"minute", "hour"},
   everyNthMinute : Nat, everyNthHour : Nat, minuteOfTheHour : Nat]

WordLength(w) ==
  CASE w.text = "name" -> 3
    [] w.text = "digits" /\ w.n > 9 -> 2
    [] OTHER -> 1

\* len(data); a step is a slash and at least one digit.
ItemLength(d) ==
  WordLength(d.lo) + (IF d.hyphen THEN 1 + WordLength(d.hi) ELSE 0)
                   + (IF d.step = NoStep THEN 0 ELSE 2)

-----------------------------------------------------------------------------
(***************************************************************************)
(* The scheduler's reading of the lists.                                   *)
(***************************************************************************)
Span(a, b) == [ok |-> TRUE, lo |-> a, hi |-> b]

ParseError == [ok |-> FALSE, lo |-> 0, hi |-> 0]

\* Fault: the end of the range is left out.
parseCronData_HalfOpen(d) ==
  IF d.step = NoStep /\ d.lo.text = "digits" /\ d.hi.text = "digits"
  THEN Span(d.lo.n, d.hi.n - 1)
  ELSE ParseError

\* Fault: the range starts one early, as if hours and days began at 1.
parseCronData_OneBased(d) ==
  IF d.step = NoStep /\ d.lo.text = "digits" /\ d.hi.text = "digits"
  THEN Span(d.lo.n - 1, d.hi.n - 1)
  ELSE ParseError

\* Atoi fails on anything but digits, a trailing "/n" included.
parseCronData(d) ==
  IF d.step = NoStep /\ d.lo.text = "digits" /\ d.hi.text = "digits"
  THEN Span(d.lo.n, d.hi.n)
  ELSE ParseError

\* The map answers 0, Sunday, for a key it does not hold.
LookUp(w, step) == IF w.text = "name" /\ step = NoStep THEN w.n ELSE 0

\* Numbers and names are told apart by the length of the item.
parseWeekdays(d) ==
  CASE ItemLength(d) <= (IF d.hyphen THEN 3 ELSE 1) -> parseCronData(d)
    [] d.hyphen /\ ItemLength(d) > 3 ->
         Span(LookUp(d.lo, NoStep), LookUp(d.hi, d.step))
    [] OTHER ->
         Span(LookUp(d.lo, d.step), LookUp(d.lo, d.step))

Decide(spans, x) ==
  CASE \E s \in spans : ~s.ok -> "error"
    [] \A s \in spans : s.ok /\ x \notin s.lo..s.hi -> "no"
    [] OTHER -> "yes"

WeekdaySpans(list) == {parseWeekdays(list[i]) : i \in DOMAIN list}

HourSpans(list) == {parseCronData(list[i]) : i \in DOMAIN list}

isWeekdayPossible(list, t) == Decide(WeekdaySpans(list), WeekdayOf(t))

isHoursPossible(list, t) == Decide(HourSpans(list), HourOf(t))

-----------------------------------------------------------------------------
(***************************************************************************)
(* The cron string, field by field, and the period it is requeued with.    *)
(***************************************************************************)
\* Fault: the interval in hours does not reach the cron string.
WithStep_Dropped(list, n) == list

\* "/n" put behind the text of a list belongs to its last item.  A second
\* slash is refused by cron, and so is the zero step that stands for it.
WithStep(list, n) ==
  [i \in DOMAIN list |->
     IF i < Len(list) THEN list[i]
     ELSE Stepped(list[i], IF list[i].step = NoStep THEN n ELSE 0)]

EveryItem == <<Single(Asterisk)>>

\* Fault: the included days and hours are ignored.
FieldOf_Always(f) == EveryItem

FieldOf(f) == IF f.given THEN f.list ELSE EveryItem

\* minChaosInterval.minute has precedence over minChaosInterval.hour; with
\* neither it is an error, like the empty fields here.
scheduleRepeat(r) ==
  CASE "minute" \in r.interval ->
         [minute |-> WithStep(EveryItem, r.everyNthMinute),
          hour |-> FieldOf(r.workHours),
          weekday |-> FieldOf(r.workDays),
          duration |-> r.everyNthMinute]
    [] r.interval = {"hour"} ->
         [minute |-> <<Single(Digits(r.minuteOfTheHour))>>,
          hour |-> WithStep(FieldOf(r.workHours), r.everyNthHour),
          weekday |-> FieldOf(r.workDays),
          duration |-> r.everyNthHour * MinutesPerHour]
    [] OTHER ->
         [minute |-> <<>>, hour |-> <<>>, weekday |-> <<>>, duration |-> 0]

\* robfig/cron: the values of an item in a field with the values 0..max.
Top(d, max) ==
  IF d.lo.text = "star" \/ (~d.hyphen /\ d.step # NoStep) THEN max ELSE d.hi.n

CronValues(d, max) ==
  LET by == IF d.step = NoStep THEN 1 ELSE d.step IN
  {v \in d.lo.n..Top(d, max) : (v - d.lo.n) % by = 0}

CronAccepts(d, max, named) ==
  /\ named \/ (d.lo.text # "name" /\ d.hi.text # "name")
  /\ d.lo.n <= Top(d, max) /\ Top(d, max) <= max
  /\ d.step # 0

FieldAccepted(list, max, named) ==
  list # <<>> /\ \A i \in DOMAIN list : CronAccepts(list[i], max, named)

FieldMatches(list, max, x) ==
  \E i \in DOMAIN list : x \in CronValues(list[i], max)

\* scheduleRepeat and cron.ParseStandard both succeed.
Parseable(r) ==
  LET c == scheduleRepeat(r) IN
  /\ FieldAccepted(c.minute, MinutesPerHour - 1, FALSE)
  /\ FieldAccepted(c.hour, HoursPerDay - 1, FALSE)
  /\ FieldAccepted(c.weekday, DaysPerWeek - 1, TRUE)

IsTick(r, t) ==
  LET c == scheduleRepeat(r) IN
  /\ Parseable(r)
  /\ FieldMatches(c.minute, MinutesPerHour - 1, MinuteOf(t))
  /\ FieldMatches(c.hour, HoursPerDay - 1, HourOf(t))
  /\ FieldMatches(c.weekday, DaysPerWeek - 1, WeekdayOf(t))

=============================================================================
