-------------------------- MODULE WorkWindowProofs --------------------------
(***************************************************************************)
(* TLAPS proofs about modules CronString and WorkWindow, for lists of any  *)
(* length, any days and hours, and any calendar.                           *)
(***************************************************************************)
EXTENDS WorkWindow, TLAPS

-----------------------------------------------------------------------------
(***************************************************************************)
(* Items that cron accepts.                                                *)
(***************************************************************************)

\* The parts of an item.
LEMMA ItemFacts ==
  ASSUME NEW d \in Item
  PROVE  /\ d.lo.n \in Nat /\ d.hi.n \in Nat
         /\ d.lo.text \in {"digits", "name", "star"}
         /\ d.hi.text \in {"digits", "name", "star"}
         /\ d.lo.text = "name" => d.lo.n \in 0..6
         /\ d.hi.text = "name" => d.hi.n \in 0..6
         /\ d.hyphen \in BOOLEAN /\ d.step \in Nat \cup {NoStep}
         /\ ~d.hyphen => d.hi = d.lo
BY DEF Item, Word, Asterisk

\* A step changes nothing else.
LEMMA SteppedFacts ==
  ASSUME NEW d \in Item, NEW n \in Nat
  PROVE  /\ Stepped(d, n).lo = d.lo /\ Stepped(d, n).hi = d.hi
         /\ Stepped(d, n).hyphen = d.hyphen /\ Stepped(d, n).step = n
BY DEF Stepped, Item

\* What the scheduler reads in an item of hours is within the field, if cron
\* accepts the item, with or without a step put behind it.
LEMMA AcceptedHours ==
  ASSUME NEW d \in Item, NEW max \in Nat, NEW e,
         e.lo = d.lo, e.hi = d.hi, e.hyphen = d.hyphen,
         CronAccepts(e, max, FALSE)
  PROVE  parseCronData(d).lo..parseCronData(d).hi \subseteq 0..max
<1>1. CASE parseCronData(d) = ParseError
  BY <1>1 DEF ParseError
<1>2. CASE parseCronData(d) # ParseError
  <2>1. parseCronData(d) = Span(d.lo.n, d.hi.n) /\ d.lo.text = "digits"
    BY <1>2 DEF parseCronData
  <2>2. d.lo.n \in Nat /\ d.hi.n \in Nat /\ d.hi.n <= max
    BY <2>1, ItemFacts DEF CronAccepts, Top
  <2> QED
    BY <2>1, <2>2 DEF Span
<1> QED
  BY <1>1, <1>2

\* ... and so is what it reads in an item of days.
LEMMA AcceptedDays ==
  ASSUME NEW d \in Item, CronAccepts(d, DaysPerWeek - 1, TRUE)
  PROVE  parseWeekdays(d).lo..parseWeekdays(d).hi \subseteq 0..(DaysPerWeek - 1)
<1>1. CASE parseWeekdays(d) = parseCronData(d)
  <2>1. parseCronData(d).lo..parseCronData(d).hi \subseteq 0..(DaysPerWeek - 1)
    <3>1. CASE parseCronData(d) = ParseError
      BY <3>1 DEF ParseError, DaysPerWeek
    <3>2. CASE parseCronData(d) # ParseError
      <4>1. parseCronData(d) = Span(d.lo.n, d.hi.n) /\ d.lo.text = "digits"
            /\ d.step = NoStep
        BY <3>2 DEF parseCronData
      <4>2. d.lo.n \in Nat /\ d.hi.n \in Nat /\ d.hi.n <= DaysPerWeek - 1
        BY <4>1, ItemFacts DEF CronAccepts, Top, DaysPerWeek
      <4> QED
        BY <4>1, <4>2 DEF Span, DaysPerWeek
    <3> QED
      BY <3>1, <3>2
  <2> QED
    BY <1>1, <2>1
<1>2. ASSUME NEW v \in {d.lo, d.hi}, NEW step PROVE LookUp(v, step) \in 0..6
  BY ItemFacts DEF LookUp
<1>3. ASSUME NEW a \in 0..6, NEW b \in 0..6, parseWeekdays(d) = Span(a, b)
      PROVE  parseWeekdays(d).lo..parseWeekdays(d).hi \subseteq 0..(DaysPerWeek - 1)
  BY <1>3 DEF Span, DaysPerWeek
<1> QED
  BY <1>1, <1>2, <1>3 DEF parseWeekdays

-----------------------------------------------------------------------------
(***************************************************************************)
(* The fields of the cron string.                                          *)
(***************************************************************************)

\* The days and hours of a parseable string are the listed ones, or every one,
\* the hours maybe with a step behind them.
LEMMA FieldFacts ==
  ASSUME NEW r \in ScheduleRepeat, Parseable(r)
  PROVE  /\ scheduleRepeat(r).weekday = FieldOf(r.workDays)
         /\ \/ scheduleRepeat(r).hour = FieldOf(r.workHours)
            \/ scheduleRepeat(r).hour =
                 WithStep(FieldOf(r.workHours), r.everyNthHour)
         /\ "minute" \in r.interval =>
              scheduleRepeat(r).hour = FieldOf(r.workHours)
BY DEF Parseable, scheduleRepeat, FieldAccepted

\* The lists of a specification.
LEMMA ListFacts ==
  ASSUME NEW r \in ScheduleRepeat, NEW f \in {r.workDays, r.workHours}
  PROVE  /\ f.list \in Seq(Item)
         /\ \A i \in DOMAIN f.list : f.list[i] \in Item
         /\ f.list # <<>> => f.given
         /\ r.everyNthHour \in Nat
<1>1. f \in ItemList /\ r.everyNthHour \in Nat
  BY DEF ScheduleRepeat
<1> QED
  BY <1>1 DEF ItemList

\* Every item of the hours is accepted by cron, maybe with a step behind it.
LEMMA HourAccepted ==
  ASSUME NEW r \in ScheduleRepeat, Parseable(r),
         NEW i \in DOMAIN r.workHours.list
  PROVE  \E e : /\ e.lo = r.workHours.list[i].lo
                /\ e.hi = r.workHours.list[i].hi
                /\ e.hyphen = r.workHours.list[i].hyphen
                /\ CronAccepts(e, HoursPerDay - 1, FALSE)
<1> DEFINE list == r.workHours.list
           c == scheduleRepeat(r)
<1>1. /\ list \in Seq(Item) /\ list[i] \in Item /\ r.everyNthHour \in Nat
      /\ FieldOf(r.workHours) = list
  BY ListFacts DEF FieldOf
<1>2. \A j \in DOMAIN c.hour : CronAccepts(c.hour[j], HoursPerDay - 1, FALSE)
  BY DEF Parseable, FieldAccepted
<1>3. CASE c.hour = list
  BY <1>2, <1>3
<1>4. CASE c.hour = WithStep(list, r.everyNthHour)
  <2>1. i \in DOMAIN c.hour
    BY <1>4 DEF WithStep
  <2>2. c.hour[i] = list[i] \/ \E n \in Nat : c.hour[i] = Stepped(list[i], n)
    BY <1>1, <1>4 DEF WithStep
  <2>3. /\ c.hour[i].lo = list[i].lo /\ c.hour[i].hi = list[i].hi
        /\ c.hour[i].hyphen = list[i].hyphen
    BY <1>1, <2>2, SteppedFacts
  <2> QED
    BY <1>2, <2>1, <2>3
<1> QED
  BY <1>1, <1>3, <1>4, FieldFacts

\* Every item of the days is accepted by cron as it is.
LEMMA DayAccepted ==
  ASSUME NEW r \in ScheduleRepeat, Parseable(r),
         NEW i \in DOMAIN r.workDays.list
  PROVE  CronAccepts(r.workDays.list[i], DaysPerWeek - 1, TRUE)
<1>1. FieldOf(r.workDays) = r.workDays.list
  BY ListFacts DEF FieldOf
<1> QED
  BY <1>1, FieldFacts DEF Parseable, FieldAccepted

-----------------------------------------------------------------------------
(***************************************************************************)
(* The documented forms.                                                   *)
(***************************************************************************)

\* The scheduler reads a documented item of hours as the user wrote it.
LEMMA DocumentedHour ==
  ASSUME NEW d \in Item, d.step = NoStep, d.lo.text = d.hi.text,
         d.lo.text # "star", d.lo.text # "name" \/ d.hi.text # "name"
  PROVE  parseCronData(d) = Span(d.lo.n, d.hi.n)
<1>1. d.lo.text = "digits" /\ d.hi.text = "digits"
  BY ItemFacts
<1> QED
  BY <1>1 DEF parseCronData

\* ... and a documented item of days, numbers being told from names by length.
LEMMA DocumentedDay ==
  ASSUME NEW d \in Item, d.step = NoStep, d.lo.text = d.hi.text,
         d.lo.text # "star", CronAccepts(d, DaysPerWeek - 1, TRUE)
  PROVE  parseWeekdays(d) = Span(d.lo.n, d.hi.n)
<1>1. d.lo.n \in Nat /\ d.hi.n \in Nat /\ d.lo.n <= 6 /\ d.hi.n <= 6
  BY ItemFacts DEF CronAccepts, Top, DaysPerWeek
<1>2. CASE d.lo.text = "digits"
  <2>1. WordLength(d.lo) = 1 /\ WordLength(d.hi) = 1
    BY <1>1, <1>2 DEF WordLength
  <2>2. ItemLength(d) = IF d.hyphen THEN 3 ELSE 1
    BY <2>1 DEF ItemLength
  <2>3. parseWeekdays(d) = parseCronData(d)
    <3>1. CASE d.hyphen
      BY <2>2, <3>1 DEF parseWeekdays
    <3>2. CASE ~d.hyphen
      BY <2>2, <3>2 DEF parseWeekdays
    <3> QED
      BY <3>1, <3>2
  <2> QED
    BY <1>2, <2>3, DocumentedHour
<1>3. CASE d.lo.text = "name"
  <2>1. WordLength(d.lo) = 3 /\ WordLength(d.hi) = 3
    BY <1>3 DEF WordLength
  <2>2. LookUp(d.lo, NoStep) = d.lo.n /\ LookUp(d.hi, NoStep) = d.hi.n
    BY <1>3 DEF LookUp
  <2>3. CASE d.hyphen
    <3>1. ItemLength(d) = 7
      BY <2>1, <2>3 DEF ItemLength
    <3> QED
      BY <2>2, <2>3, <3>1 DEF parseWeekdays
  <2>4. CASE ~d.hyphen
    <3>1. ItemLength(d) = 3
      BY <2>1, <2>4 DEF ItemLength
    <3>2. d.hi = d.lo
      BY <2>4, ItemFacts
    <3> QED
      BY <2>2, <2>4, <3>1, <3>2 DEF parseWeekdays
  <2> QED
    BY <2>3, <2>4
<1> QED
  BY <1>2, <1>3, ItemFacts

\* Deciding on spans without errors is membership in one of them.
LEMMA DecideFacts ==
  ASSUME NEW list, NEW x
  PROVE  Decide({Span(list[i].lo.n, list[i].hi.n) : i \in DOMAIN list}, x) =
           IF \E i \in DOMAIN list : x \in list[i].lo.n..list[i].hi.n
           THEN "yes" ELSE "no"
<1> DEFINE spans == {Span(list[i].lo.n, list[i].hi.n) : i \in DOMAIN list}
<1>1. \A s \in spans : s.ok
  BY DEF Span
<1>2. (\E s \in spans : x \in s.lo..s.hi)
        <=> \E i \in DOMAIN list : x \in list[i].lo.n..list[i].hi.n
  <2>1. \A a, b : Span(a, b).lo = a /\ Span(a, b).hi = b
    BY DEF Span
  <2>2. ASSUME NEW s \in spans, x \in s.lo..s.hi
        PROVE  \E i \in DOMAIN list : x \in list[i].lo.n..list[i].hi.n
    <3>1. PICK i \in DOMAIN list : s = Span(list[i].lo.n, list[i].hi.n)
      OBVIOUS
    <3>2. s.lo = list[i].lo.n /\ s.hi = list[i].hi.n
      BY <2>1, <3>1
    <3> QED
      BY <2>2, <3>2
  <2>3. ASSUME NEW i \in DOMAIN list, x \in list[i].lo.n..list[i].hi.n
        PROVE  \E s \in spans : x \in s.lo..s.hi
    <3>1. Span(list[i].lo.n, list[i].hi.n) \in spans
      OBVIOUS
    <3> HIDE DEF spans
    <3> QED
      BY <2>1, <2>3, <3>1
  <2> QED
    BY <2>2, <2>3
<1>3. CASE \E s \in spans : x \in s.lo..s.hi
  <2> HIDE DEF spans
  <2>1. Decide(spans, x) = "yes"
    BY <1>1, <1>3 DEF Decide
  <2> QED
    BY <1>2, <1>3, <2>1 DEF spans
<1>4. CASE ~\E s \in spans : x \in s.lo..s.hi
  <2> HIDE DEF spans
  <2>1. Decide(spans, x) = "no"
    BY <1>1, <1>4 DEF Decide
  <2> QED
    BY <1>2, <1>4, <2>1 DEF spans
<1> QED
  BY <1>3, <1>4

\* Both readings of the documented forms agree, at every instant.
LEMMA FormsAgree ==
  ASSUME repeat \in ScheduleRepeat
  PROVE  DocumentedFormsAgree
<1> DEFINE days == repeat.workDays
           hours == repeat.workHours
<1> SUFFICES ASSUME Parseable(repeat)
             PROVE  /\ days.given /\ Documented(days.list) =>
                         isWeekdayPossible(days.list, minute) =
                           IF Listed(days, WeekdayOf(minute)) THEN "yes" ELSE "no"
                    /\ hours.given /\ Documented(hours.list) =>
                         isHoursPossible(hours.list, minute) =
                           IF Listed(hours, HourOf(minute)) THEN "yes" ELSE "no"
  BY DEF DocumentedFormsAgree
<1>1. ASSUME days.given, Documented(days.list)
      PROVE  isWeekdayPossible(days.list, minute) =
               IF Listed(days, WeekdayOf(minute)) THEN "yes" ELSE "no"
  <2>1. ASSUME NEW i \in DOMAIN days.list
        PROVE  parseWeekdays(days.list[i]) =
                 Span(days.list[i].lo.n, days.list[i].hi.n)
    <3>1. days.list[i] \in Item /\ CronAccepts(days.list[i], DaysPerWeek - 1, TRUE)
      BY ListFacts, DayAccepted
    <3> QED
      BY <1>1, <3>1, DocumentedDay DEF Documented
  <2>2. WeekdaySpans(days.list) =
          {Span(days.list[i].lo.n, days.list[i].hi.n) : i \in DOMAIN days.list}
    BY <2>1 DEF WeekdaySpans
  <2> HIDE DEF days
  <2> QED
    BY <1>1, <2>2, DecideFacts DEF isWeekdayPossible, Listed
<1>2. ASSUME hours.given, Documented(hours.list)
      PROVE  isHoursPossible(hours.list, minute) =
               IF Listed(hours, HourOf(minute)) THEN "yes" ELSE "no"
  <2>1. ASSUME NEW i \in DOMAIN hours.list
        PROVE  parseCronData(hours.list[i]) =
                 Span(hours.list[i].lo.n, hours.list[i].hi.n)
    <3>1. hours.list[i] \in Item
      BY ListFacts
    <3>2. PICK e : /\ e.lo = hours.list[i].lo
                   /\ CronAccepts(e, HoursPerDay - 1, FALSE)
      BY HourAccepted
    <3>3. hours.list[i].lo.text # "name"
      BY <3>2 DEF CronAccepts
    <3> QED
      BY <1>2, <3>1, <3>3, DocumentedHour DEF Documented
  <2>2. HourSpans(hours.list) =
          {Span(hours.list[i].lo.n, hours.list[i].hi.n) : i \in DOMAIN hours.list}
    BY <2>1 DEF HourSpans
  <2> HIDE DEF hours
  <2> QED
    BY <1>2, <2>2, DecideFacts DEF isHoursPossible, Listed
<1> QED
  BY <1>1, <1>2

\* What the scheduler reads stays in its arrays.
LEMMA SpansInBounds ==
  ASSUME repeat \in ScheduleRepeat
  PROVE  ArraysInBounds
<1> SUFFICES ASSUME Parseable(repeat)
             PROVE  /\ \A s \in WeekdaySpans(repeat.workDays.list) :
                         s.lo..s.hi \subseteq 0..(DaysPerWeek - 1)
                    /\ \A s \in HourSpans(repeat.workHours.list) :
                         s.lo..s.hi \subseteq 0..(HoursPerDay - 1)
  BY DEF ArraysInBounds
<1>1. ASSUME NEW i \in DOMAIN repeat.workDays.list
      PROVE  LET s == parseWeekdays(repeat.workDays.list[i]) IN
             s.lo..s.hi \subseteq 0..(DaysPerWeek - 1)
  BY ListFacts, DayAccepted, AcceptedDays
<1>2. ASSUME NEW i \in DOMAIN repeat.workHours.list
      PROVE  LET s == parseCronData(repeat.workHours.list[i]) IN
             s.lo..s.hi \subseteq 0..(HoursPerDay - 1)
  <2>1. HoursPerDay - 1 \in Nat
    BY CalendarAssumption
  <2> QED
    BY <2>1, ListFacts, HourAccepted, AcceptedHours
<1> QED
  BY <1>1, <1>2 DEF WeekdaySpans, HourSpans

\* A documented item matches nothing but what it lists, also with a step
\* behind it if it is a range.
LEMMA DocumentedValues ==
  ASSUME NEW d \in Item, d.lo.text # "star", NEW max, NEW e,
         e.lo = d.lo, e.hi = d.hi, e.hyphen = d.hyphen,
         e.step = NoStep \/ d.hyphen
  PROVE  CronValues(e, max) \subseteq d.lo.n..d.hi.n
<1>1. Top(e, max) = d.hi.n
  BY DEF Top
<1> QED
  BY <1>1 DEF CronValues

\* Ticks fall on the listed days and hours.
LEMMA TicksListed ==
  ASSUME repeat \in ScheduleRepeat
  PROVE  TicksInWorkWindow
<1> DEFINE days == repeat.workDays
           hours == repeat.workHours
           c == scheduleRepeat(repeat)
<1> SUFFICES ASSUME IsTick(repeat, minute),
                    Documented(days.list), Documented(hours.list),
                    "minute" \notin repeat.interval =>
                      \A i \in DOMAIN hours.list :
                        i = Len(hours.list) => hours.list[i].hyphen
             PROVE  Listed(days, WeekdayOf(minute))
                      /\ Listed(hours, HourOf(minute))
  BY DEF TicksInWorkWindow
<1>1. /\ Parseable(repeat)
      /\ FieldMatches(c.hour, HoursPerDay - 1, HourOf(minute))
      /\ FieldMatches(c.weekday, DaysPerWeek - 1, WeekdayOf(minute))
  BY DEF IsTick
<1>2. ASSUME days.given PROVE Listed(days, WeekdayOf(minute))
  <2>1. c.weekday = days.list
    BY <1>1, <1>2, FieldFacts DEF FieldOf
  <2>2. PICK i \in DOMAIN days.list :
          WeekdayOf(minute) \in CronValues(days.list[i], DaysPerWeek - 1)
    BY <1>1, <2>1 DEF FieldMatches
  <2>3. days.list[i] \in Item /\ days.list[i].lo.text # "star"
        /\ days.list[i].step = NoStep
    BY ListFacts DEF Documented
  <2> QED
    BY <2>2, <2>3, DocumentedValues DEF Listed
<1>3. ASSUME hours.given PROVE Listed(hours, HourOf(minute))
  <2>1. PICK i \in DOMAIN c.hour :
          HourOf(minute) \in CronValues(c.hour[i], HoursPerDay - 1)
    BY <1>1 DEF FieldMatches
  <2>2. /\ hours.list \in Seq(Item) /\ repeat.everyNthHour \in Nat
        /\ FieldOf(hours) = hours.list
    BY <1>3, ListFacts DEF FieldOf
  <2>3. i \in DOMAIN hours.list /\ hours.list[i] \in Item
    <3>1. DOMAIN c.hour = DOMAIN hours.list
      BY <1>1, <2>2, FieldFacts DEF WithStep
    <3> QED
      BY <2>1, <3>1, ListFacts
  <2>4. hours.list[i].lo.text # "star" /\ hours.list[i].step = NoStep
    BY <2>3 DEF Documented
  <2>5. CASE c.hour = hours.list
    BY <2>1, <2>3, <2>4, <2>5, DocumentedValues DEF Listed
  <2>6. CASE c.hour # hours.list
    <3>1. c.hour = WithStep(hours.list, repeat.everyNthHour)
          /\ "minute" \notin repeat.interval
      BY <1>1, <2>2, <2>6, FieldFacts
    <3>2. CASE i = Len(hours.list)
      <4>1. hours.list[i].hyphen
        BY <2>3, <3>1, <3>2
      <4>2. PICK n \in Nat : c.hour[i] = Stepped(hours.list[i], n)
        BY <2>2, <2>3, <3>1, <3>2 DEF WithStep
      <4> QED
        BY <2>1, <2>3, <2>4, <4>1, <4>2, SteppedFacts, DocumentedValues
        DEF Listed
    <3>3. CASE i # Len(hours.list)
      <4>1. c.hour[i] = hours.list[i]
        BY <2>2, <2>3, <3>1, <3>3 DEF WithStep
      <4> QED
        BY <2>1, <2>3, <2>4, <4>1, DocumentedValues DEF Listed
    <3> QED
      BY <3>2, <3>3
  <2> QED
    BY <2>5, <2>6
<1> QED
  BY <1>2, <1>3 DEF Listed

-----------------------------------------------------------------------------
(***************************************************************************)
(* The theorems.                                                           *)
(***************************************************************************)

\* The specification is never edited.
LEMMA RepeatKept == Spec => [](repeat \in ScheduleRepeat)
<1>1. Init => repeat \in ScheduleRepeat
  BY RepeatsAssumption DEF Init
<1>2. repeat \in ScheduleRepeat /\ [Advance]_vars => (repeat \in ScheduleRepeat)'
  BY DEF Advance, vars
<1> QED
  BY <1>1, <1>2, PTL DEF Spec

\* Whatever the user lists, if cron accepts it then finalDays and finalHours
\* are written inside their bounds.
THEOREM ArraysSafe == Spec => []ArraysInBounds
BY RepeatKept, SpansInBounds, PTL

\* The scheduler's reading of the documented forms is cron's and the user's,
\* for lists of any length.
THEOREM DocumentedFormsRead == Spec => []DocumentedFormsAgree
BY RepeatKept, FormsAgree, PTL

\* No tick falls outside the listed days and hours, for lists of any length,
\* as long as an interval in hours ends in a range.
THEOREM TicksInside == Spec => []TicksInWorkWindow
BY RepeatKept, TicksListed, PTL

=============================================================================
