----------------------------- MODULE TickProofs -----------------------------
(***************************************************************************)
(* TLAPS proofs about the ticks of a cron string: every week has one, and  *)
(* two are never closer than the interval the user asked for.              *)
(***************************************************************************)
EXTENDS WorkWindowProofs, WellFoundedInduction

-----------------------------------------------------------------------------
(***************************************************************************)
(* Quotients and remainders.                                               *)
(***************************************************************************)

\* Quotient and remainder of a division.
LEMMA Division ==
  ASSUME NEW x \in Int, NEW b \in Nat \ {0}
  PROVE  /\ x \div b \in Int
         /\ x % b \in 0..(b - 1)
         /\ x = (x \div b) * b + (x % b)
OBVIOUS

\* A positive multiple of a number is at least that number.
LEMMA MultiplesApart ==
  ASSUME NEW k \in Int, NEW b \in Nat \ {0}, k * b > 0
  PROVE  k * b >= b
<1>1. k > 0
  <2>1. k <= 0 => k * b <= 0
    OBVIOUS
  <2> QED
    BY <2>1
<1>2. k * b = b + (k - 1) * b /\ (k - 1) * b >= 0
  BY <1>1
<1> QED
  BY <1>2

\* No remainder means a multiple.
LEMMA Multiples ==
  ASSUME NEW x \in Int, NEW b \in Nat \ {0}
  PROVE  x % b = 0 <=> \E q \in Int : x = q * b
<1>1. ASSUME x % b = 0 PROVE \E q \in Int : x = q * b
  <2>1. x \div b \in Int /\ x = (x \div b) * b + (x % b)
    BY Division
  <2>2. x = (x \div b) * b
    BY <1>1, <2>1
  <2> QED
    BY <2>1, <2>2
<1>2. ASSUME NEW q \in Int, x = q * b PROVE x % b = 0
  BY <1>2
<1> QED
  BY <1>1, <1>2

\* Multiples add up.
LEMMA MultiplesAdd ==
  ASSUME NEW x \in Int, NEW y \in Int, NEW b \in Nat \ {0},
         NEW j \in Int, NEW k \in Int, x = j * b, y = k * b
  PROVE  (x + y) % b = 0
<1>1. x + y = (j + k) * b /\ j + k \in Int /\ x + y \in Int
  OBVIOUS
<1> QED
  BY <1>1, Multiples

-----------------------------------------------------------------------------
(***************************************************************************)
(* The calendar.                                                           *)
(***************************************************************************)
MinutesPerWeek == DaysPerWeek * MinutesPerDay

\* Days, hours and minutes as numbers.
LEMMA CalendarFacts ==
  /\ MinutesPerHour \in Nat \ {0} /\ HoursPerDay \in Nat \ {0}
  /\ MinutesPerDay \in Nat \ {0}
  /\ MinutesPerDay = HoursPerDay * MinutesPerHour
  /\ MinutesPerWeek \in Nat \ {0} /\ Week = 0..(MinutesPerWeek - 1)
<1>1. MinutesPerHour \in Nat \ {0} /\ HoursPerDay \in Nat \ {0}
  BY CalendarAssumption
<1>2. MinutesPerDay = HoursPerDay * MinutesPerHour
  BY <1>1 DEF MinutesPerDay
<1>3. HoursPerDay * MinutesPerHour > 0
  BY <1>1
<1> QED
  BY <1>1, <1>2, <1>3 DEF MinutesPerWeek, DaysPerWeek, Week

\* An hour and a minute make a minute of the day.
LEMMA MinuteOfTheDay ==
  ASSUME NEW h \in 0..(HoursPerDay - 1), NEW m \in 0..(MinutesPerHour - 1)
  PROVE  h * MinutesPerHour + m \in 0..(MinutesPerDay - 1)
<1>1. h * MinutesPerHour <= (HoursPerDay - 1) * MinutesPerHour
      /\ h * MinutesPerHour \in Nat
  BY CalendarFacts
<1>2. (HoursPerDay - 1) * MinutesPerHour = MinutesPerDay - MinutesPerHour
  BY CalendarFacts
<1> QED
  BY <1>1, <1>2, CalendarFacts

\* Every weekday, hour and minute is an instant of the week.
LEMMA InstantFacts ==
  ASSUME NEW w \in 0..(DaysPerWeek - 1), NEW h \in 0..(HoursPerDay - 1),
         NEW m \in 0..(MinutesPerHour - 1)
  PROVE  LET t == w * MinutesPerDay + (h * MinutesPerHour + m) IN
         /\ t \in Week
         /\ WeekdayOf(t) = w /\ HourOf(t) = h /\ MinuteOf(t) = m
<1> DEFINE d == h * MinutesPerHour + m
           t == w * MinutesPerDay + d
<1>1. d \in 0..(MinutesPerDay - 1)
  BY MinuteOfTheDay
<1>2. t \div MinutesPerDay = w /\ t % MinutesPerDay = d
  <2>1. w \in Int /\ MinutesPerDay \in Nat \ {0}
    BY CalendarFacts DEF DaysPerWeek
  <2>2. t = w * MinutesPerDay + d
    OBVIOUS
  <2> HIDE DEF d, t
  <2> QED
    BY <1>1, <2>1, <2>2
<1>3. d \div MinutesPerHour = h
  <2>1. h \in Int /\ d = h * MinutesPerHour + m
    BY CalendarFacts
  <2> HIDE DEF d
  <2> QED
    BY <2>1, CalendarFacts
<1>4. t % MinutesPerHour = m
  <2>1. t = (w * HoursPerDay + h) * MinutesPerHour + m
    BY CalendarFacts DEF DaysPerWeek
  <2> DEFINE a == w * HoursPerDay + h
  <2>2. a \in Int /\ MinutesPerHour \in Nat \ {0}
    BY CalendarFacts DEF DaysPerWeek
  <2>3. t = a * MinutesPerHour + m
    BY <2>1
  <2> HIDE DEF t, a
  <2> QED
    BY <2>2, <2>3
<1>5. t \in Week
  <2> HIDE DEF d
  <2>1. w * MinutesPerDay \in Nat
    BY CalendarFacts DEF DaysPerWeek
  <2>2. w * MinutesPerDay <= 6 * MinutesPerDay
    BY CalendarFacts DEF DaysPerWeek
  <2> QED
    BY <1>1, <2>1, <2>2, CalendarFacts DEF DaysPerWeek, MinutesPerWeek
<1> QED
  BY <1>2, <1>3, <1>4, <1>5 DEF WeekdayOf, HourOf, MinuteOf

\* ... and every instant of the week is one.
LEMMA InstantParts ==
  ASSUME NEW t \in Week
  PROVE  /\ WeekdayOf(t) \in Int /\ HourOf(t) \in Int /\ MinuteOf(t) \in Int
         /\ t = WeekdayOf(t) * MinutesPerDay
                + (HourOf(t) * MinutesPerHour + MinuteOf(t))
<1> DEFINE w == t \div MinutesPerDay
           d == t % MinutesPerDay
           h == d \div MinutesPerHour
           m == d % MinutesPerHour
<1>1. t \in Int /\ MinutesPerDay \in Nat \ {0} /\ MinutesPerHour \in Nat \ {0}
  BY CalendarFacts
<1>2. w \in Int /\ d \in Int /\ t = w * MinutesPerDay + d
  BY <1>1, Division
<1>3. h \in Int /\ m \in 0..(MinutesPerHour - 1) /\ d = h * MinutesPerHour + m
  <2> HIDE DEF d
  <2> QED
    BY <1>1, <1>2, Division
<1>4. t % MinutesPerHour = m
  <2> HIDE DEF w, d, h, m
  <2> DEFINE a == w * HoursPerDay + h
  <2>1. a \in Int /\ t = a * MinutesPerHour + m
    BY <1>2, <1>3, CalendarFacts
  <2> HIDE DEF a
  <2> QED
    BY <1>1, <1>3, <2>1
<1>5. WeekdayOf(t) = w /\ HourOf(t) = h /\ MinuteOf(t) = m
  BY <1>4 DEF WeekdayOf, HourOf, MinuteOf
<1> HIDE DEF w, d, h, m
<1> QED
  BY <1>2, <1>3, <1>5

-----------------------------------------------------------------------------
(***************************************************************************)
(* Every week has a tick.                                                  *)
(***************************************************************************)

\* The items that scheduleRepeat makes itself.
LEMMA MadeItems ==
  /\ Single(Asterisk) \in Item
  /\ \A n \in Nat : Single(Digits(n)) \in Item
  /\ \A d \in Item, n \in Nat : Stepped(d, n) \in Item
<1>1. Asterisk \in Word /\ \A n \in Nat : Digits(n) \in Word
  BY DEF Asterisk, Digits, Word
<1>2. \A w \in Word : Single(w) \in Item
  BY DEF Single, Item, NoStep
<1>3. \A d \in Item, n \in Nat : Stepped(d, n) \in Item
  BY DEF Stepped, Item
<1> QED
  BY <1>1, <1>2, <1>3

\* A field that is not empty has a first item, also with a step behind it.
LEMMA FieldHasItem ==
  ASSUME NEW list \in Seq(Item), NEW n \in Nat,
         NEW f \in {list, WithStep(list, n)}, f # <<>>
  PROVE  1 \in DOMAIN f /\ \A i \in DOMAIN f : f[i] \in Item
<1>1. \A i \in DOMAIN list : list[i] \in Item
  OBVIOUS
<1>2. CASE f = list
  BY <1>1, <1>2
<1>3. CASE f = WithStep(list, n)
  <2>1. DOMAIN f = DOMAIN list /\ \A i \in DOMAIN list : f[i] \in Item
    BY <1>1, <1>3, MadeItems DEF WithStep
  <2>2. list # <<>>
    <3>1. WithStep(<<>>, n) = <<>>
      BY DEF WithStep
    <3> QED
      BY <1>3, <3>1
  <2> QED
    BY <2>1, <2>2
<1> QED
  BY <1>2, <1>3

\* The fields of a cron string, with and without an interval in hours.
LEMMA FieldsOf ==
  ASSUME NEW r \in ScheduleRepeat, Parseable(r)
  PROVE  LET c == scheduleRepeat(r)
             days == FieldOf(r.workDays)
             hours == FieldOf(r.workHours)
         IN
         /\ r.everyNthMinute \in Nat /\ r.everyNthHour \in Nat
         /\ r.minuteOfTheHour \in Nat
         /\ days \in Seq(Item) /\ hours \in Seq(Item)
         /\ c.weekday = days
         /\ \/ /\ "minute" \in r.interval
               /\ c.minute = WithStep(EveryItem, r.everyNthMinute)
               /\ c.hour = hours
               /\ c.duration = r.everyNthMinute
            \/ /\ "minute" \notin r.interval
               /\ c.minute = <<Single(Digits(r.minuteOfTheHour))>>
               /\ c.hour = WithStep(hours, r.everyNthHour)
               /\ c.duration = r.everyNthHour * MinutesPerHour
<1> DEFINE c == scheduleRepeat(r)
<1>1. /\ r.everyNthMinute \in Nat /\ r.everyNthHour \in Nat
      /\ r.minuteOfTheHour \in Nat
  BY DEF ScheduleRepeat
<1>2. FieldOf(r.workHours) \in Seq(Item) /\ FieldOf(r.workDays) \in Seq(Item)
  BY ListFacts, MadeItems DEF FieldOf, EveryItem
<1>3. "minute" \in r.interval \/ r.interval = {"hour"}
  BY DEF Parseable, scheduleRepeat, FieldAccepted
<1>4. CASE "minute" \in r.interval
  BY <1>1, <1>2, <1>4 DEF scheduleRepeat
<1>5. CASE r.interval = {"hour"}
  BY <1>1, <1>2, <1>5 DEF scheduleRepeat
<1> QED
  BY <1>3, <1>4, <1>5

\* An item that cron accepts matches the value it starts from.
LEMMA ItemStarts ==
  ASSUME NEW d \in Item, NEW max \in Nat, NEW named \in BOOLEAN,
         CronAccepts(d, max, named)
  PROVE  d.lo.n \in 0..max /\ d.lo.n \in CronValues(d, max)
<1>1. d.lo.n \in Nat /\ d.hi.n \in Nat /\ d.step \in Nat \cup {NoStep}
  BY ItemFacts
<1>2. /\ d.lo.n <= Top(d, max) /\ Top(d, max) <= max /\ Top(d, max) \in Nat
      /\ d.step # 0
  BY <1>1 DEF CronAccepts, Top
<1> DEFINE by == IF d.step = NoStep THEN 1 ELSE d.step
<1>3. by \in Nat \ {0}
  BY <1>1, <1>2 DEF NoStep
<1>4. (d.lo.n - d.lo.n) % by = 0
  <2> HIDE DEF by
  <2> QED
    BY <1>1, <1>3
<1> QED
  BY <1>1, <1>2, <1>4 DEF CronValues

\* A field that cron accepts matches some value of its range.
LEMMA FieldStarts ==
  ASSUME NEW list \in Seq(Item), NEW n \in Nat,
         NEW f \in {list, WithStep(list, n)}, NEW max \in Nat,
         NEW named \in BOOLEAN, FieldAccepted(f, max, named)
  PROVE  \E x \in 0..max : FieldMatches(f, max, x)
<1>1. f # <<>> /\ \A i \in DOMAIN f : CronAccepts(f[i], max, named)
  BY DEF FieldAccepted
<1>2. 1 \in DOMAIN f /\ f[1] \in Item
  BY <1>1, FieldHasItem
<1> QED
  BY <1>1, <1>2, ItemStarts DEF FieldMatches

\* Whatever cron accepts has a tick on some day, hour and minute of a week.
LEMMA RepeatTicks ==
  ASSUME NEW r \in ScheduleRepeat, Parseable(r)
  PROVE  \E t \in Week : IsTick(r, t)
<1> DEFINE c == scheduleRepeat(r)
<1>1. /\ EveryItem \in Seq(Item)
      /\ <<Single(Digits(r.minuteOfTheHour))>> \in Seq(Item)
  BY FieldsOf, MadeItems DEF EveryItem
<1>2. /\ MinutesPerHour - 1 \in Nat /\ HoursPerDay - 1 \in Nat
      /\ DaysPerWeek - 1 \in Nat
  BY CalendarFacts DEF DaysPerWeek
<1>3. /\ FieldAccepted(c.minute, MinutesPerHour - 1, FALSE)
      /\ FieldAccepted(c.hour, HoursPerDay - 1, FALSE)
      /\ FieldAccepted(c.weekday, DaysPerWeek - 1, TRUE)
  BY DEF Parseable
<1>4. PICK m \in 0..(MinutesPerHour - 1) :
        FieldMatches(c.minute, MinutesPerHour - 1, m)
  <2>1. \E list \in Seq(Item), n \in Nat :
          c.minute = list \/ c.minute = WithStep(list, n)
    BY <1>1, FieldsOf
  <2> QED
    BY <1>2, <1>3, <2>1, FieldStarts
<1>5. PICK h \in 0..(HoursPerDay - 1) :
        FieldMatches(c.hour, HoursPerDay - 1, h)
  <2>1. \E list \in Seq(Item), n \in Nat :
          c.hour = list \/ c.hour = WithStep(list, n)
    BY <1>1, FieldsOf
  <2> QED
    BY <1>2, <1>3, <2>1, FieldStarts
<1>6. PICK w \in 0..(DaysPerWeek - 1) :
        FieldMatches(c.weekday, DaysPerWeek - 1, w)
  <2>1. c.weekday \in Seq(Item)
    BY FieldsOf
  <2> QED
    BY <1>2, <1>3, <2>1, FieldStarts
<1> DEFINE t == w * MinutesPerDay + (h * MinutesPerHour + m)
<1>7. t \in Week /\ WeekdayOf(t) = w /\ HourOf(t) = h /\ MinuteOf(t) = m
  BY InstantFacts
<1> HIDE DEF t
<1> QED
  BY <1>4, <1>5, <1>6, <1>7 DEF IsTick

-----------------------------------------------------------------------------
(***************************************************************************)
(* The next tick and the latest one.                                       *)
(***************************************************************************)

\* Any set of natural numbers has a least one ...
LEMMA LeastElement ==
  ASSUME NEW S \in SUBSET Nat, S # {}
  PROVE  \E x \in S : \A y \in S : x <= y
<1> DEFINE Less == {p \in Nat \X Nat : p[1] < p[2]}
<1>1. IsWellFoundedOn(Less, Nat)
  BY NatLessThanWellFounded DEF OpToRel
<1>2. \A x, y \in Nat : y < x => <<y, x>> \in Less
  OBVIOUS
<1> HIDE DEF Less
<1>3. PICK x \in S : \A y \in S : <<y, x>> \notin Less
  BY <1>1, WFMin
<1>4. ASSUME NEW y \in S PROVE x <= y
  <2>1. x \in Nat /\ y \in Nat
    OBVIOUS
  <2>2. ~(y < x)
    BY <1>2, <1>3, <2>1
  <2> QED
    BY <2>1, <2>2
<1> QED
  BY <1>4

\* ... and one with a bound a greatest.
LEMMA GreatestElement ==
  ASSUME NEW S \in SUBSET Nat, S # {}, NEW max \in Nat, \A x \in S : x <= max
  PROVE  \E x \in S : \A y \in S : y <= x
<1> DEFINE D == {max - x : x \in S}
<1>1. D \in SUBSET Nat /\ D # {}
  <2>1. ASSUME NEW x \in S PROVE max - x \in Nat
    <3>1. x \in Nat /\ x <= max
      OBVIOUS
    <3> QED
      BY <3>1
  <2> QED
    BY <2>1
<1>2. PICK d \in D : \A e \in D : d <= e
  <2> HIDE DEF D
  <2> QED
    BY <1>1, LeastElement
<1>3. PICK x \in S : d = max - x
  OBVIOUS
<1>4. ASSUME NEW y \in S PROVE y <= x
  <2>1. max - x <= max - y
    BY <1>2, <1>3
  <2>2. x \in Nat /\ y \in Nat
    OBVIOUS
  <2> QED
    BY <2>1, <2>2
<1> QED
  BY <1>4

\* The instants that match the cron string of r, week after week, on a clock
\* that counts units to the minute.
TickInstants(r, units) ==
  {units * t : t \in {t \in Nat : IsTick(r, t % MinutesPerWeek)}}

\* There is a tick after any instant.
LEMMA TicksGoOn ==
  ASSUME NEW r \in ScheduleRepeat, Parseable(r),
         NEW units \in Nat \ {0}, NEW t \in Nat
  PROVE  \E u \in TickInstants(r, units) : u > t
<1>1. PICK p \in Week : IsTick(r, p)
  BY RepeatTicks
<1> DEFINE w == MinutesPerWeek
           v == (t + 1) * w + p
<1>2. p \in 0..(w - 1) /\ w \in Nat \ {0}
  BY CalendarFacts
<1>3. v \in Nat /\ v > t
  <2> HIDE DEF w
  <2>1. (t + 1) * w >= t + 1 /\ (t + 1) * w \in Nat
    BY <1>2
  <2> QED
    BY <1>2, <2>1
<1>4. v % w = p
  <2>1. t + 1 \in Int /\ v = (t + 1) * w + p
    OBVIOUS
  <2> HIDE DEF v, w
  <2> QED
    BY <1>2, <2>1
<1> HIDE DEF v
<1>5. units * v \in TickInstants(r, units)
  BY <1>1, <1>3, <1>4 DEF TickInstants
<1>6. units * v >= v
  BY <1>3
<1>7. units * v > t
  BY <1>3, <1>6
<1> QED
  BY <1>5, <1>7

-----------------------------------------------------------------------------
(***************************************************************************)
(* Ticks keep the interval.                                                *)
(***************************************************************************)

\* x lies a whole number of steps after the offset.
OnGrid(x, offset, every) == \E k \in Int : x = offset + k * every

\* Numbers on the same grid whose distance is positive are a step apart.
LEMMA GridApart ==
  ASSUME NEW x \in Int, NEW y \in Int, NEW d \in Int, NEW offset \in Int,
         NEW every \in Nat \ {0}, NEW q \in Int, NEW j \in Int,
         OnGrid(x, offset, every), OnGrid(y, offset, every),
         d > 0, x + d = y + j * (q * every)
  PROVE  d >= every
<1>1. PICK k \in Int : x = offset + k * every
  BY DEF OnGrid
<1>2. PICK l \in Int : y = offset + l * every
  BY DEF OnGrid
<1> DEFINE n == l - k + j * q
<1>3. n \in Int /\ d = n * every
  BY <1>1, <1>2
<1> HIDE DEF n
<1> QED
  BY <1>3, MultiplesApart

\* The values of an item with a step are on the grid of that step.
LEMMA ItemGrid ==
  ASSUME NEW d, NEW n \in Nat \ {0}, NEW max \in Nat, NEW v,
         d.lo.n \in Nat, d.step = n, v \in CronValues(d, max), v \in Int
  PROVE  OnGrid(v, d.lo.n, n)
<1> DEFINE lo == d.lo.n
           x == v - lo
<1>1. x % n = 0 /\ lo \in Int
  BY DEF CronValues, NoStep
<1>2. x \in Int /\ v = lo + x
  BY <1>1
<1> HIDE DEF x, lo
<1>3. x \div n \in Int /\ x = (x \div n) * n + (x % n)
  BY <1>2, Division
<1>4. v = lo + (x \div n) * n
  BY <1>1, <1>2, <1>3
<1> QED
  BY <1>3, <1>4 DEF OnGrid, lo

\* With an interval in minutes that divides the hour, the ticks are multiples
\* of the interval.
LEMMA MinuteTicks ==
  ASSUME NEW r \in ScheduleRepeat, NEW t \in Week, IsTick(r, t),
         "minute" \in r.interval, NEW n \in Nat \ {0},
         n = r.everyNthMinute
  PROVE  \A q \in Int : MinutesPerHour = q * n => OnGrid(t, 0, n)
<1> DEFINE c == scheduleRepeat(r)
<1>1. Parseable(r) /\ FieldMatches(c.minute, MinutesPerHour - 1, MinuteOf(t))
  BY DEF IsTick
<1>2. c.minute = WithStep(EveryItem, n)
  BY <1>1, FieldsOf
<1> DEFINE d == Stepped(Single(Asterisk), n)
<1>3. c.minute = [i \in {1} |-> d]
  <2>1. /\ DOMAIN EveryItem = {1} /\ Len(EveryItem) = 1
        /\ EveryItem[1] = Single(Asterisk)
    BY DEF EveryItem
  <2>2. Single(Asterisk).step = NoStep
    BY DEF Single
  <2> QED
    BY <1>2, <2>1, <2>2 DEF WithStep
<1>4. d.lo.n = 0 /\ d.step = n
  BY MadeItems, SteppedFacts DEF Single, Asterisk
<1>5. MinuteOf(t) \in CronValues(d, MinutesPerHour - 1)
  BY <1>1, <1>3 DEF FieldMatches
<1> HIDE DEF d
<1> DEFINE w == WeekdayOf(t)
           h == HourOf(t)
           m == MinuteOf(t)
<1>6. /\ w \in Int /\ h \in Int /\ m \in Int
      /\ t = w * MinutesPerDay + (h * MinutesPerHour + m)
  BY InstantParts
<1>7. PICK k \in Int : m = 0 + k * n
  <2>1. MinutesPerHour - 1 \in Nat
    BY CalendarAssumption
  <2> HIDE DEF m
  <2>2. OnGrid(m, d.lo.n, n)
    BY <1>4, <1>5, <1>6, <2>1, ItemGrid DEF m
  <2> QED
    BY <1>4, <2>2 DEF OnGrid
<1> HIDE DEF w, h, m
<1> DEFINE a == w * HoursPerDay + h
<1>8. a \in Int /\ t = a * MinutesPerHour + m
  <2>1. w * MinutesPerDay = (w * HoursPerDay) * MinutesPerHour
        /\ w * HoursPerDay \in Int /\ MinutesPerHour \in Int
    BY <1>6, CalendarFacts
  <2> DEFINE b == w * HoursPerDay
  <2> HIDE DEF b
  <2>2. w * MinutesPerDay = b * MinutesPerHour /\ b \in Int
    BY <2>1 DEF b
  <2>3. t = (b + h) * MinutesPerHour + m
    BY <1>6, <2>1, <2>2
  <2> QED
    BY <1>6, <2>2, <2>3 DEF b
<1> HIDE DEF a
<1> TAKE q \in Int
<1> HAVE MinutesPerHour = q * n
<1>9. t = 0 + (a * q + k) * n /\ a * q + k \in Int
  BY <1>7, <1>8
<1> QED
  BY <1>9 DEF OnGrid

\* A list with a first item and no second.
LEMMA OnlyItem ==
  ASSUME NEW list \in Seq(Item), Len(list) <= 1, 1 \in DOMAIN list
  PROVE  DOMAIN list = {1} /\ Len(list) = 1 /\ list[1] \in Item
<1>1. DOMAIN list = 1..Len(list) /\ Len(list) \in Nat /\ list[1] \in Item
  OBVIOUS
<1>2. Len(list) = 1
  BY <1>1
<1> QED
  BY <1>1, <1>2

\* The minute of the day that the ticks of an interval in hours start from.
Anchor(r) ==
  FieldOf(r.workHours)[1].lo.n * MinutesPerHour + r.minuteOfTheHour

\* With an interval in hours that divides the day, and at most one item of
\* hours, the ticks are intervals apart, counted from the anchor.
LEMMA HourTicks ==
  ASSUME NEW r \in ScheduleRepeat, NEW t \in Week, IsTick(r, t),
         "minute" \notin r.interval, Len(r.workHours.list) <= 1,
         NEW n \in Nat \ {0}, n = r.everyNthHour
  PROVE  /\ Anchor(r) \in Int
         /\ \A q \in Int : MinutesPerDay = q * (n * MinutesPerHour)
                           => OnGrid(t, Anchor(r), n * MinutesPerHour)
<1> DEFINE c == scheduleRepeat(r)
           hours == FieldOf(r.workHours)
           d == hours[1]
<1>1. /\ Parseable(r)
      /\ FieldMatches(c.minute, MinutesPerHour - 1, MinuteOf(t))
      /\ FieldMatches(c.hour, HoursPerDay - 1, HourOf(t))
  BY DEF IsTick
<1>2. /\ c.minute = <<Single(Digits(r.minuteOfTheHour))>>
      /\ c.hour = WithStep(hours, n) /\ hours \in Seq(Item)
      /\ r.minuteOfTheHour \in Nat
  BY <1>1, FieldsOf
<1>3. /\ FieldAccepted(c.hour, HoursPerDay - 1, FALSE)
      /\ FieldAccepted(c.minute, MinutesPerHour - 1, FALSE)
  BY <1>1 DEF Parseable
<1>4. DOMAIN hours = {1} /\ Len(hours) = 1 /\ d \in Item
  <2>1. Len(hours) <= 1
    BY DEF FieldOf, EveryItem
  <2>2. 1 \in DOMAIN c.hour
    BY <1>2, <1>3, FieldHasItem DEF FieldAccepted
  <2>3. 1 \in DOMAIN hours
    BY <1>2, <2>2 DEF WithStep
  <2> HIDE DEF hours
  <2>4. hours \in Seq(Item)
    BY <1>2
  <2> QED
    BY <2>1, <2>3, <2>4, OnlyItem
<1> DEFINE e == c.hour[1]
<1>5. /\ e.lo = d.lo /\ e.step = n /\ DOMAIN c.hour = {1}
      /\ d.lo.n \in Nat
  <2>1. /\ DOMAIN c.hour = {1}
        /\ e = Stepped(d, IF d.step = NoStep THEN n ELSE 0)
    BY <1>2, <1>4 DEF WithStep
  <2>2. CronAccepts(e, HoursPerDay - 1, FALSE)
    BY <1>3, <2>1 DEF FieldAccepted
  <2>3. e.step # 0
    BY <2>2 DEF CronAccepts
  <2>4. d.step = NoStep
    BY <1>4, <2>1, <2>3, SteppedFacts
  <2> QED
    BY <1>4, <2>1, <2>4, SteppedFacts, ItemFacts
<1>6. HourOf(t) \in CronValues(e, HoursPerDay - 1)
  BY <1>1, <1>5 DEF FieldMatches
<1> DEFINE w == WeekdayOf(t)
           h == HourOf(t)
           m == MinuteOf(t)
           lo == d.lo.n
<1>7. /\ w \in Int /\ h \in Int /\ m \in Int
      /\ t = w * MinutesPerDay + (h * MinutesPerHour + m)
  BY InstantParts
<1>8. m = r.minuteOfTheHour
  <2> DEFINE one == Single(Digits(r.minuteOfTheHour))
  <2>1. one.lo.n = r.minuteOfTheHour /\ one.hi.n = r.minuteOfTheHour
        /\ one.hyphen = FALSE /\ one.step = NoStep /\ one.lo.text = "digits"
    BY DEF Single, Digits
  <2>2. m \in CronValues(one, MinutesPerHour - 1)
    BY <1>1, <1>2 DEF FieldMatches
  <2> HIDE DEF one, m
  <2>3. m \in r.minuteOfTheHour..r.minuteOfTheHour
    BY <2>1, <2>2 DEF CronValues, Top
  <2> QED
    BY <1>2, <1>7, <2>3
<1>9. PICK k \in Int : h = lo + k * n
  <2>1. HoursPerDay - 1 \in Nat
    BY CalendarAssumption
  <2>2. e.lo.n = lo /\ e.lo.n \in Nat /\ e.step = n
    BY <1>5
  <2> HIDE DEF e, h, lo
  <2>3. OnGrid(h, e.lo.n, n)
    BY <1>6, <1>7, <2>1, <2>2, ItemGrid DEF h
  <2> QED
    BY <2>2, <2>3 DEF OnGrid
<1>10. lo \in Int /\ Anchor(r) = lo * MinutesPerHour + m
  BY <1>5, <1>8 DEF Anchor
<1> HIDE DEF w, h, m, lo
<1> DEFINE every == n * MinutesPerHour
<1>11. h * MinutesPerHour = lo * MinutesPerHour + k * every
       /\ every \in Int /\ MinutesPerHour \in Int
  <2>1. MinutesPerHour \in Int
    BY CalendarAssumption
  <2>2. (lo + k * n) * MinutesPerHour = lo * MinutesPerHour
                                        + (k * n) * MinutesPerHour
    BY <1>10, <2>1
  <2>3. (k * n) * MinutesPerHour = k * every
    BY <2>1
  <2> QED
    BY <1>9, <2>1, <2>2, <2>3
<1>12. Anchor(r) \in Int
  BY <1>7, <1>10, <1>11
<1>13. ASSUME NEW q \in Int, MinutesPerDay = q * every
       PROVE  OnGrid(t, Anchor(r), every)
  <2> HIDE DEF every
  <2>1. t = Anchor(r) + (w * q + k) * every /\ w * q + k \in Int
    BY <1>7, <1>9, <1>10, <1>11, <1>13
  <2> QED
    BY <2>1 DEF OnGrid
<1> QED
  BY <1>12, <1>13

-----------------------------------------------------------------------------
(***************************************************************************)
(* The last tick.                                                          *)
(***************************************************************************)

\* The clock: the gap counts the minutes since some tick, the week's end or
\* not in between.  IntervalKept alone says nothing of what the gap counts.
Clock ==
  /\ repeat \in ScheduleRepeat
  /\ minute \in Week
  /\ gap \in Nat \cup {NoTick}
  /\ gap # NoTick =>
       /\ gap >= 1
       /\ \E p \in Week : /\ IsTick(repeat, p)
                          /\ (p + gap - minute) % MinutesPerWeek = 0

LEMMA ClockInit == Init => Clock
<1> SUFFICES ASSUME Init PROVE Clock
  OBVIOUS
<1>1. repeat \in ScheduleRepeat /\ minute = 0 /\ gap = NoTick
  BY RepeatsAssumption DEF Init
<1>2. 0 \in Week
  BY CalendarFacts
<1> QED
  BY <1>1, <1>2 DEF Clock

\* The clock goes on, over the week's end too.
LEMMA ClockStep == Clock /\ [Advance]_vars => Clock'
<1> SUFFICES ASSUME Clock, [Advance]_vars PROVE Clock'
  OBVIOUS
<1>1. CASE UNCHANGED vars
  BY <1>1 DEF Clock, vars, IsTick
<1>2. CASE Advance
  <2>1. /\ minute' = (minute + 1) % MinutesPerWeek /\ repeat' = repeat
        /\ gap' = IF IsTick(repeat, minute) THEN 1
                  ELSE IF gap = NoTick THEN NoTick ELSE gap + 1
    BY <1>2 DEF Advance, MinutesPerWeek
  <2>2. minute \in Int /\ gap \in Nat \cup {NoTick} /\ minute \in Week
    BY CalendarFacts DEF Clock
  <2> DEFINE u == (minute + 1) \div MinutesPerWeek
  <2>3. /\ u \in Int /\ minute' \in 0..(MinutesPerWeek - 1)
        /\ minute + 1 = u * MinutesPerWeek + minute'
    BY <2>1, <2>2, CalendarFacts, Division
  <2> HIDE DEF u
  <2>4. ASSUME NEW p \in Week, NEW g \in Nat, NEW j \in Int,
               p + g - minute = j * MinutesPerWeek
        PROVE  (p + (g + 1) - minute') % MinutesPerWeek = 0
    <3> DEFINE x == p + g - minute
               y == minute + 1 - minute'
    <3>1. p \in Int /\ minute' \in Int /\ MinutesPerWeek \in Nat \ {0}
      BY <2>3, CalendarFacts
    <3>2. x \in Int /\ y \in Int /\ p + (g + 1) - minute' = x + y
      BY <2>2, <3>1
    <3>3. x = j * MinutesPerWeek
      BY <2>4
    <3>4. y = u * MinutesPerWeek
      <4> DEFINE z == u * MinutesPerWeek
      <4>1. minute + 1 = z + minute' /\ z \in Int
        BY <2>3, <3>1
      <4> HIDE DEF z
      <4>2. minute \in Int /\ minute' \in Int
        BY <2>2, <3>1
      <4>3. ASSUME NEW v \in Int, minute + 1 = z + v PROVE minute + 1 - v = z
        BY <4>1, <4>2, <4>3
      <4>4. minute + 1 - minute' = z
        BY <4>1, <4>2, <4>3, Zenon
      <4> QED
        BY <4>4 DEF z
    <3> HIDE DEF x, y
    <3>5. (x + y) % MinutesPerWeek = 0
      BY <2>3, <3>1, <3>2, <3>3, <3>4, MultiplesAdd
    <3> QED
      BY <3>2, <3>5
  <2>5. CASE IsTick(repeat, minute)
    <3>1. minute + 0 - minute = 0 * MinutesPerWeek
      BY <2>2, CalendarFacts
    <3>2. gap' = 0 + 1 /\ (minute + (0 + 1) - minute') % MinutesPerWeek = 0
      BY <2>1, <2>2, <2>4, <2>5, <3>1
    <3> QED
      BY <2>1, <2>2, <2>3, <2>5, <3>2, CalendarFacts DEF Clock, IsTick, NoTick
  <2>6. CASE ~IsTick(repeat, minute) /\ gap = NoTick
    BY <2>1, <2>3, <2>6, CalendarFacts DEF Clock
  <2>7. CASE ~IsTick(repeat, minute) /\ gap # NoTick
    <3>1. gap' = gap + 1 /\ gap \in Nat
      BY <2>1, <2>2, <2>7
    <3>2. PICK p \in Week : IsTick(repeat, p)
                            /\ (p + gap - minute) % MinutesPerWeek = 0
      BY <2>7 DEF Clock
    <3>3. p \in Int /\ p + gap - minute \in Int
      BY <2>2, <3>1, CalendarFacts
    <3>4. PICK j \in Int : p + gap - minute = j * MinutesPerWeek
      BY <3>2, <3>3, CalendarFacts, Multiples
    <3>5. (p + (gap + 1) - minute') % MinutesPerWeek = 0
      BY <2>4, <3>1, <3>4
    <3> QED
      BY <2>1, <2>3, <3>1, <3>2, <3>5, CalendarFacts DEF Clock, NoTick
  <2> QED
    BY <2>5, <2>6, <2>7
<1> QED
  BY <1>1, <1>2

\* Two ticks of the same repeat lie on one grid, and so does the week.
LEMMA TicksShareGrid ==
  ASSUME NEW r \in ScheduleRepeat, NEW s \in Week, NEW t \in Week,
         IsTick(r, s), IsTick(r, t),
         "minute" \notin r.interval => Len(r.workHours.list) <= 1,
         NEW every, every = scheduleRepeat(r).duration, every > 0,
         (IF "minute" \in r.interval THEN MinutesPerHour ELSE MinutesPerDay)
           % every = 0
  PROVE  /\ every \in Nat \ {0}
         /\ \E offset \in Int, q \in Int :
              /\ OnGrid(s, offset, every) /\ OnGrid(t, offset, every)
              /\ MinutesPerWeek = q * every
<1>1. Parseable(r)
  BY DEF IsTick
<1>2. r.everyNthMinute \in Nat /\ r.everyNthHour \in Nat
  BY <1>1, FieldsOf
<1>3. CASE "minute" \in r.interval
  <2>1. every = r.everyNthMinute /\ every \in Nat \ {0}
    BY <1>1, <1>2, <1>3, FieldsOf
  <2>2. PICK q \in Int : MinutesPerHour = q * every
    <3>1. MinutesPerHour % every = 0 /\ MinutesPerHour \in Int
      BY <1>3, CalendarAssumption
    <3> QED
      BY <2>1, <3>1, Multiples
  <2>3. OnGrid(s, 0, every) /\ OnGrid(t, 0, every)
    BY <1>3, <2>1, <2>2, MinuteTicks
  <2>4. (7 * HoursPerDay) * MinutesPerHour = MinutesPerWeek
        /\ 7 * HoursPerDay \in Int
    BY CalendarFacts DEF MinutesPerWeek, DaysPerWeek
  <2>5. MinutesPerWeek = ((7 * HoursPerDay) * q) * every
        /\ (7 * HoursPerDay) * q \in Int
    BY <2>1, <2>2, <2>4
  <2> QED
    BY <2>1, <2>3, <2>5
<1>4. CASE "minute" \notin r.interval
  <2> DEFINE n == r.everyNthHour
  <2>1. every = n * MinutesPerHour
    BY <1>1, <1>4, FieldsOf
  <2>2. n \in Nat \ {0} /\ every \in Nat \ {0}
    <3>1. n = 0 => every = 0
      BY <2>1, CalendarAssumption
    <3>2. every \in Nat
      BY <1>2, <2>1, CalendarAssumption
    <3> QED
      BY <1>2, <3>1, <3>2
  <2>3. PICK q \in Int : MinutesPerDay = q * every
    <3>1. MinutesPerDay % every = 0
      BY <1>4
    <3>2. MinutesPerDay \in Int
      BY CalendarFacts
    <3> QED
      BY <2>2, <3>1, <3>2, Multiples
  <2>4. /\ Anchor(r) \in Int
        /\ OnGrid(s, Anchor(r), every) /\ OnGrid(t, Anchor(r), every)
    BY <1>4, <2>1, <2>2, <2>3, HourTicks
  <2>5. MinutesPerWeek = (7 * q) * every /\ 7 * q \in Int
    BY <2>2, <2>3 DEF MinutesPerWeek, DaysPerWeek
  <2> QED
    BY <2>2, <2>4, <2>5
<1> QED
  BY <1>3, <1>4

\* The time since the last tick is a whole number of intervals at a tick.
LEMMA ClockKeepsInterval == Clock => IntervalKept
<1> DEFINE every == scheduleRepeat(repeat).duration
           whole == IF "minute" \in repeat.interval
                    THEN MinutesPerHour ELSE MinutesPerDay
<1> SUFFICES ASSUME Clock, IsTick(repeat, minute), gap # NoTick, every > 0,
                    whole % every = 0,
                    "minute" \notin repeat.interval
                      => Len(repeat.workHours.list) <= 1
             PROVE  gap >= every
  BY DEF IntervalKept
<1>1. /\ repeat \in ScheduleRepeat /\ minute \in Week
      /\ gap \in Nat /\ gap >= 1
  BY DEF Clock
<1>2. PICK p \in Week : IsTick(repeat, p)
                        /\ (p + gap - minute) % MinutesPerWeek = 0
  BY DEF Clock
<1>3. every \in Nat \ {0} /\
      \E offset \in Int, q \in Int :
        /\ OnGrid(p, offset, every) /\ OnGrid(minute, offset, every)
        /\ MinutesPerWeek = q * every
  BY <1>1, <1>2, TicksShareGrid
<1> HIDE DEF every, whole
<1>4. PICK offset \in Int, q \in Int :
        /\ OnGrid(p, offset, every) /\ OnGrid(minute, offset, every)
        /\ MinutesPerWeek = q * every
  BY <1>3
<1>5. p \in Int /\ minute \in Int /\ gap \in Int /\ p + gap - minute \in Int
  BY <1>1, CalendarFacts
<1>6. PICK j \in Int : p + gap - minute = j * MinutesPerWeek
  BY <1>2, <1>5, CalendarFacts, Multiples
<1>7. p + gap = minute + j * (q * every)
  <2>1. p + gap - minute = j * (q * every)
    BY <1>4, <1>6
  <2> DEFINE z == j * (q * every)
  <2>2. p + gap - minute = z
    BY <2>1
  <2>3. z \in Int
    BY <1>3
  <2> HIDE DEF z
  <2>4. p + gap = minute + z
    BY <1>5, <2>2, <2>3
  <2> QED
    BY <2>4 DEF z
<1>8. every \in Nat \ {0}
  BY <1>3
<1>9. gap > 0
  BY <1>1
<1> QED
  BY <1>4, <1>5, <1>7, <1>8, <1>9, GridApart

-----------------------------------------------------------------------------
(***************************************************************************)
(* The theorems.                                                           *)
(***************************************************************************)

\* Two ticks in a row are at least minChaosInterval apart, on any calendar and
\* across the week's end, if it divides the hour or the day and an interval in
\* hours meets at most one item of hours.
THEOREM IntervalRespected == Spec => []IntervalKept
BY ClockInit, ClockStep, ClockKeepsInterval, PTL DEF Spec

\* What ChaosScheduler assumes of CronTicks (CronAssumption) is true of the
\* ticks of every repeat specification that cron accepts, on a clock with an
\* even number of units to the minute: after any instant there is a first
\* tick, and before any instant that has seen one a latest.  So Next returns,
\* and so does the loop over Next in getRecentUnmetScheduleTime.
THEOREM CronGivesTicks ==
  ASSUME NEW r \in ScheduleRepeat, Parseable(r),
         NEW units \in Nat \ {0}, units % 2 = 0
  PROVE  LET ticks == TickInstants(r, units) IN
         /\ \A t \in ticks : t \in Nat /\ t % 2 = 0
         /\ \A t \in Nat : \E u \in ticks :
              u > t /\ \A v \in ticks : v > t => u <= v
         /\ \A t \in Nat : (\E u \in ticks : u <= t) =>
              \E u \in ticks : u <= t /\ \A v \in ticks : v <= t => v <= u
<1> DEFINE ticks == TickInstants(r, units)
<1>1. ASSUME NEW t \in ticks PROVE t \in Nat /\ t % 2 = 0
  <2>1. PICK m \in Nat : t = units * m
    BY DEF TickInstants
  <2>2. PICK h \in Int : units = h * 2
    BY Multiples
  <2>3. t = (h * m) * 2 /\ h * m \in Int /\ t \in Nat
    BY <2>1, <2>2
  <2> QED
    BY <2>3, Multiples
<1>2. ticks \subseteq Nat
  BY <1>1
<1>3. ASSUME NEW t \in Nat
      PROVE  \E u \in ticks : u > t /\ \A v \in ticks : v > t => u <= v
  <2> DEFINE S == {u \in ticks : u > t}
  <2>1. S # {}
    BY TicksGoOn
  <2> HIDE DEF ticks
  <2>2. S \in SUBSET Nat
    BY <1>2
  <2>3. PICK u \in S : \A v \in S : u <= v
    <3> HIDE DEF S
    <3> QED
      BY <2>1, <2>2, LeastElement
  <2> QED
    BY <2>3
<1>4. ASSUME NEW t \in Nat, \E u \in ticks : u <= t
      PROVE  \E u \in ticks : u <= t /\ \A v \in ticks : v <= t => v <= u
  <2> DEFINE S == {u \in ticks : u <= t}
  <2>1. S # {} /\ \A u \in S : u <= t
    BY <1>4
  <2> HIDE DEF ticks
  <2>2. S \in SUBSET Nat
    BY <1>2
  <2>3. PICK u \in S : \A v \in S : v <= u
    <3> HIDE DEF S
    <3> QED
      BY <2>1, <2>2, GreatestElement
  <2> QED
    BY <2>3
<1> HIDE DEF ticks
<1>5. /\ \A t \in ticks : t \in Nat /\ t % 2 = 0
      /\ \A t \in Nat : \E u \in ticks :
           u > t /\ \A v \in ticks : v > t => u <= v
      /\ \A t \in Nat : (\E u \in ticks : u <= t) =>
           \E u \in ticks : u <= t /\ \A v \in ticks : v <= t => v <= u
  BY <1>1, <1>3, <1>4
<1> QED
  BY <1>5 DEF ticks

=============================================================================
