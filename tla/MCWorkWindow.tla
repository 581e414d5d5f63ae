---------------------------- MODULE MCWorkWindow ----------------------------
(***************************************************************************)
(* WorkWindow on days of four hours of four minutes.                       *)
(***************************************************************************)
EXTENDS WorkWindow

\* 0,2,4  Mon,Sat  2-4  Mon-Wed,6  Fri-Mon  7  *  1-5/2  Mon-5  ""
DayLists ==
  {<<Single(Digits(0)), Single(Digits(2)), Single(Digits(4))>>,
   <<Single(WeekDay(1)), Single(WeekDay(6))>>,
   <<Hyphenated(Digits(2), Digits(4))>>,
   <<Hyphenated(WeekDay(1), WeekDay(3)), Single(Digits(6))>>,
   <<Hyphenated(WeekDay(5), WeekDay(1))>>,
   <<Single(Digits(7))>>,
   EveryItem,
   <<Stepped(Hyphenated(Digits(1), Digits(5)), 2)>>,
   <<Hyphenated(WeekDay(1), Digits(5))>>,
   <<>>}

\* 2  0,2  1-3  0-1,3  3-1  4  *  0-3/2  Mon
HourLists ==
  {<<Single(Digits(2))>>,
   <<Single(Digits(0)), Single(Digits(2))>>,
   <<Hyphenated(Digits(1), Digits(3))>>,
   <<Hyphenated(Digits(0), Digits(1)), Single(Digits(3))>>,
   <<Hyphenated(Digits(3), Digits(1))>>,
   <<Single(Digits(4))>>,
   EveryItem,
   <<Stepped(Hyphenated(Digits(0), Digits(3)), 2)>>,
   <<Single(WeekDay(1))>>}

SomeRepeats ==
  [workDays : {Unset} \cup {Given(l) : l \in DayLists},
   workHours : {Unset} \cup {Given(l) : l \in HourLists},
   interval : {{}, {"minute"}, {"hour"}, {"minute", "hour"}},
   everyNthMinute : {0, 2, 3},
   everyNthHour : {2, 3},
   minuteOfTheHour : {1, 4}]

=============================================================================
