----------------------------- MODULE CalendarWalk -----------------------------
(***************************************************************************)
(* The calendar arithmetic of DateTime against a calendar that counts      *)
(* days: from 1 January of a year in First a date is stepped back and      *)
(* forth with the operators ++ and --, within Span years, while a count of *)
(* the steps is kept.                                                      *)
(***************************************************************************)
EXTENDS DateTime

CONSTANTS First,   \* years in which a walk starts
          Span     \* length of a walk in years

ASSUME WalkAssumption == First \subseteq Nat /\ Span \in Nat

VARIABLES first, date, days

walkVars == <<first, date, days>>

Start(y) == Date(y, JANUARY, 1)

WalkInit == /\ first \in First
        /\ date = Start(first)
        /\ days = 0

Forward  == /\ date.year < first + Span
            /\ date' = Increment(date) /\ days' = days + 1
            /\ UNCHANGED first
Backward == /\ days > 0
            /\ date' = Decrement(date) /\ days' = days - 1
            /\ UNCHANGED first

WalkNext == Forward \/ Backward

WalkSpec == WalkInit /\ [][WalkNext]_walkVars

-----------------------------------------------------------------------------
(* PROPERTIES                                                              *)

(* Days from 1 January of year 1, counted with the rule for leap years     *)
(* alone and a table of the days before every month.                       *)
DayNumber(d) ==
    LET y == d.year - 1
        table == <<0, 31, 59, 90, 120, 151, 181, 212, 243, 273, 304, 334>>
        leap == (d.year % 4 = 0) /\ (d.year % 100 = 0 => d.year % 400 = 0)
    IN  365 * y + y \div 4 - y \div 100 + y \div 400 + table[d.month]
          + (IF leap /\ d.month > 2 THEN 1 ELSE 0) + d.day - 1

(* The day of the year counts the days since the last one of the old year. *)
DayOfYearCounts ==
    GetDayOfYear(date) = DayNumber(date) - DayNumber([year |-> date.year - 1, month |-> 12, day |-> 31])

(* n steps of ++ and -- lead to the date n days away: neither the ends of  *)
(* months nor leap years, nor centuries, gain or lose a day; and the date  *)
(* is valid all the way and knows its place in the year.                   *)
StepsAreDays == /\ DayNumber(date) = DayNumber(Start(first)) + days
                /\ Date_IsValid(date.year, date.month, date.day)
                /\ DayOfYearCounts

(* Compare() orders dates as the days pass. *)
OrderIsChronological ==
    /\ [](Date_Compare(date, Start(first)) = Order(days, 0))
    /\ [][Date_Compare(date', date) = Order(days', days)]_walkVars
=============================================================================
