------------------------------- MODULE DateTime -------------------------------
(***************************************************************************)
(* Dates and times: the algorithms of src/core/date.cc, time.cc and        *)
(* datetime.cc.  A value is a record of its fields; a month is its number, *)
(* as in the enumeration Date::Month.                                      *)
(***************************************************************************)
EXTENDS Integers

Month == 1 .. 12
DECEMBER == 12
JANUARY  == 1

is_leap_year(year) == \/ year % 4 = 0 /\ year % 100 # 0
                      \/ year % 400 = 0

days_in_month(month, leap_year) ==
    IF month = 2 THEN (IF leap_year THEN 29 ELSE 28)
    ELSE IF month \in {4, 6, 9, 11} THEN 30 ELSE 31

Date_IsValid(year, month, day) == day > 0 /\ day <= days_in_month(month, is_leap_year(year))

(* Constructors replace what is not valid by 1 January 1900 and by midnight. *)
Date(y, m, d) ==
    IF Date_IsValid(y, m, d) THEN [year |-> y, month |-> m, day |-> d]
                             ELSE [year |-> 1900, month |-> JANUARY, day |-> 1]

Time_IsValid(h, m, s) == /\ h >= 0 /\ h < 23
                         /\ m >= 0 /\ m < 59
                         /\ s >= 0 /\ s < 59

Time(h, m, s) ==
    IF Time_IsValid(h, m, s) THEN [hour |-> h, minute |-> m, second |-> s]
                             ELSE [hour |-> 0, minute |-> 0, second |-> 0]

(* DateTime(i64 timestamp) and DateTime::Now(): from the fields of a tm. *)
DateTime(tm) == [date |-> Date(tm.year, tm.month, tm.day),
                 time |-> Time(tm.hour, tm.minute, tm.second)]

-----------------------------------------------------------------------------
GetDaysInMonth(d) == days_in_month(d.month, is_leap_year(d.year))

(* The sum over the months before, then the day. *)
GetDayOfYear(d) ==
    LET before[m \in 0 .. 12] ==
            IF m = 0 THEN 0 ELSE before[m - 1] + days_in_month(m, is_leap_year(d.year))
    IN  before[d.month - 1] + d.day

(* Mutant: every fourth year is a leap year. *)
IncrementLeapless(d) ==
    IF d.day = days_in_month(d.month, d.year % 4 = 0)
    THEN IF d.month = DECEMBER
         THEN [year |-> d.year + 1, month |-> JANUARY, day |-> 1]
         ELSE [year |-> d.year, month |-> d.month + 1, day |-> 1]
    ELSE [d EXCEPT !.day = @ + 1]

(* Date::operator++ *)
Increment(d) ==
    IF d.day = GetDaysInMonth(d)
    THEN IF d.month = DECEMBER
         THEN [year |-> d.year + 1, month |-> JANUARY, day |-> 1]
         ELSE [year |-> d.year, month |-> d.month + 1, day |-> 1]
    ELSE [d EXCEPT !.day = @ + 1]

(* Date::operator-- *)
Decrement(d) ==
    IF d.day > 1 THEN [d EXCEPT !.day = @ - 1]
    ELSE IF d.month = JANUARY THEN [year |-> d.year - 1, month |-> DECEMBER, day |-> 31]
    ELSE [year |-> d.year, month |-> d.month - 1,
          day |-> days_in_month(d.month - 1, is_leap_year(d.year))]

(* Compare() of the first field in which two values differ. *)
Order(x, y) == IF x > y THEN 1 ELSE IF x < y THEN -1 ELSE 0
Then(c, d) == IF c # 0 THEN c ELSE d

(* Mutant: months count before years. *)
Date_CompareMonthFirst(d, e) ==
    Then(Order(d.month, e.month), Then(Order(d.year, e.year), Order(d.day, e.day)))

Date_Compare(d, e) ==
    Then(Order(d.year, e.year), Then(Order(d.month, e.month), Order(d.day, e.day)))
Time_Compare(t, u) ==
    Then(Order(t.hour, u.hour), Then(Order(t.minute, u.minute), Order(t.second, u.second)))
DateTime_Compare(d, e) == Then(Date_Compare(d.date, e.date), Time_Compare(d.time, e.time))

Before(d, e) == DateTime_Compare(d, e) < 0
=============================================================================
