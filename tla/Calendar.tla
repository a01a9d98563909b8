------------------------------ MODULE Calendar ------------------------------
(***************************************************************************)
(* stayke-escrow, utils.rs and state/bookings.rs: the days of one listing  *)
(* as the program keeps them.  A BookingDays account per year holds twelve *)
(* masks of 31 bits; a mask is modelled by the set of its days, so that    *)
(* |, & and & ! are union, intersection and difference.                    *)
(*                                                                         *)
(* Whoever creates, rejects, expires or cancels a booking calls one of     *)
(* the four helpers with its check-in and check-out.  The reference is     *)
(* the civil calendar and, of the days, the set Availability keeps.        *)
(***************************************************************************)
EXTENDS Integers, FiniteSets, FiniteSetsExt, Functions

CONSTANTS
  DAY,            \* ticks in 24 hours
  Moments         \* when guests ask to check in and out

\* The program's times are i64: there are finitely many.
ASSUME CalendarAssumption ==
  DAY \in Nat \ {0} /\ Moments \subseteq Nat /\ IsFiniteSet(Moments)

VARIABLES
  occupiedDays,   \* by year, the masks of the accounts there are
  stays           \* the stays whose days are held

vars == <<occupiedDays, stays>>

Stays == {s \in [in : Moments, out : Moments] : s.in < s.out}

-----------------------------------------------------------------------------
\* Mutant: January and February are left in the year before.
MarchYear(y, month) == y

JanuaryYear(y, month) == IF month <= 2 THEN y + 1 ELSE y

\* Howard Hinnant's conversion of a day number, with years from March on;
\* a leap year is what four divides.
DeriveDate(t) ==
  LET z == t \div DAY + 719468
      era == z \div 146097
      doe == z - era * 146097
      yoe == (doe - doe \div 1460 + doe \div 36524 - doe \div 146096) \div 365
      doy == doe - (365 * yoe + yoe \div 4 - yoe \div 100)
      mp == (5 * doy + 2) \div 153
      month == IF mp < 10 THEN mp + 3 ELSE mp - 9
      year == JanuaryYear(yoe + era * 400, month)
  IN [year |-> year, month |-> month, day |-> doy - (153 * mp + 2) \div 5 + 1,
      leapYear |-> year % 4 = 0]

\* Of every moment a stay can begin or end at, once.
Dates == [t \in Moments |-> DeriveDate(t)]
From(s) == Dates[s.in]
To(s) == Dates[s.out]

\* Mutant: no leap years.
MonthsDaysOfCommonYears(month, leapYear) ==
  CASE month \in {1, 3, 5, 7, 8, 10, 12} -> 31
    [] month \in {4, 6, 9, 11} -> 30
    [] month = 2 -> 28

MonthsDays(month, leapYear) ==
  CASE month \in {1, 3, 5, 7, 8, 10, 12} -> 31
    [] month \in {4, 6, 9, 11} -> 30
    [] month = 2 -> IF leapYear THEN 29 ELSE 28

BitmapDays(first, last) == first .. last

\* Mutant: every month from the day of the check-in on.
MasksFromSameDay(from, to) ==
  [m \in from.month .. to.month |->
     BitmapDays(from.day,
                IF m = to.month THEN to.day ELSE MonthsDays(m, from.leapYear))]

\* The masks of a stay within a year, by month.
MasksWithinYear(from, to) ==
  [m \in from.month .. to.month |->
     BitmapDays(IF m = from.month THEN from.day ELSE 1,
                IF m = to.month THEN to.day ELSE MonthsDays(m, from.leapYear))]

\* Those of a stay across a year's end, in the first year and the next.
MasksToYearEnd(from) ==
  [m \in from.month .. 12 |->
     BitmapDays(IF m = from.month THEN from.day ELSE 1, MonthsDays(m, from.leapYear))]
MasksFromYearStart(to) ==
  [m \in 1 .. to.month |->
     BitmapDays(1, IF m = to.month THEN to.day ELSE MonthsDays(m, to.leapYear))]

-----------------------------------------------------------------------------
\* The account of a year; its first reservation creates it.
Account(year) ==
  IF year \in DOMAIN occupiedDays THEN occupiedDays[year] ELSE [m \in 1 .. 12 |-> {}]

\* Mutant: only the month of the check-in is looked at.
FirstMonthFree(account, masks) ==
  LET first == Min(DOMAIN masks) IN account[first] \cap masks[first] = {}

Free(account, masks) == \A m \in DOMAIN masks : account[m] \cap masks[m] = {}
Taken(account, masks) == \A m \in DOMAIN masks : masks[m] \subseteq account[m]

MaskOf(masks, m) == IF m \in DOMAIN masks THEN masks[m] ELSE {}
Take(account, masks) == [m \in 1 .. 12 |-> account[m] \cup MaskOf(masks, m)]
Give(account, masks) == [m \in 1 .. 12 |-> account[m] \ MaskOf(masks, m)]

\* The accounts with those of "changed" written back.
Saved(changed) ==
  [year \in DOMAIN occupiedDays \cup DOMAIN changed |->
     IF year \in DOMAIN changed THEN changed[year] ELSE occupiedDays[year]]

CanReserveSingleYear(s) ==
  /\ To(s).year = From(s).year
  /\ Free(Account(From(s).year), MasksWithinYear(From(s), To(s)))

CanReserveCrossYears(s) ==
  /\ From(s).year + 1 = To(s).year
  /\ Free(Account(From(s).year), MasksToYearEnd(From(s)))
  /\ Free(Account(To(s).year), MasksFromYearStart(To(s)))

CanReleaseSingleYear(s) ==
  /\ From(s).year \in DOMAIN occupiedDays
  /\ To(s).year = From(s).year
  /\ Taken(Account(From(s).year), MasksWithinYear(From(s), To(s)))

CanReleaseCrossYears(s) ==
  /\ {From(s).year, From(s).year + 1} \subseteq DOMAIN occupiedDays
  /\ From(s).year + 1 = To(s).year
  /\ Taken(Account(From(s).year), MasksToYearEnd(From(s)))
  /\ Taken(Account(To(s).year), MasksFromYearStart(To(s)))

-----------------------------------------------------------------------------
ReserveDaysSingleYear(s) ==
  /\ CanReserveSingleYear(s)
  /\ occupiedDays' =
       Saved([y \in {From(s).year} |-> Take(Account(y), MasksWithinYear(From(s), To(s)))])
  /\ stays' = stays \cup {s}

ReserveDaysCrossYears(s) ==
  /\ CanReserveCrossYears(s)
  /\ occupiedDays' =
       Saved([y \in {From(s).year, To(s).year} |->
                Take(Account(y), IF y = From(s).year THEN MasksToYearEnd(From(s))
                                                     ELSE MasksFromYearStart(To(s)))])
  /\ stays' = stays \cup {s}

ReleaseDaysSingleYear(s) ==
  /\ CanReleaseSingleYear(s)
  /\ occupiedDays' =
       Saved([y \in {From(s).year} |-> Give(Account(y), MasksWithinYear(From(s), To(s)))])
  /\ stays' = stays \ {s}

ReleaseDaysCrossYears(s) ==
  /\ CanReleaseCrossYears(s)
  /\ occupiedDays' =
       Saved([y \in {From(s).year, To(s).year} |->
                Give(Account(y), IF y = From(s).year THEN MasksToYearEnd(From(s))
                                                     ELSE MasksFromYearStart(To(s)))])
  /\ stays' = stays \ {s}

Init ==
  /\ occupiedDays = [year \in {} |-> {}]
  /\ stays = {}

\* A booking's days are given back by its own check-in and check-out.
Next ==
  \/ \E s \in Stays : ReserveDaysSingleYear(s) \/ ReserveDaysCrossYears(s)
  \/ \E s \in stays : ReleaseDaysSingleYear(s) \/ ReleaseDaysCrossYears(s)

Spec == Init /\ [][Next]_vars

-----------------------------------------------------------------------------
(***************************************************************************)
(* The civil calendar, counted: day 0 is January 1st, 1970.                *)
(***************************************************************************)
LeapYear(y) == (y % 4 = 0 /\ y % 100 # 0) \/ y % 400 = 0

MonthLength(y, m) ==
  CASE m = 2 -> IF LeapYear(y) THEN 29 ELSE 28
    [] m \in {4, 6, 9, 11} -> 30
    [] OTHER -> 31

Civil(date) == date.month \in 1 .. 12 /\ date.day \in 1 .. MonthLength(date.year, date.month)

DayNumber(date) ==
  LET y == date.year
  IN 365 * (y - 1970) + Cardinality({z \in 1970 .. y - 1 : LeapYear(z)})
       + SumFunctionOnSet([m \in 1 .. 12 |-> MonthLength(y, m)], 1 .. date.month - 1)
       + date.day - 1

CivilDate(y, m, d) == [year |-> y, month |-> m, day |-> d]

\* The years up to those of the moments, their first days, and the year a
\* day belongs to.
Years == 1970 .. Max({Dates[t].year : t \in Moments}) + 1
NewYear == [y \in Years \cup {Max(Years) + 1} |-> DayNumber(CivilDate(y, 1, 1))]
CivilYears ==
  [n \in {t \div DAY : t \in Moments} |->
     CHOOSE y \in Years : NewYear[y] <= n /\ n < NewYear[y + 1]]
CivilYear(n) == CivilYears[n]

\* The days that the accounts take, but for those the calendar does not have.
DaysOfMonth ==
  [y \in Years |->
     [m \in 1 .. 12 |-> [d \in 1 .. MonthLength(y, m) |-> DayNumber(CivilDate(y, m, d))]]]
DaysTaken ==
  UNION {{DaysOfMonth[y][m][d] : d \in occupiedDays[y][m] \cap DOMAIN DaysOfMonth[y][m]} :
           y \in DOMAIN occupiedDays, m \in 1 .. 12}

-----------------------------------------------------------------------------
(***************************************************************************)
(* Properties.                                                             *)
(***************************************************************************)
\* Every day from 1970 to the end of the last year that there is an account
\* of is converted, up to its last moment, into the civil date with its
\* number: in leap years by four, by a hundred and by four hundred.
Misconverted ==
  [y \in Years |->
     {n \in NewYear[y] .. NewYear[y + 1] - 1 :
        LET date == DeriveDate(n * DAY + DAY - 1)
        IN ~ Civil(date) \/ date.year # y \/ DayNumber(date) # n}]
DatesCivil ==
  \A last \in DOMAIN occupiedDays : \A y \in 1970 .. last : Misconverted[y] = {}

DaysOf(s) == s.in \div DAY .. s.out \div DAY

\* The masks hold the days of the stays, all of them and no others; no day
\* is held twice; nothing is taken that is not a day of its month, but for
\* a February 29th which a stay through the end of February takes in every
\* fourth year.
MasksHoldStays ==
  /\ DaysTaken = UNION {DaysOf(s) : s \in stays}
  /\ \A s, o \in stays : s # o => DaysOf(s) \cap DaysOf(o) = {}
  /\ \A y \in DOMAIN occupiedDays, m \in 1 .. 12 :
       occupiedDays[y][m] \subseteq 1 .. MonthsDays(m, y % 4 = 0)

\* A stay within a calendar year, or across one year's end, is refused only
\* when one of its days is held or the wrong one of the two instructions is
\* used; and what is held can be given back, by the right one.
WithinOneYear(s) == CivilYear(s.in \div DAY) = CivilYear(s.out \div DAY)
AcrossOneEnd(s) == CivilYear(s.in \div DAY) + 1 = CivilYear(s.out \div DAY)
DecidedByDays ==
  LET taken == DaysTaken
      free(s) == DaysOf(s) \cap taken = {}
  IN /\ \A s \in Stays :
          /\ CanReserveSingleYear(s) <=> WithinOneYear(s) /\ free(s)
          /\ CanReserveCrossYears(s) <=> AcrossOneEnd(s) /\ free(s)
     /\ \A s \in stays :
          /\ CanReleaseSingleYear(s) <=> WithinOneYear(s)
          /\ CanReleaseCrossYears(s) <=> AcrossOneEnd(s)

\* What Availability says of the listing's days is what the masks do: each
\* step takes or gives back the days of one stay, under its conditions.
Listing == "listing"
Book ==
  INSTANCE Availability
    WITH Properties <- {Listing}, CalendarYear <- CivilYear,
         occupied <- [p \in {Listing} |-> DaysTaken]
KeepsBook ==
  /\ Book!AvailabilityInit
  /\ [][\E s \in (stays \ stays') \cup (stays' \ stays) :
          \/ Book!ReserveDaysSingleYear(Listing, s.in, s.out)
          \/ Book!ReserveDaysCrossYears(Listing, s.in, s.out)
          \/ Book!ReleaseDaysSingleYear(Listing, s.in, s.out)
          \/ Book!ReleaseDaysCrossYears(Listing, s.in, s.out)]_DaysTaken
=============================================================================
