--------------------------- MODULE CalendarProofs ---------------------------
(***************************************************************************)
(* The calendar of a listing, for any number of moments and any length of  *)
(* the day: the accounts' masks hold exactly the days of the stays, the    *)
(* helpers refuse and release by them alone, dates are civil, and the      *)
(* masks implement the set of days of Availability.                        *)
(*                                                                         *)
(* First the civil calendar in closed form: leap years counted, the days   *)
(* before a month and the number of a date, which grows with it.  Then     *)
(* derive_date: its quotients split a day of an era into centuries, spans  *)
(* of four years, years and days, and what is left is a date with the      *)
(* number it was derived from.  So a mask's days are those with a number   *)
(* between check-in and check-out, a February 29th apart that there is     *)
(* not.  With that the invariant Kept is inductive: of every month, each   *)
(* account holds what the stays hold of it, and no two stays share a day.  *)
(***************************************************************************)
EXTENDS Calendar, FiniteSums

(* Induction over the naturals, for the members of G. *)
LEMMA NatInductionIn ==
  ASSUME NEW G, 0 \in G, \A n \in Nat : n \in G => n + 1 \in G
  PROVE  \A n \in Nat : n \in G
<1> DEFINE Bad == {n \in Nat : n \notin G}
<1> SUFFICES ASSUME Bad # {}
             PROVE  FALSE
  OBVIOUS
<1>1. PICK n \in Bad : \A k \in Bad : ~ (<<k, n>> \in OpToRel(<, Nat))
  BY NatLessThanWellFounded, WFMin
<1>2. n # 0 /\ n - 1 \in Nat
  OBVIOUS
<1>3. <<n - 1, n>> \in OpToRel(<, Nat)
  BY <1>2 DEF OpToRel
<1>4. n - 1 \in G
  BY <1>1, <1>2, <1>3
<1>5. n \in G
  BY <1>2, <1>4
<1> QED
  BY <1>5

-----------------------------------------------------------------------------
(* Leap years up to a year, and the number of its March 1st. *)
Leaps(y) == y \div 4 - y \div 100 + y \div 400
LeapDay(y) == IF LeapYear(y) THEN 1 ELSE 0

(* Among four years one is counted, but for the hundreds not by 400. *)
LEMMA LeapsStep ==
  \A y \in Nat : Leaps(y + 1) = Leaps(y) + LeapDay(y + 1) /\ Leaps(y) \in Int
<1> SUFFICES ASSUME NEW y \in Nat
             PROVE  Leaps(y + 1) = Leaps(y) + LeapDay(y + 1) /\ Leaps(y) \in Int
  OBVIOUS
<1>1. (y + 1) \div 4 = y \div 4 + (IF (y + 1) % 4 = 0 THEN 1 ELSE 0)
  OBVIOUS
<1>2. (y + 1) \div 100 = y \div 100 + (IF (y + 1) % 100 = 0 THEN 1 ELSE 0)
  OBVIOUS
<1>3. (y + 1) \div 400 = y \div 400 + (IF (y + 1) % 400 = 0 THEN 1 ELSE 0)
  OBVIOUS
<1>4. y \div 4 \in Int /\ y \div 100 \in Int /\ y \div 400 \in Int
  OBVIOUS
<1>5. (y + 1) % 400 = 0 => (y + 1) % 100 = 0
  OBVIOUS
<1>6. (y + 1) % 100 = 0 => (y + 1) % 4 = 0
  OBVIOUS
<1> QED
  BY <1>1, <1>2, <1>3, <1>4, <1>5, <1>6 DEF Leaps, LeapDay, LeapYear

(* The leap years since 1970, which DayNumber counts. *)
LEMMA LeapsCounted ==
  \A y \in Nat : y >= 1969 => Cardinality({z \in 1970 .. y : LeapYear(z)}) = Leaps(y) - 477
<1> DEFINE L(y) == {z \in 1970 .. y : LeapYear(z)}
           G == {k \in Nat : /\ IsFiniteSet(L(1969 + k))
                             /\ Cardinality(L(1969 + k)) = Leaps(1969 + k) - 477}
<1>1. 0 \in G
  <2>1. L(1969 + 0) = {}
    OBVIOUS
  <2>2. Leaps(1969 + 0) = 477
    BY DEF Leaps
  <2> QED
    BY <2>1, <2>2, FS_EmptySet
<1>2. ASSUME NEW k \in Nat, k \in G
      PROVE  k + 1 \in G
  <2> DEFINE y == 1969 + k
  <2>1. y \in Nat /\ y + 1 = 1969 + (k + 1) /\ y + 1 >= 1970
    OBVIOUS
  <2>2. Leaps(y + 1) = Leaps(y) + LeapDay(y + 1) /\ Leaps(y) \in Int
    BY <2>1, LeapsStep
  <2>3. y + 1 \notin L(y)
    BY <2>1
  <2>4. CASE LeapYear(y + 1)
    <3>1. L(y + 1) = L(y) \cup {y + 1}
      BY <2>1, <2>4
    <3>2. IsFiniteSet(L(y + 1)) /\ Cardinality(L(y + 1)) = Cardinality(L(y)) + 1
      BY <1>2, <2>3, <3>1, FS_AddElement
    <3> QED
      BY <1>2, <2>1, <2>2, <2>4, <3>2 DEF LeapDay
  <2>5. CASE ~ LeapYear(y + 1)
    <3>1. L(y + 1) = L(y)
      BY <2>1, <2>5
    <3> QED
      BY <1>2, <2>1, <2>2, <2>5, <3>1 DEF LeapDay
  <2> QED
    BY <2>4, <2>5
<1>3. \A k \in Nat : k \in G
  <2> HIDE DEF G
  <2> QED
    BY <1>1, <1>2, NatInductionIn
<1> TAKE y \in Nat
<1> HAVE y >= 1969
<1>4. y - 1969 \in Nat /\ 1969 + (y - 1969) = y
  OBVIOUS
<1> QED
  BY <1>3, <1>4

-----------------------------------------------------------------------------
(* The days of a year before a month of it. *)
DaysBefore(y, m) == SumFunctionOnSet([k \in 1 .. 12 |-> MonthLength(y, k)], 1 .. m - 1)

LEMMA MonthLengths ==
  \A y : /\ MonthLength(y, 1) = 31 /\ MonthLength(y, 2) = 28 + LeapDay(y)
         /\ MonthLength(y, 3) = 31 /\ MonthLength(y, 4) = 30
         /\ MonthLength(y, 5) = 31 /\ MonthLength(y, 6) = 30
         /\ MonthLength(y, 7) = 31 /\ MonthLength(y, 8) = 31
         /\ MonthLength(y, 9) = 30 /\ MonthLength(y, 10) = 31
         /\ MonthLength(y, 11) = 30 /\ MonthLength(y, 12) = 31
BY DEF MonthLength, LeapDay

LEMMA DaysBeforeStep ==
  ASSUME NEW y, NEW m \in 1 .. 12
  PROVE  DaysBefore(y, m + 1) = MonthLength(y, m) + DaysBefore(y, m)
<1> DEFINE f == [k \in 1 .. 12 |-> MonthLength(y, k)]
<1>1. IsFiniteSet(1 .. m) /\ m \in 1 .. m /\ (1 .. m) \ {m} = 1 .. m - 1
  <2>1. m \in Int /\ m \in 1 .. m
    OBVIOUS
  <2>2. (1 .. m) \ {m} = 1 .. m - 1
    BY <2>1
  <2> QED
    BY <2>1, <2>2, FS_Interval
<1>2. \A k \in 1 .. 12 : MonthLength(y, k) \in Int
  BY DEF MonthLength
<1>3. \A k \in 1 .. m : f[k] \in Int
  BY <1>2
<1>4. f[m] = MonthLength(y, m)
  OBVIOUS
<1> HIDE DEF f
<1>5. SumFunctionOnSet(f, 1 .. m) = f[m] + SumFunctionOnSet(f, (1 .. m) \ {m})
  BY <1>1, <1>3, SumTaken
<1>6. (m + 1) - 1 = m
  OBVIOUS
<1> QED
  BY <1>1, <1>4, <1>5, <1>6 DEF DaysBefore, f

(* So many days come before each month, and in a year. *)
LEMMA DaysBeforeMonths ==
  \A y : /\ DaysBefore(y, 1) = 0
         /\ DaysBefore(y, 2) = 31
         /\ DaysBefore(y, 3) = 59 + LeapDay(y)
         /\ DaysBefore(y, 4) = 90 + LeapDay(y)
         /\ DaysBefore(y, 5) = 120 + LeapDay(y)
         /\ DaysBefore(y, 6) = 151 + LeapDay(y)
         /\ DaysBefore(y, 7) = 181 + LeapDay(y)
         /\ DaysBefore(y, 8) = 212 + LeapDay(y)
         /\ DaysBefore(y, 9) = 243 + LeapDay(y)
         /\ DaysBefore(y, 10) = 273 + LeapDay(y)
         /\ DaysBefore(y, 11) = 304 + LeapDay(y)
         /\ DaysBefore(y, 12) = 334 + LeapDay(y)
         /\ DaysBefore(y, 13) = 365 + LeapDay(y)
<1> TAKE y
<1> DEFINE B(m) == DaysBefore(y, m)
           l == LeapDay(y)
<1> HIDE DEF B
<1>0. l \in Int
  BY DEF LeapDay
<1>1. B(1) = 0
  <2>1. 1 .. 1 - 1 = {}
    OBVIOUS
  <2> QED
    BY <2>1, SumEmpty DEF B, DaysBefore
<1>s. \A m \in 1 .. 12 : B(m + 1) = MonthLength(y, m) + B(m)
  BY DaysBeforeStep DEF B
<1> HIDE DEF l
<1>m. /\ MonthLength(y, 1) = 31 /\ MonthLength(y, 2) = 28 + l
      /\ MonthLength(y, 3) = 31 /\ MonthLength(y, 4) = 30
      /\ MonthLength(y, 5) = 31 /\ MonthLength(y, 6) = 30
      /\ MonthLength(y, 7) = 31 /\ MonthLength(y, 8) = 31
      /\ MonthLength(y, 9) = 30 /\ MonthLength(y, 10) = 31
      /\ MonthLength(y, 11) = 30 /\ MonthLength(y, 12) = 31
  BY MonthLengths DEF l
<1>2. B(1 + 1) = 31
  BY <1>s, <1>m, <1>1
<1>3. B(2 + 1) = 59 + l
  BY <1>0, <1>s, <1>m, <1>2
<1>4. B(3 + 1) = 90 + l
  BY <1>0, <1>s, <1>m, <1>3
<1>5. B(4 + 1) = 120 + l
  BY <1>0, <1>s, <1>m, <1>4
<1>6. B(5 + 1) = 151 + l
  BY <1>0, <1>s, <1>m, <1>5
<1>7. B(6 + 1) = 181 + l
  BY <1>0, <1>s, <1>m, <1>6
<1>8. B(7 + 1) = 212 + l
  BY <1>0, <1>s, <1>m, <1>7
<1>9. B(8 + 1) = 243 + l
  BY <1>0, <1>s, <1>m, <1>8
<1>10. B(9 + 1) = 273 + l
  BY <1>0, <1>s, <1>m, <1>9
<1>11. B(10 + 1) = 304 + l
  BY <1>0, <1>s, <1>m, <1>10
<1>12. B(11 + 1) = 334 + l
  BY <1>0, <1>s, <1>m, <1>11
<1>13. B(12 + 1) = 365 + l
  BY <1>0, <1>s, <1>m, <1>12
<1> QED
  BY <1>1, <1>2, <1>3, <1>4, <1>5, <1>6, <1>7, <1>8, <1>9, <1>10, <1>11, <1>12, <1>13 DEF B, l

-----------------------------------------------------------------------------
(* The number of a date, without counting: by its year from March on. *)
NewYearDay(y) == 365 * y + Leaps(y - 1) - 719527
MarchFirst(y) == 365 * y + Leaps(y) - 719468

(* What DayNumber counts. *)
LEMMA DayNumbers ==
  ASSUME NEW y \in Nat, y >= 1970, NEW m, NEW d
  PROVE  DayNumber(CivilDate(y, m, d)) = NewYearDay(y) + DaysBefore(y, m) + d - 1
<1>1. y - 1 \in Nat /\ y - 1 >= 1969
  OBVIOUS
<1>2. Cardinality({z \in 1970 .. y - 1 : LeapYear(z)}) = Leaps(y - 1) - 477
  BY <1>1, LeapsCounted
<1>3. Leaps(y - 1) \in Int
  BY <1>1, LeapsStep
<1>4. 365 * (y - 1970) + (Leaps(y - 1) - 477) = NewYearDay(y)
  BY <1>3 DEF NewYearDay
<1> QED
  BY <1>2, <1>4 DEF DayNumber, CivilDate, DaysBefore

LEMMA NewYearDays ==
  \A y \in Nat : y >= 1 => /\ NewYearDay(y) \in Int
                           /\ NewYearDay(y + 1) = NewYearDay(y) + 365 + LeapDay(y)
                           /\ MarchFirst(y) = NewYearDay(y) + 59 + LeapDay(y)
                           /\ MarchFirst(y) = NewYearDay(y + 1) - 306
<1> TAKE y \in Nat
<1> HAVE y >= 1
<1>1. y - 1 \in Nat /\ (y - 1) + 1 = y /\ (y + 1) - 1 = y
  OBVIOUS
<1>2. Leaps(y) = Leaps(y - 1) + LeapDay(y) /\ Leaps(y - 1) \in Int
  BY <1>1, LeapsStep
<1>3. LeapDay(y) \in Int
  BY DEF LeapDay
<1>4. NewYearDay(y) = 365 * y + Leaps(y - 1) - 719527
  BY DEF NewYearDay
<1>5. NewYearDay(y + 1) = 365 * (y + 1) + Leaps(y) - 719527
  BY <1>1 DEF NewYearDay
<1>6. MarchFirst(y) = 365 * y + Leaps(y) - 719468
  BY DEF MarchFirst
<1> QED
  BY <1>2, <1>3, <1>4, <1>5, <1>6

(* A later year begins after the end of an earlier one. *)
LEMMA NewYearsInOrder ==
  \A y, z \in Nat : 1 <= y /\ y < z => NewYearDay(y) + 365 + LeapDay(y) <= NewYearDay(z)
<1> TAKE y, z \in Nat
<1> HAVE 1 <= y /\ y < z
<1>1. NewYearDay(y + 1) = NewYearDay(y) + 365 + LeapDay(y) /\ NewYearDay(y) \in Int
  BY NewYearDays
<1>2. PICK k \in Nat : z = (y + 1) + k
  BY z = (y + 1) + (z - (y + 1)), z - (y + 1) \in Nat
<1>3. NewYearDay(y + 1) <= NewYearDay((y + 1) + k)
  <2> DEFINE a == (y + 1) - 1
             b == ((y + 1) + k) - 1
  <2>1. a \in Nat /\ b = a + k
    OBVIOUS
  <2>2. a \div 4 <= b \div 4 /\ a \div 400 <= b \div 400 /\ b \div 100 <= a \div 100 + k
    BY <2>1
  <2>3. Leaps(b) >= Leaps(a) - k /\ Leaps(a) \in Int /\ Leaps(b) \in Int
    BY <2>1, <2>2 DEF Leaps
  <2>4. 365 * ((y + 1) + k) = 365 * (y + 1) + 365 * k
    OBVIOUS
  <2> QED
    BY <2>1, <2>3, <2>4 DEF NewYearDay
<1> QED
  BY <1>1, <1>2, <1>3

(* Within a year, months follow each other. *)
LEMMA MonthsInOrder ==
  ASSUME NEW y, NEW m \in 1 .. 12, NEW k \in 1 .. 12
  PROVE  /\ DaysBefore(y, m) \in Nat /\ MonthLength(y, m) \in Nat /\ LeapDay(y) \in Nat
         /\ DaysBefore(y, m) + MonthLength(y, m) <= 365 + LeapDay(y)
         /\ m < k => DaysBefore(y, m) + MonthLength(y, m) <= DaysBefore(y, k)
<1>1. LeapDay(y) \in Nat
  BY DEF LeapDay
<1>2. m \in {1, 2, 3, 4, 5, 6, 7, 8, 9, 10, 11, 12} /\ k \in {1, 2, 3, 4, 5, 6, 7, 8, 9, 10, 11, 12}
  OBVIOUS
<1>3. DaysBefore(y, m) \in Nat /\ MonthLength(y, m) \in Nat
  BY <1>1, <1>2, DaysBeforeMonths, MonthLengths
<1>4. DaysBefore(y, m) + MonthLength(y, m) <= 365 + LeapDay(y)
  BY <1>1, <1>2, DaysBeforeMonths, MonthLengths
<1>5. ASSUME m < k
      PROVE  DaysBefore(y, m) + MonthLength(y, m) <= DaysBefore(y, k)
  BY <1>1, <1>2, <1>5, DaysBeforeMonths, MonthLengths
<1> QED
  BY <1>1, <1>3, <1>4, <1>5

-----------------------------------------------------------------------------
(* The days there are, from 1970 on, and their order. *)
Since1970(date) == date.year \in Nat /\ date.year >= 1970 /\ Civil(date)

NotAfter(a, b) ==
  \/ a.year < b.year
  \/ a.year = b.year /\ a.month < b.month
  \/ a.year = b.year /\ a.month = b.month /\ a.day <= b.day

LEMMA DatesSince1970 ==
  ASSUME NEW a, Since1970(a)
  PROVE  /\ a.month \in 1 .. 12 /\ a.day \in Nat /\ 1 <= a.day
         /\ a.day <= MonthLength(a.year, a.month)
         /\ NewYearDay(a.year) \in Int
         /\ DaysBefore(a.year, a.month) \in Nat /\ LeapDay(a.year) \in Nat
         /\ DaysBefore(a.year, a.month) + a.day <= 365 + LeapDay(a.year)
         /\ DayNumber(a) = NewYearDay(a.year) + DaysBefore(a.year, a.month) + a.day - 1
<1>1. a.month \in 1 .. 12 /\ a.day \in 1 .. MonthLength(a.year, a.month)
  BY DEF Since1970, Civil
<1>2. /\ DaysBefore(a.year, a.month) \in Nat /\ MonthLength(a.year, a.month) \in Nat
      /\ LeapDay(a.year) \in Nat
      /\ DaysBefore(a.year, a.month) + MonthLength(a.year, a.month) <= 365 + LeapDay(a.year)
  BY <1>1, MonthsInOrder
<1>3. a.day \in Nat /\ 1 <= a.day /\ a.day <= MonthLength(a.year, a.month)
  BY <1>1, <1>2
<1>4. NewYearDay(a.year) \in Int
  BY NewYearDays DEF Since1970
<1>5. DayNumber(a) = DayNumber(CivilDate(a.year, a.month, a.day))
  BY DEF DayNumber, CivilDate
<1>6. DayNumber(a) = NewYearDay(a.year) + DaysBefore(a.year, a.month) + a.day - 1
  BY <1>5, DayNumbers DEF Since1970
<1> QED
  BY <1>1, <1>2, <1>3, <1>4, <1>6

(* A later date has a greater number. *)
LEMMA BeforeInOrder ==
  ASSUME NEW a, NEW b, Since1970(a), Since1970(b)
  PROVE  /\ DayNumber(a) \in Int
         /\ NotAfter(a, b) => DayNumber(a) <= DayNumber(b)
         /\ ~ NotAfter(b, a) => DayNumber(a) < DayNumber(b)
<1>a. /\ a.month \in 1 .. 12 /\ a.day \in Nat /\ 1 <= a.day
      /\ a.day <= MonthLength(a.year, a.month)
      /\ NewYearDay(a.year) \in Int
      /\ DaysBefore(a.year, a.month) \in Nat /\ LeapDay(a.year) \in Nat
      /\ DaysBefore(a.year, a.month) + a.day <= 365 + LeapDay(a.year)
      /\ DayNumber(a) = NewYearDay(a.year) + DaysBefore(a.year, a.month) + a.day - 1
  BY DatesSince1970
<1>b. /\ b.month \in 1 .. 12 /\ b.day \in Nat /\ 1 <= b.day
      /\ NewYearDay(b.year) \in Int /\ DaysBefore(b.year, b.month) \in Nat
      /\ DayNumber(b) = NewYearDay(b.year) + DaysBefore(b.year, b.month) + b.day - 1
  BY DatesSince1970
<1>1. a.year \in Nat /\ b.year \in Nat /\ 1 <= a.year
  BY DEF Since1970
<1>2. ASSUME a.year < b.year
      PROVE  DayNumber(a) < DayNumber(b)
  <2>1. NewYearDay(a.year) + 365 + LeapDay(a.year) <= NewYearDay(b.year)
    BY <1>1, <1>2, NewYearsInOrder
  <2> QED
    BY <1>a, <1>b, <2>1
<1>3. ASSUME a.year = b.year, a.month < b.month
      PROVE  DayNumber(a) < DayNumber(b)
  <2>1. /\ MonthLength(a.year, a.month) \in Nat
        /\ DaysBefore(a.year, a.month) + MonthLength(a.year, a.month) <= DaysBefore(a.year, b.month)
    BY <1>a, <1>b, <1>3, MonthsInOrder
  <2> QED
    BY <1>a, <1>b, <1>3, <2>1
<1>4. ASSUME a.year = b.year, a.month = b.month
      PROVE  DayNumber(b) - DayNumber(a) = b.day - a.day
  BY <1>a, <1>b, <1>4
<1>5. DayNumber(a) \in Int /\ DayNumber(b) \in Int
  BY <1>a, <1>b
<1>6. a.month \in Int /\ b.month \in Int
  BY <1>a, <1>b
<1>7. ASSUME NotAfter(a, b)
      PROVE  DayNumber(a) <= DayNumber(b)
  BY <1>a, <1>b, <1>2, <1>3, <1>4, <1>5, <1>7 DEF NotAfter
<1>8. ASSUME ~ NotAfter(b, a)
      PROVE  DayNumber(a) < DayNumber(b)
  <2>1. \/ a.year < b.year
        \/ a.year = b.year /\ a.month < b.month
        \/ a.year = b.year /\ a.month = b.month /\ a.day < b.day
    BY <1>a, <1>b, <1>1, <1>6, <1>8 DEF NotAfter
  <2> QED
    BY <1>a, <1>b, <1>2, <1>3, <1>4, <1>5, <2>1
<1> QED
  BY <1>5, <1>7, <1>8

(* Numbers are in the order of the dates. *)
LEMMA DatesInOrder ==
  \A a, b : Since1970(a) /\ Since1970(b) => (DayNumber(a) <= DayNumber(b) <=> NotAfter(a, b))
<1> TAKE a, b
<1> HAVE Since1970(a) /\ Since1970(b)
<1>1. /\ DayNumber(a) \in Int
      /\ NotAfter(a, b) => DayNumber(a) <= DayNumber(b)
  BY BeforeInOrder
<1>2. /\ DayNumber(b) \in Int
      /\ ~ NotAfter(a, b) => DayNumber(b) < DayNumber(a)
  BY BeforeInOrder
<1> QED
  BY <1>1, <1>2

(* Day 0 is the first day of 1970: no date has a number below it. *)
LEMMA NumbersFromZero ==
  \A a : Since1970(a) => DayNumber(a) \in Nat
<1> TAKE a
<1> HAVE Since1970(a)
<1>1. NewYearDay(1970) = 0
  BY DEF NewYearDay, Leaps
<1>2. NewYearDay(a.year) >= 0
  <2>1. CASE a.year = 1970
    BY <1>1, <2>1
  <2>2. CASE a.year # 1970
    <3>1. 1970 < a.year /\ a.year \in Nat
      BY <2>2 DEF Since1970
    <3>2. NewYearDay(1970) + 365 + LeapDay(1970) <= NewYearDay(a.year) /\ NewYearDay(a.year) \in Int
      BY <3>1, NewYearsInOrder, NewYearDays
    <3> QED
      BY <1>1, <3>2 DEF LeapDay
  <2> QED
    BY <2>1, <2>2
<1> QED
  BY <1>2, DatesSince1970

-----------------------------------------------------------------------------
(* The conversion.  A day of an era of 400 years from March on: centuries, *)
(* four-year spans, years and days that came before it.                    *)
InEra(doe, c, f, g, d) ==
  /\ c <= 3 /\ f <= 24 /\ g <= 3 /\ d <= 365
  /\ doe = 36524 * c + 1461 * f + 365 * g + d
  /\ d = 365 => g = 3 /\ (f # 24 \/ c = 3)

(* Every day of an era is one of these. *)
LEMMA EraYear ==
  ASSUME NEW doe \in Nat, doe <= 146096
  PROVE  \E c, f, g, d \in Nat : InEra(doe, c, f, g, d)
<1>1. CASE doe = 146096
  <2>1. InEra(doe, 3, 24, 3, 365)
    BY <1>1 DEF InEra
  <2> QED BY <2>1
<1>2. CASE doe # 146096
  <2>1. PICK c, r \in Nat : c <= 3 /\ r < 36524 /\ doe = 36524 * c + r
    <3> DEFINE q == doe \div 36524
    <3>1. q \in Nat /\ q <= 3 /\ doe - 36524 * q \in Nat /\ doe - 36524 * q < 36524
      BY <1>2
    <3> HIDE DEF q
    <3>2. doe = 36524 * q + (doe - 36524 * q)
      BY <3>1
    <3> QED BY <3>1, <3>2
  <2>2. PICK f, s \in Nat : f <= 24 /\ s < 1461 /\ r = 1461 * f + s
    <3> DEFINE q == r \div 1461
    <3>1. q \in Nat /\ q <= 24 /\ r - 1461 * q \in Nat /\ r - 1461 * q < 1461
      BY <2>1
    <3> HIDE DEF q
    <3>2. r = 1461 * q + (r - 1461 * q)
      BY <3>1
    <3> QED BY <3>1, <3>2
  <2>3. CASE s = 1460
    <3>1. f # 24
      BY <2>1, <2>2, <2>3
    <3>2. doe = 36524 * c + 1461 * f + 365 * 3 + 365
      BY <2>1, <2>2, <2>3
    <3>3. InEra(doe, c, f, 3, 365)
      BY <2>1, <2>2, <3>1, <3>2 DEF InEra
    <3> QED BY <3>3
  <2>4. CASE s # 1460
    <3>1. PICK g, d \in Nat : g <= 3 /\ d < 365 /\ s = 365 * g + d
      <4> DEFINE q == s \div 365
      <4>1. q \in Nat /\ q <= 3 /\ s - 365 * q \in Nat /\ s - 365 * q < 365
        BY <2>2, <2>4
      <4> HIDE DEF q
      <4>2. s = 365 * q + (s - 365 * q)
        BY <4>1
      <4> QED BY <4>1, <4>2
    <3>2. doe = 36524 * c + 1461 * f + 365 * g + d
      BY <2>1, <2>2, <3>1
    <3>3. d # 365 /\ d <= 365
      BY <3>1
    <3>4. InEra(doe, c, f, g, d)
      BY <2>1, <2>2, <3>1, <3>2, <3>3 DEF InEra
    <3> QED BY <3>4
  <2> QED BY <2>3, <2>4
<1> QED BY <1>1, <1>2

(* derive_date's yoe: its corrections of the division by 365 are right. *)
LEMMA YearOfEra ==
  ASSUME NEW doe \in Nat, NEW c \in Nat, NEW f \in Nat, NEW g \in Nat, NEW d \in Nat,
    InEra(doe, c, f, g, d)
  PROVE  (doe - doe \div 1460 + doe \div 36524 - doe \div 146096) \div 365 = 100 * c + 4 * f + g
<1> USE DEF InEra
<1>1. PICK s \in Nat : s <= 1460 /\ s = 365 * g + d
  OBVIOUS
<1>2. doe = 36524 * c + 1461 * f + s
  BY <1>1
<1>3. PICK e \in {0, 1} : /\ doe \div 1460 = 25 * c + f + e
                          /\ e = 1 => 24 * c + f + s >= 1460
                          /\ e = 0 => 24 * c + f + s < 1460
  <2>1. CASE 24 * c + f + s < 1460
    <3>1. 1460 * (25 * c + f) <= doe /\ doe < 1460 * (25 * c + f) + 1460
      BY <1>2, <2>1
    <3>2. doe \div 1460 = 25 * c + f
      BY <3>1
    <3> QED BY <3>2, <2>1
  <2>2. CASE 24 * c + f + s >= 1460
    <3>1. 1460 * (25 * c + f + 1) <= doe /\ doe < 1460 * (25 * c + f + 1) + 1460
      BY <1>1, <1>2, <2>2
    <3>2. doe \div 1460 = 25 * c + f + 1
      BY <3>1
    <3> QED BY <3>2, <2>2
  <2> QED BY <1>1, <2>1, <2>2
<1>4. doe \div 36524 - doe \div 146096 = c
  <2>1. CASE doe = 146096
    <3>1. c = 3
      BY <2>1
    <3>2. doe \div 36524 = 4 /\ doe \div 146096 = 1
      BY <2>1
    <3> QED BY <3>1, <3>2
  <2>2. CASE doe # 146096
    <3>1. doe < 146096
      BY <2>2
    <3>2. doe \div 146096 = 0
      BY <3>1
    <3>3. 36524 * c <= doe /\ doe < 36524 * c + 36524
      BY <2>2
    <3>4. doe \div 36524 = c
      BY <3>3
    <3> QED BY <3>2, <3>4
  <2> QED BY <2>1, <2>2
<1>5. doe - doe \div 1460 + doe \div 36524 - doe \div 146096 = 365 * (100 * c + 4 * f + g) + d - e
  <2>1. doe \div 1460 \in Int /\ doe \div 36524 \in Int /\ doe \div 146096 \in Int
    OBVIOUS
  <2> QED BY <1>3, <1>4, <1>1, <1>2, <2>1
<1>6. d - e >= 0 /\ d - e < 365
  BY <1>1, <1>3
<1>7. \A w, x \in Int : x - 365 * w >= 0 /\ x - 365 * w < 365 => x \div 365 = w
  OBVIOUS
<1> DEFINE x == doe - doe \div 1460 + doe \div 36524 - doe \div 146096
<1>8. x \in Int /\ x - 365 * (100 * c + 4 * f + g) >= 0 /\ x - 365 * (100 * c + 4 * f + g) < 365
  BY <1>5, <1>6
<1> HIDE DEF x
<1>9. x \div 365 = 100 * c + 4 * f + g
  BY <1>7, <1>8
<1> QED BY <1>9 DEF x

(* derive_date's doy: the day of that year. *)
LEMMA DayOfEra ==
  ASSUME NEW c \in Nat, NEW f \in Nat, NEW g \in Nat, NEW d \in Nat, NEW doe, InEra(doe, c, f, g, d)
  PROVE  LET yoe == 100 * c + 4 * f + g
         IN doe - (365 * yoe + yoe \div 4 - yoe \div 100) = d
<1> DEFINE yoe == 100 * c + 4 * f + g
<1>1. yoe \div 4 = 25 * c + f
  BY DEF InEra
<1>2. yoe \div 100 = c
  BY DEF InEra
<1> QED
  BY <1>1, <1>2 DEF InEra

(* The year that March 1st of it begins, by the days since 1970. *)
LEMMA YearsOfEras ==
  ASSUME NEW era \in Nat, NEW c \in Nat, NEW f \in Nat, NEW g \in Nat, NEW d \in Nat,
         NEW doe, InEra(doe, c, f, g, d)
  PROVE  LET y == 100 * c + 4 * f + g + era * 400
         IN /\ y \in Nat
            /\ MarchFirst(y) + d + 719468 = era * 146097 + doe
            /\ d = 365 => LeapYear(y + 1)
<1> DEFINE y == 100 * c + 4 * f + g + era * 400
<1>1. y \in Nat
  OBVIOUS
<1>2. y \div 4 = 25 * c + f + 100 * era
  BY DEF InEra
<1>3. y \div 100 = c + 4 * era
  BY DEF InEra
<1>4. y \div 400 = era
  BY DEF InEra
<1>5. MarchFirst(y) + d + 719468 = era * 146097 + doe
  BY <1>2, <1>3, <1>4 DEF InEra, MarchFirst, Leaps
<1>6. ASSUME d = 365
      PROVE  LeapYear(y + 1)
  <2>1. y + 1 = 100 * c + 4 * f + 4 + era * 400
    BY <1>6 DEF InEra
  <2>2. (y + 1) % 4 = 0
    BY <2>1
  <2>3. CASE f # 24
    <3>1. f + 1 <= 24 /\ y + 1 = 100 * (c + 4 * era) + 4 * (f + 1)
      BY <2>1, <2>3 DEF InEra
    <3>2. (y + 1) % 100 # 0
      BY <3>1
    <3> QED
      BY <2>2, <3>2 DEF LeapYear
  <2>4. CASE f = 24
    <3>1. c = 3
      BY <1>6, <2>4 DEF InEra
    <3>2. y + 1 = 400 * (era + 1)
      BY <2>1, <2>4, <3>1
    <3>3. (y + 1) % 400 = 0
      BY <3>2
    <3> QED
      BY <3>3 DEF LeapYear
  <2> QED
    BY <2>3, <2>4
<1> QED
  BY <1>1, <1>5, <1>6

(* The months from March on: the days before one, and the day of it. *)
LEMMA MarchMonths ==
  ASSUME NEW d \in Nat, d <= 365
  PROVE  LET mp == (5 * d + 2) \div 153
             off == (153 * mp + 2) \div 5
             day == d - off + 1
         IN /\ mp \in Nat /\ mp <= 11 /\ off \in Nat /\ day \in Nat /\ 1 <= day
            /\ day <= 31
            /\ mp \in {1, 3, 6, 8} => day <= 30
            /\ mp = 11 => day <= 29 /\ (day = 29 => d = 365)
            /\ d >= 306 <=> mp >= 10
<1> DEFINE mp == (5 * d + 2) \div 153
<1>1. mp \in Nat /\ mp <= 11 /\ 153 * mp <= 5 * d + 2 /\ 5 * d + 2 < 153 * mp + 153
  OBVIOUS
<1> HIDE DEF mp
<1>2. mp \in {0, 1, 2, 3, 4, 5, 6, 7, 8, 9, 10, 11}
  BY <1>1
<1> DEFINE off == (153 * mp + 2) \div 5
<1>3. off \in Nat /\ 5 * off <= 153 * mp + 2 /\ 153 * mp + 2 < 5 * off + 5
  BY <1>1
<1> HIDE DEF off
<1>4. d - off + 1 \in Nat /\ 1 <= d - off + 1 /\ d - off + 1 <= 31
  BY <1>1, <1>3
<1>5. mp \in {1, 3, 6, 8} => d - off + 1 <= 30
  BY <1>1, <1>3
<1>6. mp = 11 => d - off + 1 <= 29 /\ (d - off + 1 = 29 => d = 365)
  BY <1>1, <1>3
<1>7. d >= 306 <=> mp >= 10
  BY <1>1
<1> QED
  BY <1>1, <1>3, <1>4, <1>5, <1>6, <1>7 DEF mp, off

(* The month of a day counted from March on, in its year. *)
LEMMA DaysBeforeMarchMonths ==
  ASSUME NEW mp \in Nat, mp <= 11, NEW y
  PROVE  /\ mp < 10 => DaysBefore(y, mp + 3) = 59 + LeapDay(y) + (153 * mp + 2) \div 5
         /\ mp >= 10 => DaysBefore(y, mp - 9) = (153 * mp + 2) \div 5 - 306
<1>1. mp \in {0, 1, 2, 3, 4, 5, 6, 7, 8, 9, 10, 11}
  OBVIOUS
<1>2. LeapDay(y) \in Nat
  BY DEF LeapDay
<1> QED
  BY <1>1, <1>2, DaysBeforeMonths

(* Every moment is converted into the date that its day has. *)
LEMMA DatesConverted ==
  \A t \in Nat : LET date == DeriveDate(t)
                 IN /\ Since1970(date) /\ DayNumber(date) = t \div DAY
                    /\ date.leapYear = (date.year % 4 = 0)
<1> TAKE t \in Nat
<1> DEFINE n == t \div DAY
           z == n + 719468
           era == z \div 146097
           doe == z - era * 146097
           yoe == (doe - doe \div 1460 + doe \div 36524 - doe \div 146096) \div 365
           doy == doe - (365 * yoe + yoe \div 4 - yoe \div 100)
           mp == (5 * doy + 2) \div 153
           off == (153 * mp + 2) \div 5
           day == doy - off + 1
           month == IF mp < 10 THEN mp + 3 ELSE mp - 9
           y0 == yoe + era * 400
           year == JanuaryYear(y0, month)
<1>1. n \in Nat
  <2>1. t \in Nat /\ DAY \in Nat \ {0}
    BY CalendarAssumption
  <2> QED
    BY <2>1
<1>2. DeriveDate(t) = [year |-> year, month |-> month, day |-> day, leapYear |-> year % 4 = 0]
  BY DEF DeriveDate
<1>3. era \in Nat /\ doe \in Nat /\ doe <= 146096 /\ era * 146097 + doe = n + 719468
  <2>1. z \in Nat
    BY <1>1
  <2> HIDE DEF z
  <2>2. era \in Nat /\ doe \in Nat /\ doe <= 146096 /\ era * 146097 + doe = z
    BY <2>1
  <2> QED
    BY <2>2 DEF z
<1> HIDE DEF n
<1>4. PICK c, f, g, d \in Nat : InEra(doe, c, f, g, d)
  BY <1>3, EraYear
<1> HIDE DEF era, doe
<1>5. yoe = 100 * c + 4 * f + g
  BY <1>3, <1>4, YearOfEra
<1>6. doy = d
  BY <1>4, <1>5, DayOfEra
<1> HIDE DEF yoe, doy
<1>7. /\ y0 \in Nat
      /\ MarchFirst(y0) + d = n
      /\ d = 365 => LeapYear(y0 + 1)
  <2>1. y0 = 100 * c + 4 * f + g + era * 400
    BY <1>5
  <2>2. LET y == 100 * c + 4 * f + g + era * 400
        IN /\ y \in Nat
           /\ MarchFirst(y) + d + 719468 = era * 146097 + doe
           /\ d = 365 => LeapYear(y + 1)
    BY <1>3, <1>4, YearsOfEras
  <2>3. y0 \in Nat /\ MarchFirst(y0) + d + 719468 = n + 719468 /\ (d = 365 => LeapYear(y0 + 1))
    BY <1>3, <2>1, <2>2
  <2>4. MarchFirst(y0) \in Int
    BY <2>3, LeapsStep DEF MarchFirst
  <2> QED
    BY <1>1, <2>3, <2>4
<1> HIDE DEF y0
<1>8. d <= 365
  BY <1>4 DEF InEra
<1>9. /\ mp \in Nat /\ mp <= 11 /\ off \in Nat /\ day \in Nat /\ 1 <= day
      /\ day <= 31
      /\ mp \in {1, 3, 6, 8} => day <= 30
      /\ mp = 11 => day <= 29 /\ (day = 29 => d = 365)
      /\ d >= 306 <=> mp >= 10
      /\ day = d - off + 1
  BY <1>6, <1>8, MarchMonths
<1>10. y0 >= 1969 /\ (y0 = 1969 => mp >= 10)
  <2>1. MarchFirst(y0) = 365 * y0 + Leaps(y0) - 719468 /\ Leaps(y0) \in Int
    BY <1>7, LeapsStep DEF MarchFirst
  <2>2. Leaps(y0) <= y0
    BY <1>7 DEF Leaps
  <2>3. Leaps(1969) = 477 /\ (y0 <= 1968 => Leaps(y0) <= 497)
    BY <1>7 DEF Leaps
  <2>4. y0 >= 1969
    BY <1>1, <1>7, <1>8, <2>1, <2>3
  <2>5. y0 = 1969 => d >= 306
    BY <1>1, <1>7, <2>1, <2>3
  <2> QED
    BY <1>9, <2>4, <2>5
<1>11. /\ mp < 10 => DaysBefore(y0, mp + 3) = 59 + LeapDay(y0) + off
       /\ mp >= 10 => DaysBefore(y0 + 1, mp - 9) = off - 306
  BY <1>9, DaysBeforeMarchMonths
<1>m. month \in 1 .. 12 /\ (mp < 10 <=> month > 2)
  BY <1>9
<1>12. /\ NewYearDay(y0) \in Int /\ MarchFirst(y0) = NewYearDay(y0) + 59 + LeapDay(y0)
       /\ NewYearDay(y0 + 1) \in Int /\ MarchFirst(y0) = NewYearDay(y0 + 1) - 306
  <2>1. y0 >= 1 /\ y0 + 1 \in Nat /\ y0 + 1 >= 1
    BY <1>7, <1>10
  <2> QED
    BY <1>7, <2>1, NewYearDays
<1>13. LeapDay(y0) \in Nat /\ LeapDay(y0 + 1) \in Nat
  BY DEF LeapDay
<1>14. CASE mp < 10
  <2>1. month = mp + 3 /\ year = y0
    BY <1>9, <1>14 DEF JanuaryYear
  <2>2. day <= MonthLength(y0, mp + 3)
    <3>1. mp \in {0, 1, 2, 3, 4, 5, 6, 7, 8, 9}
      BY <1>9, <1>14
    <3> HIDE DEF mp, day
    <3> QED
      BY <1>9, <3>1, MonthLengths
  <2>3. Since1970([year |-> year, month |-> month, day |-> day, leapYear |-> year % 4 = 0])
    <3>1. mp + 3 \in 1 .. 12 /\ y0 >= 1970
      BY <1>7, <1>9, <1>10, <1>14
    <3>2. MonthLength(y0, mp + 3) \in Nat
      BY <3>1, MonthsInOrder
    <3> HIDE DEF mp, day, year, month
    <3>3. mp + 3 \in 1 .. 12 /\ day \in 1 .. MonthLength(y0, mp + 3)
      BY <1>9, <2>2, <3>1, <3>2
    <3> QED
      BY <1>7, <2>1, <3>1, <3>3 DEF Since1970, Civil
  <2>4. DayNumber([year |-> year, month |-> month, day |-> day, leapYear |-> year % 4 = 0])
          = NewYearDay(y0) + DaysBefore(y0, mp + 3) + day - 1
    <3> HIDE DEF mp, day, year, month
    <3> QED
      BY <2>1, <2>3, DatesSince1970
  <2>5. NewYearDay(y0) + DaysBefore(y0, mp + 3) + day - 1 = n
    <3> HIDE DEF mp, day, year, month, off
    <3> QED
      BY <1>7, <1>9, <1>11, <1>12, <1>13, <1>14
  <2> HIDE DEF mp, day, year, month
  <2> QED
    BY <1>2, <2>3, <2>4, <2>5 DEF n
<1>15. CASE mp >= 10
  <2>1. month = mp - 9 /\ year = y0 + 1
    BY <1>9, <1>15 DEF JanuaryYear
  <2>2. day <= MonthLength(y0 + 1, mp - 9)
    <3>1. mp \in {10, 11}
      BY <1>9, <1>15
    <3> HIDE DEF mp, day
    <3>2. MonthLength(y0 + 1, 1) = 31 /\ MonthLength(y0 + 1, 2) = 28 + LeapDay(y0 + 1)
      BY MonthLengths
    <3>3. d = 365 => LeapDay(y0 + 1) = 1
      BY <1>7 DEF LeapDay
    <3>4. CASE mp = 10
      BY <1>9, <3>2, <3>4
    <3>5. CASE mp = 11
      BY <1>9, <1>13, <3>2, <3>3, <3>5
    <3> QED
      BY <3>1, <3>4, <3>5
  <2>3. Since1970([year |-> year, month |-> month, day |-> day, leapYear |-> year % 4 = 0])
    <3>1. mp - 9 \in 1 .. 12 /\ y0 + 1 >= 1970 /\ y0 + 1 \in Nat
      BY <1>7, <1>9, <1>10, <1>15
    <3>2. MonthLength(y0 + 1, mp - 9) \in Nat
      BY <3>1, MonthsInOrder
    <3> HIDE DEF mp, day, year, month
    <3>3. mp - 9 \in 1 .. 12 /\ day \in 1 .. MonthLength(y0 + 1, mp - 9)
      BY <1>9, <2>2, <3>1, <3>2
    <3> QED
      BY <2>1, <3>1, <3>3 DEF Since1970, Civil
  <2>4. DayNumber([year |-> year, month |-> month, day |-> day, leapYear |-> year % 4 = 0])
          = NewYearDay(y0 + 1) + DaysBefore(y0 + 1, mp - 9) + day - 1
    <3> HIDE DEF mp, day, year, month
    <3> QED
      BY <2>1, <2>3, DatesSince1970
  <2>5. NewYearDay(y0 + 1) + DaysBefore(y0 + 1, mp - 9) + day - 1 = n
    <3> HIDE DEF mp, day, year, month, off
    <3> QED
      BY <1>7, <1>9, <1>11, <1>12, <1>15
  <2> HIDE DEF mp, day, year, month
  <2> QED
    BY <1>2, <2>3, <2>4, <2>5 DEF n
<1> QED
  BY <1>9, <1>14, <1>15

-----------------------------------------------------------------------------
(* The dates of a stay, and its days in a month. *)
LEMMA StayDates ==
  \A s \in Stays :
    /\ Since1970(From(s)) /\ DayNumber(From(s)) = s.in \div DAY
    /\ Since1970(To(s)) /\ DayNumber(To(s)) = s.out \div DAY
    /\ From(s).leapYear = (From(s).year % 4 = 0)
    /\ To(s).leapYear = (To(s).year % 4 = 0)
    /\ NotAfter(From(s), To(s))
    /\ From(s).year \in {Dates[t].year : t \in Moments}
    /\ To(s).year \in {Dates[t].year : t \in Moments}
<1> TAKE s \in Stays
<1>1. s.in \in Moments /\ s.out \in Moments /\ s.in < s.out
  BY DEF Stays
<1>2. s.in \in Nat /\ s.out \in Nat
  BY <1>1, CalendarAssumption
<1>3. From(s) = DeriveDate(s.in) /\ To(s) = DeriveDate(s.out)
  BY <1>1 DEF From, To, Dates
<1>4. /\ Since1970(From(s)) /\ DayNumber(From(s)) = s.in \div DAY
      /\ Since1970(To(s)) /\ DayNumber(To(s)) = s.out \div DAY
      /\ From(s).leapYear = (From(s).year % 4 = 0)
      /\ To(s).leapYear = (To(s).year % 4 = 0)
  BY <1>2, <1>3, DatesConverted
<1>5. s.in \div DAY <= s.out \div DAY
  <2>1. \A a, b, k \in Nat : k # 0 /\ a < b => a \div k <= b \div k
    OBVIOUS
  <2> QED
    BY <1>1, <1>2, <2>1, CalendarAssumption
<1>6. NotAfter(From(s), To(s))
  BY <1>4, <1>5, DatesInOrder
<1> QED
  BY <1>1, <1>4, <1>6 DEF From, To

MaskDays(y, m) == MonthsDays(m, y % 4 = 0)

(* A mask's month is never too short; in 2100 its February has a day too many. *)
LEMMA MonthsDaysLonger ==
  \A y \in Nat, m \in 1 .. 12 :
    /\ MonthLength(y, m) \in Nat /\ MaskDays(y, m) \in Nat
    /\ 28 <= MonthLength(y, m)
    /\ \/ MaskDays(y, m) = MonthLength(y, m)
       \/ m = 2 /\ MaskDays(y, m) = 29 /\ MonthLength(y, m) = 28
<1> TAKE y \in Nat, m \in 1 .. 12
<1> USE DEF MaskDays
<1>1. m \in {1, 3, 5, 7, 8, 10, 12} \/ m \in {4, 6, 9, 11} \/ m = 2
  OBVIOUS
<1>2. CASE m \in {1, 3, 5, 7, 8, 10, 12}
  BY <1>2 DEF MonthLength, MonthsDays
<1>3. CASE m \in {4, 6, 9, 11}
  BY <1>3 DEF MonthLength, MonthsDays
<1>4. CASE m = 2
  <2>1. y % 400 = 0 => y % 4 = 0
    OBVIOUS
  <2>2. LeapYear(y) => y % 4 = 0
    BY <2>1 DEF LeapYear
  <2>3. MonthLength(y, m) = IF LeapYear(y) THEN 29 ELSE 28
    BY <1>4 DEF MonthLength
  <2>4. MonthsDays(m, y % 4 = 0) = IF y % 4 = 0 THEN 29 ELSE 28
    BY <1>4 DEF MonthsDays
  <2> QED
    BY <1>4, <2>2, <2>3, <2>4
<1> QED
  BY <1>1, <1>2, <1>3, <1>4

Held(s, y, m) ==
  {d \in 1 .. MaskDays(y, m) :
     NotAfter(From(s), CivilDate(y, m, d)) /\ NotAfter(CivilDate(y, m, d), To(s))}

LEMMA DaysSince1970 ==
  \A y \in Nat, m \in 1 .. 12, d \in Nat :
    1970 <= y /\ 1 <= d /\ d <= MonthLength(y, m) => Since1970(CivilDate(y, m, d))
BY MonthsDaysLonger DEF Since1970, Civil, CivilDate

(* Of a day there is: it is held by the stay that covers it. *)
LEMMA HeldByNumber ==
  \A s \in Stays, y \in Nat, m \in 1 .. 12, d \in Nat :
    1970 <= y /\ 1 <= d /\ d <= MonthLength(y, m)
      => (d \in Held(s, y, m) <=> DayNumber(CivilDate(y, m, d)) \in DaysOf(s))
<1> TAKE s \in Stays, y \in Nat, m \in 1 .. 12, d \in Nat
<1>m. /\ MonthLength(y, m) \in Nat /\ MaskDays(y, m) \in Nat
      /\ \/ MaskDays(y, m) = MonthLength(y, m)
         \/ m = 2 /\ MaskDays(y, m) = 29 /\ MonthLength(y, m) = 28
  BY MonthsDaysLonger
<1> HAVE 1970 <= y /\ 1 <= d /\ d <= MonthLength(y, m)
<1> DEFINE date == CivilDate(y, m, d)
<1>1. Since1970(date)
  BY DaysSince1970
<1>2. /\ Since1970(From(s)) /\ DayNumber(From(s)) = s.in \div DAY
      /\ Since1970(To(s)) /\ DayNumber(To(s)) = s.out \div DAY
  BY StayDates
<1>3. /\ DayNumber(date) \in Int
      /\ s.in \div DAY \in Int /\ s.out \div DAY \in Int
  BY <1>1, <1>2, NumbersFromZero
<1>4. d \in 1 .. MaskDays(y, m)
  BY <1>m
<1>5. d \in Held(s, y, m) <=> NotAfter(From(s), date) /\ NotAfter(date, To(s))
  BY <1>4 DEF Held
<1> HIDE DEF date
<1>6. /\ s.in \div DAY <= DayNumber(date) <=> NotAfter(From(s), date)
      /\ DayNumber(date) <= s.out \div DAY <=> NotAfter(date, To(s))
  BY <1>1, <1>2, DatesInOrder
<1>7. DayNumber(date) \in DaysOf(s) <=>
        s.in \div DAY <= DayNumber(date) /\ DayNumber(date) <= s.out \div DAY
  BY <1>3 DEF DaysOf
<1> QED
  BY <1>5, <1>6, <1>7 DEF date

(* A held February 29th that there is not: the 28th is held as well. *)
LEMMA HeldOtherwise ==
  \A s \in Stays, y \in Nat, m \in 1 .. 12 :
    \A d \in Held(s, y, m) :
      /\ d \in Nat /\ 1 <= d
      /\ d > MonthLength(y, m) => d = 29 /\ MonthLength(y, m) = 28 /\ 28 \in Held(s, y, m)
<1> TAKE s \in Stays, y \in Nat, m \in 1 .. 12
<1> TAKE d \in Held(s, y, m)
<1>1. /\ d \in 1 .. MaskDays(y, m)
      /\ NotAfter(From(s), CivilDate(y, m, d)) /\ NotAfter(CivilDate(y, m, d), To(s))
  BY DEF Held
<1>2. /\ MonthLength(y, m) \in Nat /\ MaskDays(y, m) \in Nat
      /\ \/ MaskDays(y, m) = MonthLength(y, m)
         \/ m = 2 /\ MaskDays(y, m) = 29 /\ MonthLength(y, m) = 28
  BY MonthsDaysLonger
<1>3. d \in Nat /\ 1 <= d /\ d <= MaskDays(y, m)
  BY <1>1, <1>2
<1>4. ASSUME d > MonthLength(y, m)
      PROVE  d = 29 /\ MonthLength(y, m) = 28 /\ 28 \in Held(s, y, m)
  <2>1. d = 29 /\ m = 2 /\ MonthLength(y, m) = 28 /\ MaskDays(y, m) = 29
    BY <1>2, <1>3, <1>4
  <2>2. Since1970(From(s)) /\ Since1970(To(s))
    BY StayDates
  <2>3. /\ From(s).day \in Nat /\ From(s).day <= MonthLength(From(s).year, From(s).month)
        /\ To(s).day \in Nat /\ From(s).month \in Int /\ To(s).month \in Int
        /\ From(s).year \in Int /\ To(s).year \in Int
    BY <2>2, DatesSince1970 DEF Since1970
  <2>4. NotAfter(From(s), CivilDate(y, m, 28))
    BY <1>1, <2>1, <2>3 DEF NotAfter, CivilDate
  <2>5. NotAfter(CivilDate(y, m, 28), To(s))
    BY <1>1, <2>1, <2>3 DEF NotAfter, CivilDate
  <2>6. 28 \in 1 .. MaskDays(y, m)
    BY <2>1
  <2> QED
    BY <2>1, <2>4, <2>5, <2>6 DEF Held
<1> QED
  BY <1>3, <1>4

(* What two stays both hold of a month is a day of both. *)
LEMMA HeldByBoth ==
  \A s, o \in Stays, y \in Nat, m \in 1 .. 12 :
    1970 <= y /\ Held(s, y, m) \cap Held(o, y, m) # {} => DaysOf(s) \cap DaysOf(o) # {}
<1> TAKE s, o \in Stays, y \in Nat, m \in 1 .. 12
<1>m. /\ MonthLength(y, m) \in Nat /\ MaskDays(y, m) \in Nat
      /\ \/ MaskDays(y, m) = MonthLength(y, m)
         \/ m = 2 /\ MaskDays(y, m) = 29 /\ MonthLength(y, m) = 28
  BY MonthsDaysLonger
<1> HAVE 1970 <= y /\ Held(s, y, m) \cap Held(o, y, m) # {}
<1>1. PICK d : d \in Held(s, y, m) /\ d \in Held(o, y, m)
  OBVIOUS
<1>3. PICK e \in Nat : /\ 1 <= e /\ e <= MonthLength(y, m)
                       /\ e \in Held(s, y, m) /\ e \in Held(o, y, m)
  <2>1. CASE d > MonthLength(y, m)
    <3>1. MonthLength(y, m) = 28 /\ 28 \in Held(s, y, m) /\ 28 \in Held(o, y, m)
      BY <1>1, <2>1, HeldOtherwise
    <3> QED
      BY <3>1
  <2>2. CASE ~ (d > MonthLength(y, m))
    <3>1. d \in Nat /\ 1 <= d
      BY <1>1, HeldOtherwise
    <3> QED
      BY <1>1, <1>m, <2>2, <3>1
  <2> QED
    BY <2>1, <2>2
<1>4. DayNumber(CivilDate(y, m, e)) \in DaysOf(s) \cap DaysOf(o)
  BY <1>3, HeldByNumber
<1> QED
  BY <1>4

(* The date of a day of a stay. *)
LEMMA DayOfStay ==
  \A s \in Stays : \A n \in DaysOf(s) :
    \E y \in Nat, m \in 1 .. 12, d \in Nat :
      /\ From(s).year <= y /\ y <= To(s).year /\ 1970 <= y
      /\ 1 <= d /\ d <= MonthLength(y, m)
      /\ DayNumber(CivilDate(y, m, d)) = n /\ d \in Held(s, y, m)
<1> TAKE s \in Stays
<1> TAKE n \in DaysOf(s)
<1>1. /\ Since1970(From(s)) /\ DayNumber(From(s)) = s.in \div DAY
      /\ Since1970(To(s)) /\ DayNumber(To(s)) = s.out \div DAY
  BY StayDates
<1>m. s.in \div DAY \in Nat /\ s.out \div DAY \in Nat
  BY <1>1, NumbersFromZero
<1>3. n \in Nat /\ s.in \div DAY <= n /\ n <= s.out \div DAY
  BY <1>m DEF DaysOf
<1>4. n * DAY \in Nat /\ (n * DAY) \div DAY = n
  <2>1. \A k \in Nat \ {0} : n * k \in Nat /\ (n * k) \div k = n
    BY <1>3
  <2> QED
    BY <2>1, CalendarAssumption
<1> DEFINE date == DeriveDate(n * DAY)
<1>5. Since1970(date) /\ DayNumber(date) = n
  BY <1>4, DatesConverted
<1> HIDE DEF date
<1>6. NotAfter(From(s), date) /\ NotAfter(date, To(s))
  BY <1>1, <1>3, <1>5, DatesInOrder
<1>7. /\ date.year \in Nat /\ 1970 <= date.year /\ date.month \in 1 .. 12
      /\ date.day \in Nat /\ 1 <= date.day /\ date.day <= MonthLength(date.year, date.month)
  BY <1>5, DatesSince1970 DEF Since1970
<1>8. From(s).year <= date.year /\ date.year <= To(s).year
  BY <1>1, <1>6, <1>7 DEF NotAfter, Since1970
<1>9. DayNumber(CivilDate(date.year, date.month, date.day)) = n
  BY <1>5 DEF DayNumber, CivilDate
<1>10. date.day \in Held(s, date.year, date.month)
  BY <1>7, <1>9, HeldByNumber
<1> QED
  BY <1>7, <1>8, <1>9, <1>10

-----------------------------------------------------------------------------
(* The masks of a stay are what it holds of each month. *)
LEMMA NotHeldOutside ==
  \A s \in Stays, y \in Nat, m \in 1 .. 12 :
    y < From(s).year \/ To(s).year < y => Held(s, y, m) = {}
<1> TAKE s \in Stays, y \in Nat, m \in 1 .. 12
<1> HAVE y < From(s).year \/ To(s).year < y
<1> SUFFICES ASSUME NEW d \in Held(s, y, m)
             PROVE  FALSE
  OBVIOUS
<1>1. From(s).year \in Nat /\ To(s).year \in Nat
  BY StayDates DEF Since1970
<1>2. From(s).year <= y /\ y <= To(s).year
  BY <1>1 DEF Held, NotAfter, CivilDate
<1> QED
  BY <1>1, <1>2

LEMMA MaskDaysReach ==
  \A y \in Nat, m \in 1 .. 12 :
    MaskDays(y, m) \in Nat /\ MonthLength(y, m) \in Nat /\ MonthLength(y, m) <= MaskDays(y, m)
<1> TAKE y \in Nat, m \in 1 .. 12
<1>1. /\ MonthLength(y, m) \in Nat /\ MaskDays(y, m) \in Nat
      /\ \/ MaskDays(y, m) = MonthLength(y, m)
         \/ m = 2 /\ MaskDays(y, m) = 29 /\ MonthLength(y, m) = 28
  BY MonthsDaysLonger
<1> QED
  BY <1>1

LEMMA IsInterval ==
  ASSUME NEW a \in Int, NEW b \in Int, NEW S,
         \A d : d \in S <=> d \in Int /\ a <= d /\ d <= b
  PROVE  a .. b = S
<1>1. \A d : d \in a .. b <=> d \in Int /\ a <= d /\ d <= b
  OBVIOUS
<1>2. \A d : d \in a .. b <=> d \in S
  BY <1>1
<1> DEFINE I == a .. b
<1> HIDE DEF I
<1>3. \A d : d \in I <=> d \in S
  BY <1>2 DEF I
<1>4. I = S
  BY <1>3
<1> QED
  BY <1>4 DEF I

(* The masks of a stay in one of its years. *)
YearsOf(s) == {From(s).year, To(s).year}
FirstMonth(s, y) == IF y = From(s).year THEN From(s).month ELSE 1
LastMonth(s, y) == IF y = To(s).year THEN To(s).month ELSE 12
FirstDay(s, y, m) == IF y = From(s).year /\ m = From(s).month THEN From(s).day ELSE 1
LastDay(s, y, m) == IF y = To(s).year /\ m = To(s).month THEN To(s).day ELSE MaskDays(y, m)
MasksIn(s, y) ==
  [m \in FirstMonth(s, y) .. LastMonth(s, y) |-> BitmapDays(FirstDay(s, y, m), LastDay(s, y, m))]

(* The program's three ways to make them. *)
LEMMA MasksByYear ==
  ASSUME NEW s \in Stays
  PROVE  /\ From(s).year = To(s).year => MasksWithinYear(From(s), To(s)) = MasksIn(s, From(s).year)
         /\ From(s).year < To(s).year => /\ MasksToYearEnd(From(s)) = MasksIn(s, From(s).year)
                                         /\ MasksFromYearStart(To(s)) = MasksIn(s, To(s).year)
<1> DEFINE from == From(s)
           to == To(s)
<1>1. /\ from.leapYear = (from.year % 4 = 0) /\ to.leapYear = (to.year % 4 = 0)
      /\ from.year \in Nat /\ to.year \in Nat
  BY StayDates DEF Since1970
<1>2. \A m : /\ MonthsDays(m, from.leapYear) = MaskDays(from.year, m)
             /\ MonthsDays(m, to.leapYear) = MaskDays(to.year, m)
  BY <1>1 DEF MaskDays
<1>3. ASSUME from.year = to.year
      PROVE  MasksWithinYear(from, to) = MasksIn(s, from.year)
  BY <1>2, <1>3 DEF MasksWithinYear, MasksIn, FirstMonth, LastMonth, FirstDay, LastDay
<1>4. ASSUME from.year < to.year
      PROVE  /\ MasksToYearEnd(from) = MasksIn(s, from.year)
             /\ MasksFromYearStart(to) = MasksIn(s, to.year)
  <2>1. from.year # to.year
    BY <1>1, <1>4
  <2> QED
    BY <1>2, <2>1 DEF MasksToYearEnd, MasksFromYearStart, MasksIn,
                      FirstMonth, LastMonth, FirstDay, LastDay
<1> QED
  BY <1>3, <1>4

(* What a stay holds of a month is what the program sets in its mask. *)
LEMMA HeldByMasks ==
  ASSUME NEW s \in Stays, NEW y \in YearsOf(s)
  PROVE  /\ DOMAIN MasksIn(s, y) \subseteq 1 .. 12
         /\ \A m \in 1 .. 12 : MaskOf(MasksIn(s, y), m) = Held(s, y, m)
<1> DEFINE from == From(s)
           to == To(s)
           first == FirstMonth(s, y)
           final == LastMonth(s, y)
<1>1. /\ Since1970(from) /\ Since1970(to) /\ NotAfter(from, to)
      /\ y \in {from.year, to.year}
  BY StayDates DEF YearsOf
<1> HIDE DEF from, to
<1>2. /\ from.month \in 1 .. 12 /\ from.day \in Nat /\ 1 <= from.day
      /\ to.month \in 1 .. 12 /\ to.day \in Nat /\ 1 <= to.day
      /\ to.day <= MonthLength(to.year, to.month)
      /\ from.year \in Nat /\ to.year \in Nat /\ y \in Nat
      /\ from.year <= to.year
  BY <1>1, DatesSince1970 DEF Since1970, NotAfter
<1>3. first \in 1 .. 12 /\ final \in 1 .. 12
  BY <1>2 DEF FirstMonth, LastMonth, from, to
<1>4. DOMAIN MasksIn(s, y) = first .. final
  BY DEF MasksIn
<1>5. ASSUME NEW m \in 1 .. 12
      PROVE  MaskOf(MasksIn(s, y), m) = Held(s, y, m)
  <2> DEFINE a == FirstDay(s, y, m)
             b == LastDay(s, y, m)
  <2>1. MaskDays(y, m) \in Nat /\ MonthLength(y, m) \in Nat /\ MonthLength(y, m) <= MaskDays(y, m)
    BY <1>2, MaskDaysReach
  <2>2. /\ a \in Nat /\ 1 <= a /\ a = (IF y = from.year /\ m = from.month THEN from.day ELSE 1)
        /\ b \in Nat /\ b <= MaskDays(y, m)
        /\ b = (IF y = to.year /\ m = to.month THEN to.day ELSE MaskDays(y, m))
    BY <1>2, <2>1 DEF FirstDay, LastDay, from, to
  <2>3. ASSUME NEW d \in Nat, 1 <= d, d <= MaskDays(y, m)
        PROVE  /\ NotAfter(from, CivilDate(y, m, d)) <=> first <= m /\ a <= d
               /\ NotAfter(CivilDate(y, m, d), to) <=> m <= final /\ d <= b
    <3>1. /\ first = (IF y = from.year THEN from.month ELSE 1)
          /\ final = (IF y = to.year THEN to.month ELSE 12)
      BY DEF FirstMonth, LastMonth, from, to
    <3> HIDE DEF first, final, a, b
    <3>2. NotAfter(from, CivilDate(y, m, d)) <=> first <= m /\ a <= d
      BY <1>1, <1>2, <2>2, <2>3, <3>1 DEF NotAfter, CivilDate
    <3>3. NotAfter(CivilDate(y, m, d), to) <=> m <= final /\ d <= b
      BY <1>1, <1>2, <2>2, <2>3, <3>1 DEF NotAfter, CivilDate
    <3> QED
      BY <3>2, <3>3
  <2>4. \A d : d \in Held(s, y, m) <=>
              /\ d \in 1 .. MaskDays(y, m)
              /\ NotAfter(from, CivilDate(y, m, d)) /\ NotAfter(CivilDate(y, m, d), to)
    BY DEF Held, from, to
  <2>5. m \in DOMAIN MasksIn(s, y) => MaskOf(MasksIn(s, y), m) = a .. b
    BY DEF MaskOf, MasksIn, BitmapDays
  <2> HIDE DEF a, b, first, final
  <2>6. CASE first <= m /\ m <= final
    <3>1. \A d : d \in Held(s, y, m) <=> d \in Int /\ a <= d /\ d <= b
      BY <2>1, <2>2, <2>3, <2>4, <2>6
    <3>2. a .. b = Held(s, y, m)
      <4>1. a \in Int /\ b \in Int
        BY <2>2
      <4> QED
        BY <3>1, <4>1, IsInterval
    <3>3. m \in DOMAIN MasksIn(s, y)
      BY <1>3, <1>4, <2>6
    <3> QED
      BY <2>5, <3>2, <3>3
  <2>7. CASE ~ (first <= m /\ m <= final)
    <3>1. \A d : d \notin Held(s, y, m)
      BY <2>1, <2>3, <2>4, <2>7
    <3>2. m \notin DOMAIN MasksIn(s, y)
      BY <1>3, <1>4, <2>7
    <3> QED
      BY <3>1, <3>2 DEF MaskOf
  <2> QED
    BY <2>6, <2>7
<1>6. DOMAIN MasksIn(s, y) \subseteq 1 .. 12
  <2> HIDE DEF first, final
  <2> QED
    BY <1>3, <1>4
<1> QED
  BY <1>5, <1>6

LEMMA ByMonth ==
  ASSUME NEW account, NEW masks, DOMAIN masks \subseteq 1 .. 12
  PROVE  /\ Free(account, masks) <=> \A m \in 1 .. 12 : account[m] \cap MaskOf(masks, m) = {}
         /\ Taken(account, masks) <=> \A m \in 1 .. 12 : MaskOf(masks, m) \subseteq account[m]
BY DEF Free, Taken, MaskOf

-----------------------------------------------------------------------------
(* The inductive invariant: the accounts hold of every month what the      *)
(* stays do, and the stays have no day in common.                          *)
HeldIn(y, m) == UNION {Held(s, y, m) : s \in stays}

AccountsKept ==
  /\ occupiedDays = [y \in DOMAIN occupiedDays |-> [m \in 1 .. 12 |-> HeldIn(y, m)]]
  /\ DOMAIN occupiedDays \subseteq {Dates[t].year : t \in Moments}
StaysKept ==
  /\ stays \subseteq Stays
  /\ \A s \in stays : /\ {From(s).year, To(s).year} \subseteq DOMAIN occupiedDays
                      /\ To(s).year \in {From(s).year, From(s).year + 1}
StaysApart == \A s, o \in stays : s # o => DaysOf(s) \cap DaysOf(o) = {}
Kept == AccountsKept /\ StaysKept /\ StaysApart

(* Of a year without an account, no stay holds anything. *)
LEMMA AccountsHold ==
  ASSUME Kept, NEW y \in Nat
  PROVE  Account(y) = [m \in 1 .. 12 |-> HeldIn(y, m)]
<1>1. CASE y \in DOMAIN occupiedDays
  BY <1>1 DEF Account, Kept, AccountsKept
<1>2. CASE y \notin DOMAIN occupiedDays
  <2>1. ASSUME NEW m \in 1 .. 12, NEW s \in stays
        PROVE  Held(s, y, m) = {}
    <3>1. /\ s \in Stays
          /\ From(s).year # y /\ To(s).year # y
          /\ To(s).year \in {From(s).year, From(s).year + 1}
      BY <1>2 DEF Kept, StaysKept
    <3>2. From(s).year \in Nat /\ To(s).year \in Nat
      BY <3>1, StayDates DEF Since1970
    <3>3. y < From(s).year \/ To(s).year < y
      BY <3>1, <3>2
    <3> QED
      BY <3>1, <3>3, NotHeldOutside
  <2>2. \A m \in 1 .. 12 : HeldIn(y, m) = {}
    BY <2>1 DEF HeldIn
  <2>3. Account(y) = [m \in 1 .. 12 |-> {}]
    BY <1>2 DEF Account
  <2> QED
    BY <2>2, <2>3
<1> QED
  BY <1>1, <1>2

(* A stay finds its days free in its months exactly if no stay has them. *)
NoneOf(s) == \A o \in stays : DaysOf(s) \cap DaysOf(o) = {}
MonthsFree(s, y) == \A m \in 1 .. 12 : Account(y)[m] \cap Held(s, y, m) = {}

LEMMA FreeIfNone ==
  ASSUME Kept, NEW s \in Stays, NoneOf(s), NEW y \in {From(s).year, To(s).year}
  PROVE  MonthsFree(s, y)
<1> SUFFICES ASSUME NEW m \in 1 .. 12, NEW d \in Account(y)[m] \cap Held(s, y, m)
             PROVE  FALSE
  BY DEF MonthsFree
<1>1. y \in Nat /\ 1970 <= y
  BY StayDates DEF Since1970
<1>2. d \in HeldIn(y, m)
  BY <1>1, AccountsHold
<1>3. PICK o \in stays : d \in Held(o, y, m)
  BY <1>2 DEF HeldIn
<1>4. o \in Stays
  BY DEF Kept, StaysKept
<1>5. Held(s, y, m) \cap Held(o, y, m) # {}
  BY <1>3
<1>6. DaysOf(s) \cap DaysOf(o) # {}
  BY <1>1, <1>4, <1>5, HeldByBoth
<1> QED
  BY <1>6 DEF NoneOf

(* And the other way round: a day in common is in a month of both. *)
LEMMA NoneIfFree ==
  ASSUME Kept, NEW s \in Stays, To(s).year \in {From(s).year, From(s).year + 1},
         \A y \in {From(s).year, To(s).year} : MonthsFree(s, y)
  PROVE  NoneOf(s)
<1> SUFFICES ASSUME NEW o \in stays, NEW n \in DaysOf(s) \cap DaysOf(o)
             PROVE  FALSE
  BY DEF NoneOf
<1>1. o \in Stays
  BY DEF Kept, StaysKept
<1>2. From(s).year \in Nat /\ To(s).year \in Nat
  BY StayDates DEF Since1970
<1>3. PICK y \in Nat, m \in 1 .. 12, d \in Nat :
        /\ From(s).year <= y /\ y <= To(s).year /\ 1970 <= y
        /\ 1 <= d /\ d <= MonthLength(y, m)
        /\ DayNumber(CivilDate(y, m, d)) = n /\ d \in Held(s, y, m)
  BY DayOfStay
<1>4. y \in {From(s).year, To(s).year}
  BY <1>2, <1>3
<1>5. d \in Held(o, y, m)
  BY <1>1, <1>3, HeldByNumber
<1>6. d \in HeldIn(y, m)
  BY <1>5 DEF HeldIn
<1>7. d \in Account(y)[m]
  BY <1>6, AccountsHold
<1> QED
  BY <1>3, <1>4, <1>7 DEF MonthsFree

(* The tests before a reservation, by the days. *)
LEMMA ReservesIfNone ==
  ASSUME Kept, NEW s \in Stays
  PROVE  /\ CanReserveSingleYear(s) <=> To(s).year = From(s).year /\ NoneOf(s)
         /\ CanReserveCrossYears(s) <=> To(s).year = From(s).year + 1 /\ NoneOf(s)
<1>1. From(s).year \in Nat /\ To(s).year \in Nat
  BY StayDates DEF Since1970
<1>2. \A y \in YearsOf(s) : Free(Account(y), MasksIn(s, y)) <=> MonthsFree(s, y)
  BY HeldByMasks, ByMonth DEF MonthsFree
<1>3. To(s).year \in {From(s).year, From(s).year + 1}
        => ((\A y \in YearsOf(s) : MonthsFree(s, y)) <=> NoneOf(s))
  BY FreeIfNone, NoneIfFree DEF YearsOf
<1>4. CanReserveSingleYear(s) <=>
        To(s).year = From(s).year /\ Free(Account(From(s).year), MasksIn(s, From(s).year))
  BY MasksByYear DEF CanReserveSingleYear
<1>5. CanReserveCrossYears(s) <=>
        /\ To(s).year = From(s).year + 1
        /\ Free(Account(From(s).year), MasksIn(s, From(s).year))
        /\ Free(Account(To(s).year), MasksIn(s, To(s).year))
  <2>1. To(s).year = From(s).year + 1 => From(s).year < To(s).year
    BY <1>1
  <2> QED
    BY <2>1, MasksByYear DEF CanReserveCrossYears
<1>6. CanReserveSingleYear(s) <=> To(s).year = From(s).year /\ NoneOf(s)
  BY <1>2, <1>3, <1>4 DEF YearsOf
<1>7. CanReserveCrossYears(s) <=> To(s).year = From(s).year + 1 /\ NoneOf(s)
  BY <1>2, <1>3, <1>5 DEF YearsOf
<1> QED
  BY <1>6, <1>7

(* What a stay holds is taken. *)
LEMMA ReleasesIfKept ==
  ASSUME Kept, NEW s \in stays
  PROVE  /\ CanReleaseSingleYear(s) <=> To(s).year = From(s).year
         /\ CanReleaseCrossYears(s) <=> To(s).year = From(s).year + 1
<1>1. s \in Stays /\ {From(s).year, To(s).year} \subseteq DOMAIN occupiedDays
  BY DEF Kept, StaysKept
<1>2. From(s).year \in Nat /\ To(s).year \in Nat
  BY <1>1, StayDates DEF Since1970
<1>3. ASSUME NEW y \in YearsOf(s)
      PROVE  Taken(Account(y), MasksIn(s, y))
  <2>1. \A m \in 1 .. 12 : Held(s, y, m) \subseteq Account(y)[m]
    BY <1>2, AccountsHold DEF HeldIn, YearsOf
  <2> QED
    BY <1>1, <2>1, HeldByMasks, ByMonth
<1>4. ASSUME To(s).year = From(s).year
      PROVE  Taken(Account(From(s).year), MasksWithinYear(From(s), To(s)))
  BY <1>1, <1>3, <1>4, MasksByYear DEF YearsOf
<1>5. ASSUME To(s).year = From(s).year + 1
      PROVE  /\ Taken(Account(From(s).year), MasksToYearEnd(From(s)))
             /\ Taken(Account(To(s).year), MasksFromYearStart(To(s)))
  <2>1. From(s).year < To(s).year
    BY <1>2, <1>5
  <2> QED
    BY <1>1, <1>3, <2>1, MasksByYear DEF YearsOf
<1> QED
  BY <1>1, <1>4, <1>5 DEF CanReleaseSingleYear, CanReleaseCrossYears

-----------------------------------------------------------------------------
(* What the helpers write.                                                 *)
LEMMA HoldsSomeDay ==
  \A s \in Stays : s.in \div DAY \in DaysOf(s)
<1> TAKE s \in Stays
<1>1. /\ Since1970(From(s)) /\ DayNumber(From(s)) = s.in \div DAY
      /\ Since1970(To(s)) /\ DayNumber(To(s)) = s.out \div DAY
      /\ NotAfter(From(s), To(s))
  BY StayDates
<1>2. s.in \div DAY <= s.out \div DAY
  BY <1>1, DatesInOrder
<1>3. s.in \div DAY \in Nat /\ s.out \div DAY \in Nat
  BY <1>1, NumbersFromZero
<1> QED
  BY <1>2, <1>3 DEF DaysOf

(* In its other years a stay holds nothing. *)
LEMMA OutsideYears ==
  ASSUME Kept, NEW s \in Stays, To(s).year \in {From(s).year, From(s).year + 1},
         NEW y \in DOMAIN occupiedDays, y \notin YearsOf(s)
  PROVE  /\ occupiedDays[y] = [m \in 1 .. 12 |-> HeldIn(y, m) \cup Held(s, y, m)]
         /\ occupiedDays[y] = [m \in 1 .. 12 |-> HeldIn(y, m) \ Held(s, y, m)]
<1>1. PICK t \in Moments : y = Dates[t].year
  BY DEF Kept, AccountsKept
<1>2. y \in Nat
  BY <1>1, DatesConverted, CalendarAssumption DEF Dates, Since1970
<1>3. From(s).year \in Nat /\ To(s).year \in Nat
  BY StayDates DEF Since1970
<1>4. y < From(s).year \/ To(s).year < y
  BY <1>2, <1>3 DEF YearsOf
<1>5. \A m \in 1 .. 12 : Held(s, y, m) = {}
  BY <1>2, <1>4, NotHeldOutside
<1>6. occupiedDays[y] = [m \in 1 .. 12 |-> HeldIn(y, m)]
  BY DEF Kept, AccountsKept
<1> QED
  BY <1>5, <1>6

(* In its own years they are its masks that are taken or given back. *)
LEMMA InsideYears ==
  ASSUME Kept, NEW s \in Stays, NEW y \in YearsOf(s)
  PROVE  /\ Take(Account(y), MasksIn(s, y)) = [m \in 1 .. 12 |-> HeldIn(y, m) \cup Held(s, y, m)]
         /\ Give(Account(y), MasksIn(s, y)) = [m \in 1 .. 12 |-> HeldIn(y, m) \ Held(s, y, m)]
<1>1. y \in Nat
  BY StayDates DEF YearsOf, Since1970
<1>2. Account(y) = [m \in 1 .. 12 |-> HeldIn(y, m)]
  BY <1>1, AccountsHold
<1>3. \A m \in 1 .. 12 : MaskOf(MasksIn(s, y), m) = Held(s, y, m)
  BY HeldByMasks
<1> QED
  BY <1>2, <1>3 DEF Take, Give

(* The accounts after both. *)
LEMMA SavedAccounts ==
  ASSUME Kept, NEW s \in Stays, To(s).year \in {From(s).year, From(s).year + 1}
  PROVE  /\ Saved([y \in YearsOf(s) |-> Take(Account(y), MasksIn(s, y))])
              = [y \in DOMAIN occupiedDays \cup YearsOf(s) |->
                   [m \in 1 .. 12 |-> HeldIn(y, m) \cup Held(s, y, m)]]
         /\ Saved([y \in YearsOf(s) |-> Give(Account(y), MasksIn(s, y))])
              = [y \in DOMAIN occupiedDays \cup YearsOf(s) |->
                   [m \in 1 .. 12 |-> HeldIn(y, m) \ Held(s, y, m)]]
BY OutsideYears, InsideYears DEF Saved

Reserves(s) == ReserveDaysSingleYear(s) \/ ReserveDaysCrossYears(s)
Releases(s) == ReleaseDaysSingleYear(s) \/ ReleaseDaysCrossYears(s)

(* What a reservation that succeeds leaves. *)
LEMMA Reserved ==
  ASSUME Kept, NEW s \in Stays, Reserves(s)
  PROVE  /\ NoneOf(s) /\ s \notin stays /\ stays' = stays \cup {s}
         /\ To(s).year \in {From(s).year, From(s).year + 1}
         /\ occupiedDays' = [y \in DOMAIN occupiedDays \cup YearsOf(s) |->
                               [m \in 1 .. 12 |-> HeldIn(y, m) \cup Held(s, y, m)]]
<1>1. /\ CanReserveSingleYear(s) <=> To(s).year = From(s).year /\ NoneOf(s)
      /\ CanReserveCrossYears(s) <=> To(s).year = From(s).year + 1 /\ NoneOf(s)
  BY ReservesIfNone
<1>2. From(s).year \in Nat /\ To(s).year \in Nat
  BY StayDates DEF Since1970
<1>3. NoneOf(s) /\ stays' = stays \cup {s} /\ To(s).year \in {From(s).year, From(s).year + 1}
  BY <1>1 DEF Reserves, ReserveDaysSingleYear, ReserveDaysCrossYears
<1>4. s \notin stays
  <2>1. DaysOf(s) \cap DaysOf(s) # {}
    BY HoldsSomeDay
  <2> QED
    BY <1>3, <2>1 DEF NoneOf
<1>5. occupiedDays' = Saved([y \in YearsOf(s) |-> Take(Account(y), MasksIn(s, y))])
  <2>1. CASE ReserveDaysSingleYear(s)
    <3>1. To(s).year = From(s).year /\ YearsOf(s) = {From(s).year}
      BY <1>1, <2>1 DEF ReserveDaysSingleYear, YearsOf
    <3> QED
      BY <2>1, <3>1, MasksByYear DEF ReserveDaysSingleYear
  <2>2. CASE ReserveDaysCrossYears(s)
    <3>1. From(s).year < To(s).year
      BY <1>1, <1>2, <2>2 DEF ReserveDaysCrossYears
    <3>2. \A y \in YearsOf(s) :
            (IF y = From(s).year THEN MasksToYearEnd(From(s)) ELSE MasksFromYearStart(To(s)))
              = MasksIn(s, y)
      BY <3>1, MasksByYear DEF YearsOf
    <3> QED
      BY <2>2, <3>2 DEF ReserveDaysCrossYears, YearsOf
  <2> QED
    BY <2>1, <2>2 DEF Reserves
<1> QED
  BY <1>3, <1>4, <1>5, SavedAccounts

(* And what giving back the days leaves. *)
LEMMA Released ==
  ASSUME Kept, NEW s \in stays, Releases(s)
  PROVE  /\ stays' = stays \ {s}
         /\ occupiedDays' = [y \in DOMAIN occupiedDays |->
                               [m \in 1 .. 12 |-> HeldIn(y, m) \ Held(s, y, m)]]
<1>1. /\ s \in Stays
      /\ YearsOf(s) \subseteq DOMAIN occupiedDays
      /\ To(s).year \in {From(s).year, From(s).year + 1}
  BY DEF Kept, StaysKept, YearsOf
<1>2. /\ CanReleaseSingleYear(s) <=> To(s).year = From(s).year
      /\ CanReleaseCrossYears(s) <=> To(s).year = From(s).year + 1
  BY ReleasesIfKept
<1>3. From(s).year \in Nat /\ To(s).year \in Nat
  BY <1>1, StayDates DEF Since1970
<1>4. stays' = stays \ {s}
  BY DEF Releases, ReleaseDaysSingleYear, ReleaseDaysCrossYears
<1>5. occupiedDays' = Saved([y \in YearsOf(s) |-> Give(Account(y), MasksIn(s, y))])
  <2>1. CASE ReleaseDaysSingleYear(s)
    <3>1. To(s).year = From(s).year /\ YearsOf(s) = {From(s).year}
      BY <1>2, <2>1 DEF ReleaseDaysSingleYear, YearsOf
    <3> QED
      BY <1>1, <2>1, <3>1, MasksByYear DEF ReleaseDaysSingleYear
  <2>2. CASE ReleaseDaysCrossYears(s)
    <3>1. From(s).year < To(s).year
      BY <1>2, <1>3, <2>2 DEF ReleaseDaysCrossYears
    <3>2. \A y \in YearsOf(s) :
            (IF y = From(s).year THEN MasksToYearEnd(From(s)) ELSE MasksFromYearStart(To(s)))
              = MasksIn(s, y)
      BY <1>1, <3>1, MasksByYear DEF YearsOf
    <3> QED
      BY <2>2, <3>2 DEF ReleaseDaysCrossYears, YearsOf
  <2> QED
    BY <2>1, <2>2 DEF Releases
<1>6. DOMAIN occupiedDays \cup YearsOf(s) = DOMAIN occupiedDays
  BY <1>1
<1> QED
  BY <1>1, <1>4, <1>5, <1>6, SavedAccounts

-----------------------------------------------------------------------------
(* The invariant is inductive.                                             *)
LEMMA KeptAtFirst == Init => Kept
BY DEF Init, Kept, AccountsKept, StaysKept, StaysApart

LEMMA KeptByReserving ==
  ASSUME Kept, NEW s \in Stays, Reserves(s)
  PROVE  Kept'
<1> DEFINE D == DOMAIN occupiedDays \cup YearsOf(s)
<1>1. /\ NoneOf(s) /\ s \notin stays /\ stays' = stays \cup {s}
      /\ To(s).year \in {From(s).year, From(s).year + 1}
      /\ occupiedDays' = [y \in D |-> [m \in 1 .. 12 |-> HeldIn(y, m) \cup Held(s, y, m)]]
  BY Reserved
<1>2. DOMAIN occupiedDays' = D
  BY <1>1
<1>3. AccountsKept'
  <2>1. \A y, m : HeldIn(y, m)' = HeldIn(y, m) \cup Held(s, y, m)
    BY <1>1 DEF HeldIn
  <2>2. occupiedDays' = [y \in D |-> [m \in 1 .. 12 |-> HeldIn(y, m)']]
    BY <1>1, <2>1
  <2>3. D \subseteq {Dates[t].year : t \in Moments}
    BY StayDates DEF Kept, AccountsKept, YearsOf
  <2> HIDE DEF D
  <2> QED
    BY <1>2, <2>2, <2>3 DEF AccountsKept
<1>4. StaysKept'
  <2>1. stays' \subseteq Stays
    BY <1>1 DEF Kept, StaysKept
  <2>2. \A o \in stays' : /\ {From(o).year, To(o).year} \subseteq D
                          /\ To(o).year \in {From(o).year, From(o).year + 1}
    BY <1>1 DEF Kept, StaysKept, YearsOf
  <2> HIDE DEF D
  <2> QED
    BY <1>2, <2>1, <2>2 DEF StaysKept
<1>5. StaysApart'
  <2>1. \A o \in stays : DaysOf(s) \cap DaysOf(o) = {} /\ DaysOf(o) \cap DaysOf(s) = {}
    BY <1>1 DEF NoneOf
  <2>2. \A o, r \in stays : o # r => DaysOf(o) \cap DaysOf(r) = {}
    BY DEF Kept, StaysApart
  <2> QED
    BY <1>1, <2>1, <2>2 DEF StaysApart
<1> QED
  BY <1>3, <1>4, <1>5 DEF Kept

LEMMA YearsOfAccounts ==
  ASSUME Kept
  PROVE  \A y \in DOMAIN occupiedDays : y \in Nat /\ 1970 <= y
<1> TAKE y \in DOMAIN occupiedDays
<1>1. PICK t \in Moments : y = Dates[t].year
  BY DEF Kept, AccountsKept
<1> QED
  BY <1>1, DatesConverted, CalendarAssumption DEF Dates, Since1970

LEMMA KeptByReleasing ==
  ASSUME Kept, NEW s \in stays, Releases(s)
  PROVE  Kept'
<1>1. /\ stays' = stays \ {s}
      /\ occupiedDays' = [y \in DOMAIN occupiedDays |->
                            [m \in 1 .. 12 |-> HeldIn(y, m) \ Held(s, y, m)]]
  BY Released
<1>2. DOMAIN occupiedDays' = DOMAIN occupiedDays
  BY <1>1
<1>3. AccountsKept'
  <2>1. ASSUME NEW y \in DOMAIN occupiedDays, NEW m \in 1 .. 12
        PROVE  HeldIn(y, m)' = HeldIn(y, m) \ Held(s, y, m)
    <3>1. y \in Nat /\ 1970 <= y
      BY YearsOfAccounts
    <3>2. ASSUME NEW o \in stays, o # s
          PROVE  Held(o, y, m) \cap Held(s, y, m) = {}
      <4>1. o \in Stays /\ s \in Stays /\ DaysOf(o) \cap DaysOf(s) = {}
        BY <3>2 DEF Kept, StaysKept, StaysApart
      <4> QED
        BY <3>1, <4>1, HeldByBoth
    <3>3. HeldIn(y, m)' = UNION {Held(o, y, m) : o \in stays \ {s}}
      BY <1>1 DEF HeldIn
    <3> QED
      BY <3>2, <3>3 DEF HeldIn
  <2>2. occupiedDays' = [y \in DOMAIN occupiedDays |-> [m \in 1 .. 12 |-> HeldIn(y, m)']]
    BY <1>1, <2>1
  <2> QED
    BY <1>2, <2>2 DEF Kept, AccountsKept
<1>4. StaysKept'
  BY <1>1, <1>2 DEF Kept, StaysKept
<1>5. StaysApart'
  BY <1>1 DEF Kept, StaysApart
<1> QED
  BY <1>3, <1>4, <1>5 DEF Kept

(* The accounts always hold, of every month, what the stays do. *)
THEOREM AccountsAlwaysKept == Spec => []Kept
<1>1. Init => Kept
  BY KeptAtFirst
<1>2. Kept /\ [Next]_vars => Kept'
  <2> SUFFICES ASSUME Kept, [Next]_vars
               PROVE  Kept'
    OBVIOUS
  <2>1. CASE \E s \in Stays : ReserveDaysSingleYear(s) \/ ReserveDaysCrossYears(s)
    BY <2>1, KeptByReserving DEF Reserves
  <2>2. CASE \E s \in stays : ReleaseDaysSingleYear(s) \/ ReleaseDaysCrossYears(s)
    BY <2>2, KeptByReleasing DEF Releases
  <2>3. CASE UNCHANGED vars
    <3>1. \A y, m : HeldIn(y, m)' = HeldIn(y, m)
      BY <2>3 DEF HeldIn, vars
    <3> QED
      BY <2>3, <3>1 DEF Kept, AccountsKept, StaysKept, StaysApart, vars
  <2> QED
    BY <2>1, <2>2, <2>3 DEF Next
<1> QED
  BY <1>1, <1>2, PTL DEF Spec

-----------------------------------------------------------------------------
(* Years.                                                                  *)
LEMMA MaxOfFinite ==
  ASSUME NEW S \in SUBSET Int, IsFiniteSet(S), S # {}
  PROVE  Max(S) \in S /\ \A x \in S : Max(S) >= x
<1> DEFINE G == {T \in SUBSET S : T # {} => \E x \in T : \A y \in T : x >= y}
<1>1. ASSUME NEW T \in SUBSET S, \A U \in SUBSET T : U # T => U \in G
      PROVE  T \in G
  <2> SUFFICES ASSUME T # {}
               PROVE  \E x \in T : \A y \in T : x >= y
    OBVIOUS
  <2>1. PICK e : e \in T
    OBVIOUS
  <2>2. T \ {e} \in G
    BY <1>1, <2>1
  <2>3. CASE T \ {e} = {}
    BY <2>1, <2>3
  <2>4. CASE T \ {e} # {}
    <3>1. PICK x \in T \ {e} : \A y \in T \ {e} : x >= y
      BY <2>2, <2>4
    <3>2. x \in Int /\ e \in Int
      BY <2>1
    <3>3. CASE x >= e
      BY <3>1, <3>3
    <3>4. CASE ~ (x >= e)
      <4>1. \A y \in T : e >= y
        BY <3>1, <3>2, <3>4
      <4> QED
        BY <2>1, <4>1
    <3> QED
      BY <3>3, <3>4
  <2> QED
    BY <2>3, <2>4
<1> HIDE DEF G
<1>2. S \in G
  BY <1>1, SubsetInduction
<1>3. \E x \in S : \A y \in S : x >= y
  BY <1>2 DEF G
<1> QED
  BY <1>3 DEF Max

(* The last of the years. *)
LEMMA LastYear ==
  ASSUME Moments # {}
  PROVE  LET last == Max({Dates[t].year : t \in Moments})
         IN /\ last \in Nat /\ last >= 1970
            /\ Years = 1970 .. last + 1
            /\ Max(Years) = last + 1
            /\ \A t \in Moments :
                 Dates[t].year \in Nat /\ 1970 <= Dates[t].year /\ Dates[t].year <= last
<1> DEFINE Y == {Dates[t].year : t \in Moments}
           last == Max(Y)
<1>1. \A t \in Moments : Dates[t].year \in Nat /\ 1970 <= Dates[t].year
  BY DatesConverted, CalendarAssumption DEF Dates, Since1970
<1>2. Y \in SUBSET Int /\ Y # {}
  BY <1>1
<1>3. IsFiniteSet(Y)
  <2>1. [t \in Moments |-> Dates[t].year] \in Surjection(Moments, Y)
    BY DEF Surjection
  <2> QED
    BY <2>1, FS_Surjection, CalendarAssumption
<1> HIDE DEF Y
<1>4. last \in Y /\ \A x \in Y : last >= x
  BY <1>2, <1>3, MaxOfFinite
<1>5. last \in Nat /\ last >= 1970
  BY <1>1, <1>4 DEF Y
<1>6. \A t \in Moments : Dates[t].year <= last
  BY <1>1, <1>4, <1>5 DEF Y
<1>7. Years = 1970 .. last + 1
  BY DEF Years, Y
<1>8. Max(Years) = last + 1
  <2>1. \A x \in Int : x \in Years /\ (\A z \in Years : x >= z) => x = last + 1
    BY <1>5, <1>7
  <2>2. last + 1 \in Years /\ \A z \in Years : last + 1 >= z
    BY <1>5, <1>7
  <2>3. Years \subseteq Int
    BY <1>7
  <2> QED
    BY <2>1, <2>2, <2>3 DEF Max
<1> QED
  BY <1>1, <1>5, <1>6, <1>7, <1>8 DEF Y

LEMMA NewYears ==
  ASSUME Moments # {}
  PROVE  \A y \in Years : /\ y \in Nat /\ 1970 <= y
                          /\ NewYear[y] = NewYearDay(y) /\ NewYear[y + 1] = NewYearDay(y + 1)
<1> DEFINE last == Max({Dates[t].year : t \in Moments})
<1>1. last \in Nat /\ last >= 1970 /\ Years = 1970 .. last + 1 /\ Max(Years) = last + 1
  BY LastYear
<1> HIDE DEF last
<1>2. \A y \in Years \cup {Max(Years) + 1} : y \in Nat /\ 1970 <= y
  <2>1. \A y \in Years : y \in Nat /\ 1970 <= y
    BY <1>1
  <2>2. Max(Years) + 1 \in Nat /\ 1970 <= Max(Years) + 1
    BY <1>1
  <2> QED
    BY <2>1, <2>2
<1>3. ASSUME NEW y \in Years \cup {Max(Years) + 1}
      PROVE  NewYear[y] = NewYearDay(y)
  <2>1. y \in Nat /\ y >= 1970
    BY <1>2, <1>3
  <2>2. NewYear[y] = DayNumber(CivilDate(y, 1, 1))
    BY <1>3 DEF NewYear
  <2>3. DayNumber(CivilDate(y, 1, 1)) = NewYearDay(y) + DaysBefore(y, 1) + 1 - 1
    BY <2>1, DayNumbers
  <2>4. DaysBefore(y, 1) = 0 /\ NewYearDay(y) \in Int
    BY <2>1, DaysBeforeMonths, NewYearDays
  <2> QED
    BY <2>2, <2>3, <2>4
<1>4. \A y \in Years : y + 1 \in Years \cup {Max(Years) + 1}
  BY <1>1
<1> QED
  BY <1>2, <1>3, <1>4

(* A day is of one year only, which its date names. *)
LEMMA YearOfDate ==
  \A a : Since1970(a) => NewYearDay(a.year) <= DayNumber(a) /\ DayNumber(a) < NewYearDay(a.year + 1)
<1> TAKE a
<1> HAVE Since1970(a)
<1>1. /\ a.day \in Nat /\ 1 <= a.day
      /\ NewYearDay(a.year) \in Int
      /\ DaysBefore(a.year, a.month) \in Nat /\ LeapDay(a.year) \in Nat
      /\ DaysBefore(a.year, a.month) + a.day <= 365 + LeapDay(a.year)
      /\ DayNumber(a) = NewYearDay(a.year) + DaysBefore(a.year, a.month) + a.day - 1
  BY DatesSince1970
<1>2. NewYearDay(a.year + 1) = NewYearDay(a.year) + 365 + LeapDay(a.year)
  BY NewYearDays DEF Since1970
<1> QED
  BY <1>1, <1>2

LEMMA OneYear ==
  ASSUME NEW y \in Nat, 1 <= y, NEW z \in Nat, 1 <= z, NEW n \in Int,
         NewYearDay(y) <= n, n < NewYearDay(y + 1),
         NewYearDay(z) <= n, n < NewYearDay(z + 1)
  PROVE  y = z
<1>1. /\ NewYearDay(y) \in Int /\ NewYearDay(y + 1) = NewYearDay(y) + 365 + LeapDay(y)
      /\ NewYearDay(z) \in Int /\ NewYearDay(z + 1) = NewYearDay(z) + 365 + LeapDay(z)
      /\ LeapDay(y) \in Nat /\ LeapDay(z) \in Nat
  BY NewYearDays DEF LeapDay
<1>2. CASE y < z
  <2>1. NewYearDay(y) + 365 + LeapDay(y) <= NewYearDay(z)
    BY <1>2, NewYearsInOrder
  <2> QED
    BY <1>1, <2>1
<1>3. CASE z < y
  <2>1. NewYearDay(z) + 365 + LeapDay(z) <= NewYearDay(y)
    BY <1>3, NewYearsInOrder
  <2> QED
    BY <1>1, <2>1
<1> QED
  BY <1>2, <1>3

(* Availability's calendar year is the one derive_date finds. *)
LEMMA CivilYearOfMoment ==
  \A t \in Moments : CivilYear(t \div DAY) = Dates[t].year
<1> TAKE t \in Moments
<1> DEFINE n == t \div DAY
           y == Dates[t].year
<1>1. Since1970(Dates[t]) /\ DayNumber(Dates[t]) = n
  BY DatesConverted, CalendarAssumption DEF Dates
<1>2. n \in Int
  BY <1>1, NumbersFromZero
<1>3. y \in Nat /\ 1970 <= y /\ NewYearDay(y) <= n /\ n < NewYearDay(y + 1)
  BY <1>1, YearOfDate DEF Since1970
<1>4. y \in Years
  <2> DEFINE last == Max({Dates[u].year : u \in Moments})
  <2>1. Years = 1970 .. last + 1 /\ y <= last /\ last \in Nat
    BY LastYear
  <2> HIDE DEF last, y
  <2> QED
    BY <1>3, <2>1
<1>5. CivilYear(n) = CHOOSE z \in Years : NewYear[z] <= n /\ n < NewYear[z + 1]
  BY DEF CivilYear, CivilYears
<1> HIDE DEF n, y
<1>6. \A z \in Years : /\ z \in Nat /\ 1970 <= z
                       /\ NewYear[z] = NewYearDay(z) /\ NewYear[z + 1] = NewYearDay(z + 1)
  BY NewYears
<1>7. \A z \in Years : NewYear[z] <= n /\ n < NewYear[z + 1] => z = y
  BY <1>2, <1>3, <1>6, OneYear
<1>8. NewYear[y] <= n /\ n < NewYear[y + 1]
  BY <1>3, <1>4, <1>6
<1>9. CivilYear(n) = y
  BY <1>4, <1>5, <1>7, <1>8
<1> QED
  BY <1>9 DEF n, y

LEMMA CivilYearsOfStay ==
  \A s \in Stays : /\ CivilYear(s.in \div DAY) = From(s).year
                   /\ CivilYear(s.out \div DAY) = To(s).year
BY CivilYearOfMoment DEF Stays, From, To

-----------------------------------------------------------------------------
(* Every day of the years that there is an account of, up to its last      *)
(* moment, is converted into its civil date (derive_date).                 *)
LEMMA CivilIfKept == Kept => DatesCivil
<1> SUFFICES ASSUME Kept, NEW final \in DOMAIN occupiedDays, NEW y \in 1970 .. final
             PROVE  Misconverted[y] = {}
  BY DEF DatesCivil
<1>1. PICK u \in Moments : final = Dates[u].year
  BY DEF Kept, AccountsKept
<1>2. y \in Years
  <2> DEFINE last == Max({Dates[t].year : t \in Moments})
  <2>1. Years = 1970 .. last + 1 /\ final <= last /\ last \in Nat /\ final \in Nat
    BY <1>1, LastYear
  <2> HIDE DEF last
  <2> QED
    BY <2>1
<1>3. /\ y \in Nat /\ 1970 <= y
      /\ NewYear[y] = NewYearDay(y) /\ NewYear[y + 1] = NewYearDay(y + 1)
  BY <1>1, <1>2, NewYears
<1>4. NewYearDay(y) \in Nat /\ NewYearDay(y + 1) \in Int
  <2>1. Since1970(CivilDate(y, 1, 1)) /\ DaysBefore(y, 1) = 0
    <3>1. MonthLength(y, 1) = 31
      BY MonthLengths
    <3> QED
      BY <1>3, <3>1, DaysBeforeMonths DEF Since1970, Civil, CivilDate
  <2>2. /\ NewYearDay(y) \in Int /\ LeapDay(y) \in Nat
        /\ NewYearDay(y + 1) = NewYearDay(y) + 365 + LeapDay(y)
    BY <1>3, NewYearDays DEF LeapDay
  <2>3. DayNumber(CivilDate(y, 1, 1)) = NewYearDay(y) + DaysBefore(y, 1) + 1 - 1
    BY <1>3, DayNumbers
  <2>4. DayNumber(CivilDate(y, 1, 1)) \in Nat
    BY <2>1, NumbersFromZero
  <2> QED
    BY <2>1, <2>2, <2>3, <2>4
<1>5. ASSUME NEW n \in NewYear[y] .. NewYear[y + 1] - 1
      PROVE  LET date == DeriveDate(n * DAY + DAY - 1)
             IN Civil(date) /\ date.year = y /\ DayNumber(date) = n
  <2>1. n \in Nat /\ NewYearDay(y) <= n /\ n < NewYearDay(y + 1)
    BY <1>3, <1>4
  <2>2. n * DAY + DAY - 1 \in Nat /\ (n * DAY + DAY - 1) \div DAY = n
    <3>1. \A k \in Nat \ {0} : n * k + k - 1 \in Nat /\ (n * k + k - 1) \div k = n
      BY <2>1
    <3> QED
      BY <3>1, CalendarAssumption
  <2> DEFINE date == DeriveDate(n * DAY + DAY - 1)
  <2>3. Since1970(date) /\ DayNumber(date) = n
    BY <2>2, DatesConverted
  <2> HIDE DEF date
  <2>4. date.year \in Nat /\ 1970 <= date.year
    BY <2>3 DEF Since1970
  <2>5. NewYearDay(date.year) <= n /\ n < NewYearDay(date.year + 1)
    BY <2>3, YearOfDate
  <2>6. date.year = y
    BY <1>3, <2>1, <2>4, <2>5, OneYear
  <2> QED
    BY <2>3, <2>6 DEF Since1970, date
<1> QED
  BY <1>2, <1>5 DEF Misconverted

(* Whatever days the moments are on, derive_date gives every day of the    *)
(* accounts' years the civil date with its number.                         *)
THEOREM DatesAlwaysCivil == Spec => []DatesCivil
BY AccountsAlwaysKept, CivilIfKept, PTL

-----------------------------------------------------------------------------
(* The days taken are the days of the stays. *)
LEMMA DaysTakenByStays ==
  ASSUME Kept
  PROVE  DaysTaken = UNION {DaysOf(s) : s \in stays}
<1> DEFINE P(y, m) == /\ y \in Nat /\ 1970 <= y /\ MonthLength(y, m) \in Nat
                      /\ DOMAIN DaysOfMonth[y][m] = 1 .. MonthLength(y, m)
                      /\ \A d \in 1 .. MonthLength(y, m) :
                           DaysOfMonth[y][m][d] = DayNumber(CivilDate(y, m, d))
                      /\ occupiedDays[y][m] = HeldIn(y, m)
<1>1. ASSUME NEW y \in DOMAIN occupiedDays, NEW m \in 1 .. 12
      PROVE  P(y, m)
  <2>1. PICK t \in Moments : y = Dates[t].year
    BY DEF Kept, AccountsKept
  <2>2. y \in Nat /\ 1970 <= y
    BY YearsOfAccounts
  <2>3. y \in Years
    <3> DEFINE last == Max({Dates[u].year : u \in Moments})
    <3>1. Years = 1970 .. last + 1 /\ y <= last /\ last \in Nat
      BY <2>1, LastYear
    <3> HIDE DEF last
    <3> QED
      BY <2>2, <3>1
  <2>4. DaysOfMonth[y][m] = [d \in 1 .. MonthLength(y, m) |-> DayNumber(CivilDate(y, m, d))]
    BY <2>3 DEF DaysOfMonth
  <2>5. occupiedDays[y] = [k \in 1 .. 12 |-> HeldIn(y, k)]
    BY DEF Kept, AccountsKept
  <2> QED
    BY <2>2, <2>4, <2>5, MonthsInOrder
<1> HIDE DEF P
<1>2. ASSUME NEW n \in DaysTaken
      PROVE  \E s \in stays : n \in DaysOf(s)
  <2>1. PICK y \in DOMAIN occupiedDays, m \in 1 .. 12 :
          n \in {DaysOfMonth[y][m][d] : d \in occupiedDays[y][m] \cap DOMAIN DaysOfMonth[y][m]}
    BY DEF DaysTaken
  <2>2. PICK d \in occupiedDays[y][m] \cap DOMAIN DaysOfMonth[y][m] : n = DaysOfMonth[y][m][d]
    BY <2>1
  <2>3. P(y, m)
    BY <1>1
  <2>4. d \in 1 .. MonthLength(y, m)
    BY <2>2, <2>3 DEF P
  <2>5. n = DayNumber(CivilDate(y, m, d)) /\ d \in HeldIn(y, m)
    BY <2>2, <2>3, <2>4 DEF P
  <2>6. y \in Nat /\ 1970 <= y /\ d \in Nat /\ 1 <= d /\ d <= MonthLength(y, m)
    BY <2>3, <2>4 DEF P
  <2>7. PICK s \in stays : d \in Held(s, y, m)
    BY <2>5 DEF HeldIn
  <2>8. s \in Stays
    BY DEF Kept, StaysKept
  <2> QED
    BY <2>5, <2>6, <2>7, <2>8, HeldByNumber
<1>3. ASSUME NEW s \in stays, NEW n \in DaysOf(s)
      PROVE  n \in DaysTaken
  <2>1. /\ s \in Stays /\ YearsOf(s) \subseteq DOMAIN occupiedDays
        /\ To(s).year \in {From(s).year, From(s).year + 1}
    BY DEF Kept, StaysKept, YearsOf
  <2>2. From(s).year \in Nat /\ To(s).year \in Nat
    BY <2>1, StayDates DEF Since1970
  <2>3. PICK y \in Nat, m \in 1 .. 12, d \in Nat :
          /\ From(s).year <= y /\ y <= To(s).year /\ 1970 <= y
          /\ 1 <= d /\ d <= MonthLength(y, m)
          /\ DayNumber(CivilDate(y, m, d)) = n /\ d \in Held(s, y, m)
    BY <2>1, DayOfStay
  <2>4. y \in DOMAIN occupiedDays
    BY <2>1, <2>2, <2>3 DEF YearsOf
  <2>5. P(y, m)
    BY <1>1, <2>4
  <2>6. d \in 1 .. MonthLength(y, m)
    BY <2>3, <2>5 DEF P
  <2>7. DaysOfMonth[y][m][d] = n
    BY <2>3, <2>5, <2>6 DEF P
  <2>8. d \in HeldIn(y, m)
    BY <2>3 DEF HeldIn
  <2>9. d \in occupiedDays[y][m] \cap DOMAIN DaysOfMonth[y][m]
    BY <2>5, <2>6, <2>8 DEF P
  <2> DEFINE T(z, k) ==
               {DaysOfMonth[z][k][e] : e \in occupiedDays[z][k] \cap DOMAIN DaysOfMonth[z][k]}
  <2>10. n \in T(y, m)
    BY <2>7, <2>9
  <2>11. DaysTaken = UNION {T(z, k) : z \in DOMAIN occupiedDays, k \in 1 .. 12}
    BY DEF DaysTaken
  <2> HIDE DEF T
  <2> QED
    BY <2>4, <2>10, <2>11
<1> QED
  BY <1>2, <1>3

LEMMA MasksHoldIfKept == Kept => MasksHoldStays
<1> SUFFICES ASSUME Kept
             PROVE  MasksHoldStays
  OBVIOUS
<1>1. DaysTaken = UNION {DaysOf(s) : s \in stays}
  BY DaysTakenByStays
<1>2. \A s, o \in stays : s # o => DaysOf(s) \cap DaysOf(o) = {}
  BY DEF Kept, StaysApart
<1>3. \A y \in DOMAIN occupiedDays, m \in 1 .. 12 :
        occupiedDays[y][m] \subseteq 1 .. MonthsDays(m, y % 4 = 0)
  <2> TAKE y \in DOMAIN occupiedDays, m \in 1 .. 12
  <2>1. occupiedDays[y] = [k \in 1 .. 12 |-> HeldIn(y, k)]
    BY DEF Kept, AccountsKept
  <2>2. HeldIn(y, m) \subseteq 1 .. MaskDays(y, m)
    BY DEF HeldIn, Held
  <2>3. occupiedDays[y][m] = HeldIn(y, m)
    BY <2>1
  <2> QED
    BY <2>2, <2>3 DEF MaskDays
<1> QED
  BY <1>1, <1>2, <1>3 DEF MasksHoldStays

(* In every reachable state the masks hold the days of the stays, all of   *)
(* them and no others, and no day twice.                                   *)
THEOREM MasksAlwaysHoldStays == Spec => []MasksHoldStays
BY AccountsAlwaysKept, MasksHoldIfKept, PTL

-----------------------------------------------------------------------------
(* The helpers' tests, by the days and the years they stand for. *)
LEMMA DecidedIfKept == Kept => DecidedByDays
<1> SUFFICES ASSUME Kept
             PROVE  DecidedByDays
  OBVIOUS
<1>1. \A s \in Stays : NoneOf(s) <=> DaysOf(s) \cap DaysTaken = {}
  BY DaysTakenByStays DEF NoneOf
<1>2. ASSUME NEW s \in Stays
      PROVE  /\ WithinOneYear(s) <=> To(s).year = From(s).year
             /\ AcrossOneEnd(s) <=> To(s).year = From(s).year + 1
  BY CivilYearsOfStay DEF WithinOneYear, AcrossOneEnd
<1>3. ASSUME NEW s \in Stays
      PROVE  /\ CanReserveSingleYear(s) <=> WithinOneYear(s) /\ DaysOf(s) \cap DaysTaken = {}
             /\ CanReserveCrossYears(s) <=> AcrossOneEnd(s) /\ DaysOf(s) \cap DaysTaken = {}
  BY <1>1, <1>2, ReservesIfNone
<1>4. ASSUME NEW s \in stays
      PROVE  /\ CanReleaseSingleYear(s) <=> WithinOneYear(s)
             /\ CanReleaseCrossYears(s) <=> AcrossOneEnd(s)
  <2>1. s \in Stays
    BY DEF Kept, StaysKept
  <2> QED
    BY <1>2, <2>1, ReleasesIfKept
<1> QED
  BY <1>3, <1>4 DEF DecidedByDays

(* can_reserve and can_release refuse a stay for a day that is held or for *)
(* the wrong year, and for nothing else.                                   *)
THEOREM AlwaysDecidedByDays == Spec => []DecidedByDays
BY AccountsAlwaysKept, DecidedIfKept, PTL

-----------------------------------------------------------------------------
(* The masks implement the set of days that Availability keeps. *)
LEMMA BookAtFirst == Init => Book!AvailabilityInit
<1> SUFFICES ASSUME Init
             PROVE  Book!AvailabilityInit
  OBVIOUS
<1>1. DaysTaken = {}
  BY DEF Init, DaysTaken
<1> QED
  BY <1>1 DEF Book!AvailabilityInit

LEMMA MasksHoldNext == Kept' => MasksHoldStays'
BY MasksHoldIfKept, PTL

LEMMA BookReserves ==
  ASSUME Kept, Kept', NEW s \in Stays, Reserves(s)
  PROVE  /\ s \in stays' \ stays
         /\ \/ Book!ReserveDaysSingleYear(Listing, s.in, s.out)
            \/ Book!ReserveDaysCrossYears(Listing, s.in, s.out)
<1>1. /\ NoneOf(s) /\ s \notin stays /\ stays' = stays \cup {s}
      /\ To(s).year \in {From(s).year, From(s).year + 1}
  BY Reserved
<1>2. DaysTaken = UNION {DaysOf(o) : o \in stays}
  BY DaysTakenByStays
<1>3. DaysTaken' = UNION {DaysOf(o) : o \in stays'}
  <2>1. MasksHoldStays'
    BY MasksHoldNext
  <2> QED
    BY <2>1 DEF MasksHoldStays
<1>4. DaysTaken' = DaysTaken \cup DaysOf(s)
  BY <1>1, <1>2, <1>3
<1>5. DaysOf(s) \cap DaysTaken = {}
  BY <1>1, <1>2 DEF NoneOf
<1>6. Book!Reserve(Listing, DaysOf(s))
  BY <1>4, <1>5 DEF Book!Reserve
<1>7. Book!StayDays(s.in, s.out) = DaysOf(s)
  BY DEF Book!StayDays, Book!DayOf, DaysOf
<1>8. /\ CivilYear(s.in \div DAY) = From(s).year
      /\ CivilYear(s.out \div DAY) = To(s).year
  BY CivilYearsOfStay
<1>9. /\ Book!SameYear(s.in, s.out) <=> From(s).year = To(s).year
      /\ Book!CrossYear(s.in, s.out) <=> From(s).year + 1 = To(s).year
  BY <1>8 DEF Book!SameYear, Book!CrossYear, Book!YearOf, Book!DayOf
<1> QED
  BY <1>1, <1>6, <1>7, <1>9 DEF Book!ReserveDaysSingleYear, Book!ReserveDaysCrossYears

LEMMA BookReleases ==
  ASSUME Kept, Kept', NEW s \in stays, Releases(s)
  PROVE  /\ s \in stays \ stays'
         /\ \/ Book!ReleaseDaysSingleYear(Listing, s.in, s.out)
            \/ Book!ReleaseDaysCrossYears(Listing, s.in, s.out)
<1>1. /\ s \in Stays /\ stays' = stays \ {s}
      /\ To(s).year \in {From(s).year, From(s).year + 1}
  BY Released DEF Kept, StaysKept
<1>2. DaysTaken = UNION {DaysOf(o) : o \in stays}
  BY DaysTakenByStays
<1>3. DaysTaken' = UNION {DaysOf(o) : o \in stays'}
  <2>1. MasksHoldStays'
    BY MasksHoldNext
  <2> QED
    BY <2>1 DEF MasksHoldStays
<1>4. \A o \in stays : o # s => DaysOf(o) \cap DaysOf(s) = {}
  BY DEF Kept, StaysApart
<1>5. DaysTaken' = DaysTaken \ DaysOf(s)
  BY <1>1, <1>2, <1>3, <1>4
<1>6. DaysOf(s) \subseteq DaysTaken
  BY <1>2
<1>7. Book!Release(Listing, DaysOf(s))
  BY <1>5, <1>6 DEF Book!Release
<1>8. Book!StayDays(s.in, s.out) = DaysOf(s)
  BY DEF Book!StayDays, Book!DayOf, DaysOf
<1>9. /\ CivilYear(s.in \div DAY) = From(s).year
      /\ CivilYear(s.out \div DAY) = To(s).year
  BY <1>1, CivilYearsOfStay
<1>10. /\ Book!SameYear(s.in, s.out) <=> From(s).year = To(s).year
       /\ Book!CrossYear(s.in, s.out) <=> From(s).year + 1 = To(s).year
  BY <1>9 DEF Book!SameYear, Book!CrossYear, Book!YearOf, Book!DayOf
<1> QED
  BY <1>1, <1>7, <1>8, <1>10 DEF Book!ReleaseDaysSingleYear, Book!ReleaseDaysCrossYears

(* Each step of the masks takes or gives back the days of one stay in      *)
(* Availability, under its conditions, or leaves the days as they are.     *)
THEOREM CalendarKeepsBook == Spec => KeepsBook
<1> DEFINE BookStep ==
             \E s \in (stays \ stays') \cup (stays' \ stays) :
                \/ Book!ReserveDaysSingleYear(Listing, s.in, s.out)
                \/ Book!ReserveDaysCrossYears(Listing, s.in, s.out)
                \/ Book!ReleaseDaysSingleYear(Listing, s.in, s.out)
                \/ Book!ReleaseDaysCrossYears(Listing, s.in, s.out)
<1>1. Kept /\ Kept' /\ [Next]_vars => [BookStep]_DaysTaken
  <2> SUFFICES ASSUME Kept, Kept', [Next]_vars
               PROVE  [BookStep]_DaysTaken
    OBVIOUS
  <2>1. CASE \E s \in Stays : ReserveDaysSingleYear(s) \/ ReserveDaysCrossYears(s)
    <3>1. PICK s \in Stays : Reserves(s)
      BY <2>1 DEF Reserves
    <3>2. s \in stays' \ stays
      BY <3>1, BookReserves
    <3>3. \/ Book!ReserveDaysSingleYear(Listing, s.in, s.out)
          \/ Book!ReserveDaysCrossYears(Listing, s.in, s.out)
      BY <3>1, BookReserves
    <3> QED
      BY <3>2, <3>3
  <2>2. CASE \E s \in stays : ReleaseDaysSingleYear(s) \/ ReleaseDaysCrossYears(s)
    <3>1. PICK s \in stays : Releases(s)
      BY <2>2 DEF Releases
    <3>2. s \in stays \ stays'
      BY <3>1, BookReleases
    <3>3. \/ Book!ReleaseDaysSingleYear(Listing, s.in, s.out)
          \/ Book!ReleaseDaysCrossYears(Listing, s.in, s.out)
      BY <3>1, BookReleases
    <3> QED
      BY <3>2, <3>3
  <2>3. CASE UNCHANGED vars
    <3>1. DaysTaken' = DaysTaken
      BY <2>3 DEF vars, DaysTaken
    <3> QED
      BY <3>1
  <2> QED
    BY <2>1, <2>2, <2>3 DEF Next
<1>2. Init => Book!AvailabilityInit
  BY BookAtFirst
<1> QED
  BY <1>1, <1>2, AccountsAlwaysKept, PTL DEF Spec, KeepsBook
=============================================================================
