---------------------------- MODULE Availability ----------------------------
(***************************************************************************)
(* stayke-escrow, utils.rs: which days of a property are taken.            *)
(*                                                                         *)
(* The code keeps one BookingDays account per property and year, twelve    *)
(* 31-bit masks in each.  Here a property has the set of its taken days,   *)
(* counted from the epoch; a year's account is the part of the set that    *)
(* falls in that year.  Time is counted in ticks, DAY of them per 24 h.    *)
(***************************************************************************)
EXTENDS Integers

CONSTANTS
    Properties,     \* Listing accounts
    DAY,            \* ticks in 24 hours
    CalendarYear(_) \* the calendar year of a day

ASSUME AvailabilityAssumption == DAY \in Nat \ {0}

VARIABLE occupied

AvailabilityTypeOK == occupied \in [Properties -> SUBSET Nat]

AvailabilityInit == occupied = [p \in Properties |-> {}]

DayOf(t)  == t \div DAY
YearOf(t) == CalendarYear(DayOf(t))

(* The day of check-out is taken too. *)
StayDays(in, out) == DayOf(in)..DayOf(out)

SameYear(in, out)  == YearOf(in) = YearOf(out)
CrossYear(in, out) == YearOf(in) + 1 = YearOf(out)

-----------------------------------------------------------------------------
(* Mutant: a taken day is taken again. *)
ReservesTakenDays(p, days) == occupied' = [occupied EXCEPT ![p] = @ \cup days]

(* Every requested day must be free. *)
Reserve(p, days) ==
    /\ days \cap occupied[p] = {}
    /\ occupied' = [occupied EXCEPT ![p] = @ \cup days]

(* Every released day must be taken. *)
Release(p, days) ==
    /\ days \subseteq occupied[p]
    /\ occupied' = [occupied EXCEPT ![p] = @ \ days]

ReserveDaysSingleYear(p, in, out) ==
    /\ SameYear(in, out)
    /\ Reserve(p, StayDays(in, out))

ReserveDaysCrossYears(p, in, out) ==
    /\ CrossYear(in, out)
    /\ Reserve(p, StayDays(in, out))

ReleaseDaysSingleYear(p, in, out) ==
    /\ SameYear(in, out)
    /\ Release(p, StayDays(in, out))

ReleaseDaysCrossYears(p, in, out) ==
    /\ CrossYear(in, out)
    /\ Release(p, StayDays(in, out))
=============================================================================
