----------------------------- MODULE MCCalendar -----------------------------
(***************************************************************************)
(* A small instance of Calendar for TLC: days around the ends of months    *)
(* and years, in a leap year and in 2100, which is none; on two of them    *)
(* guests come or go at midnight or at noon.                               *)
(***************************************************************************)
EXTENDS Calendar

At(y, m, d) == DAY * DayNumber(CivilDate(y, m, d))
Boundaries ==
  {At(2023, 12, 30), At(2023, 12, 31), At(2023, 12, 31) + 1, At(2024, 1, 1), At(2024, 2, 28),
   At(2024, 2, 29), At(2024, 2, 29) + 1, At(2024, 3, 1), At(2024, 4, 30), At(2024, 12, 31),
   At(2025, 1, 1), At(2100, 2, 28), At(2100, 3, 1), At(2100, 3, 2)}
=============================================================================
