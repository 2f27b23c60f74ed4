----------------------------- MODULE MCHabitDays -----------------------------
(***************************************************************************)
(* Instances of HabitDays for TLC, and the tests of the streaks.           *)
(***************************************************************************)
EXTENDS CalendarScreen

T == TRUE
F == FALSE

\* testGetLongestStreak and testGetCurrentStreak of ToDooTests.
ASSUME LongestStreakTests ==
  /\ LongestStreak(<<T, F, F, T, T, T>>) = 3
  /\ LongestStreak(<<T, T, F, F, F, T, T, F, F>>) = 2
  /\ LongestStreak(<<>>) = 0

ASSUME CurrentStreakTests ==
  /\ CurrentStreak(<<T>>) = 1
  /\ CurrentStreak(<<F>>) = 0
  /\ CurrentStreak(<<T, T>>) = 2
  /\ CurrentStreak(<<F, F>>) = 0
  /\ CurrentStreak(<<T, F, F, F, T, T>>) = 2
  /\ CurrentStreak(<<T, F, F, F, F, T>>) = 1
  /\ CurrentStreak(<<T, T, F, F, F, T, T, F, F>>) = 0
  /\ CurrentStreak(<<T, T, F, F, F, T, T, T, F>>) = 3
=============================================================================
