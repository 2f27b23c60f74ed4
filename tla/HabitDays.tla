----------------------------- MODULE HabitDays -----------------------------
(***************************************************************************)
(* One habit from day to day: what checking and undoing it does to its     *)
(* checked days, and what Detail works out from them.  Days are numbered;  *)
(* the noon that is the key of a check and the time of the check that is   *)
(* its value are of the same day, as the clock and the zone stay put.      *)
(***************************************************************************)
EXTENDS Integers, Sequences, SequencesExt, FiniteSets

CONSTANTS
  Established,   \* the day of addedDate
  MaxDay         \* bound: the last day

ASSUME DaysAssumption ==
  Established \in Nat /\ MaxDay \in Nat /\ Established <= MaxDay

VARIABLES
  today,     \* the day it is
  checked,   \* the days in the document's `checked'
  habit,     \* the habit as the list last heard of it
  news       \* whether the listener has more to hear

vars == <<today, checked, habit, news>>

\* todayStatus is worked out once, when the list is heard of.
Heard == [checkedDays |-> checked, todayStatus |-> today \in checked]

Init ==
  /\ today = Established
  /\ checked = {}
  /\ habit = Heard
  /\ news = FALSE

\* The time of the check is new, so the listener hears of it in any case.
Done ==
  /\ ~habit.todayStatus
  /\ checked' = checked \cup {today}
  /\ news' = TRUE
  /\ UNCHANGED <<today, habit>>

\* Seeded fault: the day undone is the last one checked.
UndoLastCheck ==
  /\ habit.todayStatus
  /\ checked' = {d \in checked : \E e \in checked : d < e}
  /\ news' = (news \/ checked' # checked)
  /\ UNCHANGED <<today, habit>>

\* Undo takes out the noon of the moment; if it is not there nothing changes
\* and the listener is not called.
Undo ==
  /\ habit.todayStatus
  /\ checked' = checked \ {today}
  /\ news' = (news \/ checked' # checked)
  /\ UNCHANGED <<today, habit>>

HearOfHabits ==
  /\ news
  /\ habit' = Heard
  /\ news' = FALSE
  /\ UNCHANGED <<today, checked>>

Midnight ==
  /\ today < MaxDay
  /\ today' = today + 1
  /\ UNCHANGED <<checked, habit, news>>

\* The app is launched again, or another habit changes: the list is heard of.
HearAgain ==
  /\ habit' = Heard
  /\ news' = FALSE
  /\ UNCHANGED <<today, checked>>

Next == Done \/ Undo \/ HearOfHabits \/ Midnight \/ HearAgain

Spec == Init /\ [][Next]_vars

-----------------------------------------------------------------------------
(* What Detail shows: calculateHabitInfo                                   *)

\* Seeded fault: today is not counted.
IntervalToYesterday(start, end) == end - start

\* The number of days from the first to the last, both counted.
Interval(start, end) == 1 + (end - start)

\* getIfCheckedArray: the days from the start to today, checked or not.
IfChecked(days, start) ==
  [i \in 1 .. Interval(start, today) |-> start + i - 1 \in days]

\* One turn of getLongestStreak's loop.
Count(a, v) ==
  LET cur == IF v THEN a.cur + 1 ELSE 0
  IN [cur |-> cur, max |-> IF cur > a.max THEN cur ELSE a.max]

LongestStreak(ifChecked) ==
  LET count[i \in 0 .. Len(ifChecked)] ==
        IF i = 0 THEN [cur |-> 0, max |-> 0] ELSE Count(count[i - 1], ifChecked[i])
  IN count[Len(ifChecked)].max

\* The loop back from yesterday until a day that is not checked.
StreakBack(ifChecked) ==
  LET res[i \in 0 .. Len(ifChecked) - 1] ==
        IF i = 0 \/ ~ifChecked[i] THEN 0 ELSE 1 + res[i - 1]
  IN res[Len(ifChecked) - 1]

\* Seeded fault, which the unit tests pass: the loop ends before the first day.
StreakAfterFirstDay(ifChecked) ==
  IF Len(ifChecked) = 1 THEN IF ifChecked[1] THEN 1 ELSE 0
  ELSE StreakBack(IF Len(ifChecked) = 2 THEN ifChecked ELSE Tail(ifChecked))
         + IF Last(ifChecked) THEN 1 ELSE 0

CurrentStreak(ifChecked) ==
  IF Len(ifChecked) = 1 THEN IF ifChecked[1] THEN 1 ELSE 0
  ELSE StreakBack(ifChecked) + IF Last(ifChecked) THEN 1 ELSE 0

Missed(days, start) == Len(IfChecked(days, start)) - Cardinality(days)

-----------------------------------------------------------------------------
(* Properties                                                              *)

\* Every checked day has its place in the array Detail sizes by the days since
\* the habit was established, however old the list is: no index traps.
ChecksInRange ==
  \A d \in habit.checkedDays :
    d - Established >= 0 /\ d - Established < Interval(Established, today)

\* A run of checked days.
IsRun(first, last) == \A d \in first .. last : d \in habit.checkedDays

\* The longest record is the length of the longest run of checked days.
LongestStreakIsRun ==
  LET days == Established .. today
      longest == LongestStreak(IfChecked(habit.checkedDays, Established))
  IN /\ \A a, b \in days : a <= b /\ IsRun(a, b) => b - a + 1 <= longest
     /\ longest > 0 => \E a \in days : /\ a + longest - 1 \in days
                                       /\ IsRun(a, a + longest - 1)

\* The current streak is the run up to today, or up to yesterday as long as
\* today is not checked, and the day before it is not.
CurrentStreakIsRun ==
  LET streak == CurrentStreak(IfChecked(habit.checkedDays, Established))
      last == IF today \in habit.checkedDays THEN today ELSE today - 1
  IN /\ streak \in Nat
     /\ IsRun(last - streak + 1, last)
     /\ last - streak \notin habit.checkedDays

\* The missed days are the days that are not checked, and never negative.
MissedCounts ==
  Missed(habit.checkedDays, Established)
    = Cardinality((Established .. today) \ habit.checkedDays)

\* What Detail says of a habit is what the words mean, by definitions that know
\* nothing of the loops: the longest record and the current streak are runs of
\* checked days, the missed days those not checked.
StatisticsAreRight == LongestStreakIsRun /\ CurrentStreakIsRun /\ MissedCounts

\* A row that was heard of before midnight never takes a check from, or gives
\* one to, a day that is over.
PastDaysKept ==
  [][\A d \in Established .. MaxDay :
       d # today => (d \in checked' <=> d \in checked)]_vars

\* What the comment on Undo says: if the task has been done, it can be cancelled.
\* A row that offers Undo, with nothing more to hear of, has a check to cancel.
UndoCancels == habit.todayStatus /\ ~news => today \in checked
=============================================================================
