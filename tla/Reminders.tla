----------------------------- MODULE Reminders -----------------------------
(***************************************************************************)
(* The pending notification requests of a list of habits.  A habit keeps   *)
(* the chosen days as an array of seven, indexed from 0; a request is      *)
(* identified by the habit's name and its weekday, and adding one again    *)
(* replaces it.                                                            *)
(***************************************************************************)
EXTENDS Naturals

DayIndex == 0 .. 6

\* The rows of the day choice.
Days == <<"Monday", "Tuesday", "Wednesday", "Thursday", "Friday", "Saturday", "Sunday">>

Row(i) == Days[i + 1]

\* The weekdays of the Gregorian calendar, which count from 1.
WeekdayName(w) ==
  <<"Sunday", "Monday", "Tuesday", "Wednesday", "Thursday", "Friday", "Saturday">>[w]

\* dateInfo.weekday
Weekday(i) == i + 1

\* setReminder, one request for every chosen day.
SetReminder(h) == {[name |-> h.name, weekday |-> Weekday(i)] : i \in h.days}

\* The habits whose reminder is switched on.
RemindersOf(list) == UNION {SetReminder(h) : h \in {g \in list : g.remind}}
=============================================================================
