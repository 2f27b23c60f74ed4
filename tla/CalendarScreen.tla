--------------------------- MODULE CalendarScreen ---------------------------
(***************************************************************************)
(* The Calendar tab over the days of a habit: the month on the screen, the *)
(* selected cell, the day named in the header and the list under it.       *)
(* They are set at different moments: the list when the tab appears, when  *)
(* a day is tapped and whenever the selected cell is drawn; the header     *)
(* only by the last two.                                                   *)
(*                                                                         *)
(* The user waits for the list of habits to be heard of before changing to *)
(* Calendar; no other device changes the habit meanwhile.                  *)
(***************************************************************************)
EXTENDS HabitDays

CONSTANT DaysPerMonth   \* bound: months are this short

ASSUME MonthAssumption == DaysPerMonth \in Nat \ {0}

VARIABLES
  tab,        \* the tab on the screen
  selected,   \* the dates whose cells are selected: none before the first load
  header,     \* selectedDate, which the first row names
  displayed,  \* the days displayedHabits has the habit for: one or none
  month,      \* the month the calendar is scrolled to
  lastMonth,  \* the last month the calendar was configured with
  redraw      \* whether reloadData is still to draw the cells

calendarVars == <<tab, selected, header, displayed, month, lastMonth, redraw>>

Day == Established .. MaxDay
Month(d) == d \div DaysPerMonth

\* The cells of a month's page: its days, and those of its neighbours that
\* fill the first and the last week, which are hidden but can be tapped.
Cells(m) == {d \in Day : \E e \in Day : Month(e) = m /\ d - e \in -6 .. 6}

\* getDisplayedHabits: the habit, if it was checked on that day.
DisplayedHabits(date) == habit.checkedDays \cap {date}

\* handleCellSelected acts on the cell of a month's own day up to today.
ActsWhenDrawn(d, m) == Month(d) = m /\ d <= today

CalendarInit ==
  /\ Init
  /\ tab = "Home"
  /\ selected = {}
  /\ header = today
  /\ displayed = {}
  /\ month = Month(today)
  /\ lastMonth = Month(today)
  /\ redraw = FALSE

\* configureCell of the cells of a page: only the selected one, if it is of
\* the page's month and not in the future, says anything.
DrawCells(dates, m) ==
  LET acting == {d \in dates : ActsWhenDrawn(d, m)}
  IN IF acting = {}
     THEN UNCHANGED <<header, displayed>>
     ELSE \E d \in acting :
            /\ header' = d
            /\ displayed' = DisplayedHabits(d)

\* Seeded fault: the calendar is not reloaded when the tab appears.
AppearWithoutReload ==
  /\ tab' = "Calendar"
  /\ displayed' = DisplayedHabits(today)
  /\ IF selected = {} THEN selected' = {today} /\ month' = Month(today)
     ELSE UNCHANGED <<selected, month>>
  /\ lastMonth' = Month(today)
  /\ UNCHANGED <<header, redraw>>

\* viewWillAppear, the first time after viewDidLoad, which selects today.
Appear ==
  /\ tab' = "Calendar"
  /\ displayed' = DisplayedHabits(today)
  /\ IF selected = {} THEN selected' = {today} /\ month' = Month(today)
     ELSE UNCHANGED <<selected, month>>
  /\ lastMonth' = Month(today)
  /\ redraw' = TRUE
  /\ UNCHANGED header

ShowCalendar ==
  /\ tab = "Home" /\ ~news
  /\ Appear
  /\ UNCHANGED vars

\* The layout after the reload, before the next event.
CellsDrawn ==
  /\ redraw
  /\ DrawCells(selected, month)
  /\ redraw' = FALSE
  /\ UNCHANGED <<vars, tab, selected, month, lastMonth>>

AtRest == tab = "Calendar" /\ ~redraw

\* A tap on a cell, which the one selected before makes room for.
SelectDate(d) ==
  /\ AtRest
  /\ d \in Cells(month) \ selected
  /\ selected' = {d}
  /\ DrawCells({d}, month)
  /\ UNCHANGED <<vars, tab, month, lastMonth, redraw>>

\* A page of another month comes in and its cells are drawn.
Scroll(m) ==
  /\ AtRest
  /\ m \in Month(Established) .. lastMonth \ {month}
  /\ month' = m
  /\ DrawCells(selected, m)
  /\ UNCHANGED <<vars, tab, selected, lastMonth, redraw>>

ShowHome ==
  /\ AtRest
  /\ tab' = "Home"
  /\ UNCHANGED <<vars, selected, header, displayed, month, lastMonth, redraw>>

\* The rows of Home can be swiped on Home only; the listener and the clock go on.
OnHome == tab = "Home" /\ (Done \/ Undo) /\ UNCHANGED calendarVars
Elsewhere == (HearOfHabits \/ HearAgain \/ Midnight) /\ UNCHANGED calendarVars

CalendarNext ==
  \/ OnHome \/ Elsewhere
  \/ ShowCalendar \/ ShowHome \/ CellsDrawn
  \/ \E d \in Day : SelectDate(d)
  \/ \E m \in Month(Established) .. Month(MaxDay) : Scroll(m)

CalendarSpec == CalendarInit /\ [][CalendarNext]_<<vars, calendarVars>>

-----------------------------------------------------------------------------
(* Properties                                                              *)

\* The header says "Today I did" and a date.  Where the selected cell can be
\* seen and is the header's day, the list under it is what was done that day,
\* although the tab always appears with the list of the present day: drawing
\* the cell has replaced it.
ListIsOfHeader ==
  AtRest /\ selected = {header} /\ Month(header) = month
    => displayed = checked \cap {header}
=============================================================================
