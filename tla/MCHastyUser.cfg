\* The user taps at any moment, and another device changes the habits.
CHECK_DEADLOCK FALSE
SPECIFICATION FairSpec
CONSTANTS
  Name = {1, 2}
  Day = {today}
  Today = today
  DayChoice = {all, some}
  AllDays = all
  Unset = unset
  NoForm = NoForm
  InitialHabits = {1}
  Patient = FALSE
  MaxTaps = 5
  MaxRemotes = 1
  MaxKills = 0
INVARIANT HomeNeverPopped
PROPERTIES
  HomeShowsHabits
