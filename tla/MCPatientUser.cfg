\* One device; the user waits for the app before every tap.
CHECK_DEADLOCK FALSE
SPECIFICATION FairSpec
CONSTANTS
  Name = {1, 2, 3}
  Day = {yesterday, today}
  Today = today
  DayChoice = {all, some}
  AllDays = all
  Unset = unset
  NoForm = NoForm
  InitialHabits = {1, 2}
  Patient = TRUE
  MaxTaps = 9
  MaxRemotes = 0
  MaxKills = 1
INVARIANTS
  NoCrash
  RightHabit
  NoGhost
  ChatNamesHabit
PROPERTIES
  EstablishedKept
  EditKeepsChecks
  RenameKeepsHabit
  SaveReturnsHome
