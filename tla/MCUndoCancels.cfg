\* Two days of one habit: the comment on Undo does not hold after midnight.
SPECIFICATION CalendarSpec
CONSTANTS
  Established = 3
  MaxDay = 4
  DaysPerMonth = 5
INVARIANT UndoCancels
