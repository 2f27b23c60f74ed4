\* A week of one habit, in two months.
SPECIFICATION CalendarSpec
CONSTANTS
  Established = 3
  MaxDay = 9
  DaysPerMonth = 5
INVARIANTS
  ChecksInRange
  StatisticsAreRight
  ListIsOfHeader
PROPERTIES
  PastDaysKept
