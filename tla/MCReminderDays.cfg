\* The first login: a habit rings on other days than those chosen.
CHECK_DEADLOCK FALSE
SPECIFICATION Spec
CONSTANTS
  Account = {ann, bob}
  NoUser = NoUser
  Registered = {ann}
  Name = {habit}
  Choice = {{0}, {1, 6}}
  Patient = TRUE
  MaxTaps = 2
  MaxChanges = 0
  MaxKills = 0
INVARIANT RingsOnChosenDays
