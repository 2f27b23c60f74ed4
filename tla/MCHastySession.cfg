\* Two accounts on one device; taps come between any two blocks of the main queue.
CHECK_DEADLOCK FALSE
SPECIFICATION Spec
CONSTANTS
  Account = {ann, bob}
  NoUser = NoUser
  Registered = {ann}
  Name = {habit}
  Choice = {{0}, {1, 6}}
  Patient = FALSE
  MaxTaps = 6
  MaxChanges = 1
  MaxKills = 1
INVARIANT SignedOutShowsNoTabs
