\* Two accounts on one device; the user waits for the app before every tap.
CHECK_DEADLOCK FALSE
SPECIFICATION ProfileFairSpec
CONSTANTS
  Account = {ann, bob}
  NoUser = NoUser
  Registered = {ann}
  Name = {habit}
  Choice = {{1, 6}}
  Patient = TRUE
  MaxTaps = 8
  MaxChanges = 1
  MaxKills = 1
  None = None
  Nickname = {kate}
  Picture = {photo, poster}
  Large = {poster}
  MaxEvents = 1
INVARIANTS
  PageIsUsers
  RemindersAreUsers
  ProfileIsUsers
  RegisteredWhole
PROPERTIES
  LoginSettles
  DefaultsReplaceNothing
