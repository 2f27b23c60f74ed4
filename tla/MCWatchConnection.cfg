\* Home and two lookups of one document; one failure and a login.
CHECK_DEADLOCK FALSE
SPECIFICATION FairSpec
CONSTANTS
  home = home
  lookup1 = lookup1
  lookup2 = lookup2
  habits = habits
  document = document
  Listener = {home, lookup1, lookup2}
  Target = {habits, document}
  TargetOf <- QueryOf
  OneShot = {lookup1, lookup2}
  First = {home}
  Stored = {habits}
  Refusable = {habits}
  MaxFailures = 1
  MaxUsers = 1
INVARIANTS
  AssertsHold
  PendingCounts
PROPERTIES
  SyncedIsServed
  EveryListenerHears
  ComesOnline
