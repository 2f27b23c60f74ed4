\* Two lookups of one document and nothing else to listen to; one failure.
CHECK_DEADLOCK FALSE
SPECIFICATION FairSpec
CONSTANTS
  home = home
  lookup1 = lookup1
  lookup2 = lookup2
  habits = habits
  document = document
  Listener = {lookup1, lookup2}
  Target = {document}
  TargetOf <- QueryOf
  OneShot = {lookup1, lookup2}
  First = {}
  Stored = {document}
  Refusable = {}
  MaxFailures = 1
  MaxUsers = 0
PROPERTY NeverWaitsForever
