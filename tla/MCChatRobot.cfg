\* Two checks, two visits to the chat, one cleaning, one killed process.
SPECIFICATION FairSpec
CONSTANTS
  MaxChecks = 2
  MaxVisits = 2
  MaxCleans = 1
  MaxBlocks = 2
  MaxKills = 1
INVARIANTS
  RobotNeverSpeaksFirst
  ChatShowsMessages
  RowsHaveMessages
PROPERTIES
  EncouragedUnlessKilled
  CleanedUnlessKilled
