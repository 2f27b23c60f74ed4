\* One check, one killed process: the robot may stay silent.
SPECIFICATION FairSpec
CONSTANTS
  MaxChecks = 1
  MaxVisits = 1
  MaxCleans = 0
  MaxBlocks = 1
  MaxKills = 1
PROPERTY EveryCheckEncouraged
