\* Two devices, one habit, two writes, one lost connection or restart.
CHECK_DEADLOCK FALSE
SPECIFICATION FairSpec
CONSTANTS
  Device = {phone, tablet}
  Name = {run}
  Day = {today}
  Form = {plain}
  NoForm = NoForm
  MaxPipeline = 2
  WatchWindow = 1
  MaxWrites = 2
  MaxFailures = 1
INVARIANTS
  AnswersMatchQueue
  CallbacksNameQueuedWrites
  CacheCoherent
PROPERTIES
  CacheAdvances
  NoFlicker
  KeepsWriteLog
  EveryWriteResolves
  Converges
