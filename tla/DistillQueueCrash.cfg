\* One session; one process is killed between any two file operations.
SPECIFICATION FairSpec
CONSTANTS
  c1 = c1
  x1 = x1
  w1 = w1
  Session = {c1}
  Worker = {w1}
  Codex = {}
  Automated = {}
  Terse = {}
  MaxTime = 2
  MaxAttempts = 2
  QueuePerTick = 1
  MaxCrash = 1
  Faults = {"lost_ack"}
PROPERTIES
  Settled
