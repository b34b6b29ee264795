\* The session goes on and ends again while the worker holds it; the door's answer may be lost.
SPECIFICATION Spec
CONSTANTS
  c1 = c1
  x1 = x1
  w1 = w1
  Session = {c1}
  Worker = {w1}
  Codex = {}
  Automated = {}
  Terse = {}
  MaxTime = 2
  MaxAttempts = 2
  QueuePerTick = 1
  MaxCrash = 0
  Faults = {"overlap", "lost_ack"}
INVARIANTS
  QueuedIsReachable
