\* Two sessions contend for a one-item tick: one is queued by its hook, the other,
\* which its hook waves through, by the worker's offer.
SPECIFICATION FairSpec
CONSTANTS
  c1 = c1
  x1 = x1
  w1 = w1
  Session = {c1, x1}
  Worker = {w1}
  Codex = {c1}
  Automated = {x1}
  Terse = {}
  MaxTime = 2
  MaxAttempts = 2
  QueuePerTick = 1
  MaxCrash = 0
  Faults = {}
PROPERTIES
  Drained
