\* Hooks, sessions and worker keep off each other's session.
SPECIFICATION Spec
CONSTANTS
  c1 = c1
  x1 = x1
  w1 = w1
  Session = {c1, x1}
  Worker = {w1}
  Codex = {}
  Automated = {}
  Terse = {x1}
  MaxTime = 3
  MaxAttempts = 2
  QueuePerTick = 2
  MaxCrash = 0
  Faults = {}
INVARIANTS
  TypeOK
  
  QueuedWillLand
  BuriedStaysBuried
  MarkersAgree
