\* Two runs on the host and one in the container; a batch may outlive the TTL
\* and one process is killed, but not between creating and writing its lock.
SPECIFICATION FairSpec
CONSTANTS
  Run = {h1, h2, k1}
  Host = {h1, h2}
  Session = {s1}
  Limit = 1
  Gone = Gone
  NoSession = NoSession
  Overrun = TRUE
  GapCrash = FALSE
  MaxCrash = 1
INVARIANTS
  Exclusive

  
