\* Two events and two replays, and two failures.
SPECIFICATION FairSpec
CONSTANTS
  Event = {e1, e2}
  Replay = {r1, r2}
  Mode = {"db", "both", "spool"}
  MaxFault = 2
INVARIANTS TypeOK NothingIsLost SecondRowIsDoubtful
PROPERTIES TrappedRowsReturn
CHECK_DEADLOCK FALSE
