\* Two calls of the door and one of the engine, one failure of any kind.
SPECIFICATION FairSpec
CONSTANTS
  Door = {1, 3}
  Engine = {2}
  Note <- MCNote
  NoSession <- none
  s = s
  none = none
  MaxNumber = 3
  MaxFault = 1
  Faults = {"fail", "lost_ack", "kill", "remove"}
   
PROPERTIES NumbersGrow WrittenIsRemembered
CHECK_DEADLOCK FALSE
