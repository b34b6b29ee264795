\* The whole graph, with every answer of the model.
SPECIFICATION Spec
CONSTANT NoteLang = "ko"
INVARIANTS GateHolds  FiveCalls
 
CHECK_DEADLOCK FALSE
