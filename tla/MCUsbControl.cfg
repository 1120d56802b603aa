CONSTANTS
  Requests <- MCRequests
  NONE = NONE
  MaxAbandons = 1
  LinkEvents = {"CONNECT_DONE"}
  MaxSignals = 1
SPECIFICATION Spec
INVARIANTS ReadyForSetup
PROPERTIES Answered ImplementsPipe
CHECK_DEADLOCK FALSE
