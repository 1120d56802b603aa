CONSTANTS
  NumBlocks = 2
  MaxCount = 2
  Data = {d0, d1}
  NULL = NULL
  Faults = {"IO_SUPPLY", "CMD_LOST", "RESP_LOST", "DATA", "LINGER"}
  MaxFaults = 2
  StatusErrors = FALSE
  OpCondTries = 2
SPECIFICATION FairSpec
INVARIANTS NotWedged InitAgreesOneFault
PROPERTIES ImplementsDisk FailureExplained Returns
