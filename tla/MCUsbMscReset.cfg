CONSTANTS
  NumBlocks = 2
  ChunkBlocks = 1
  MaxCount = 2
  Data = {d0, d1}
  Tags = {t0, t1}
  NULL = NULL
  ReadFaults = TRUE
  WriteFaults = TRUE
  WildLba = TRUE
  Asked = {"REQUEST_SENSE", "READ10", "WRITE10"}
  Signals = {"EARLY_BOT_RESET", "RESET", "SUSPEND"}
  MaxEvents = 2
SPECIFICATION Spec
INVARIANTS OneTransferOwed ProtocolKept HostInStep
PROPERTIES ImplementsDisk
SYMMETRY Interchangeable
