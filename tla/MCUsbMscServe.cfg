CONSTANTS
  NumBlocks = 3
  ChunkBlocks = 2
  MaxCount = 3
  Data = {d0, d1}
  Tags = {t0, t1}
  NULL = NULL
  ReadFaults = FALSE
  WriteFaults = FALSE
  WildLba = FALSE
  Asked = {"TEST_UNIT_READY", "INQUIRY", "REQUEST_SENSE", "READ10", "WRITE10", "UNKNOWN"}
  Signals = {}
  MaxEvents = 2
SPECIFICATION FairSpec
PROPERTIES ImplementsDisk Answered
