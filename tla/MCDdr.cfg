SPECIFICATION SleepSpec
CONSTANTS
  DataBits = {0, 1, 2}
  Lines = {0, 1, 2}
  Scripts <- MCScripts
  MaxCalls = 2
  MaxNaps = 3
INVARIANTS UpOrAsleep MailInOrder WarmStartCovered
PROPERTIES Quiescent Ends
CHECK_DEADLOCK FALSE
