CONSTANTS
  NFFT = 4
  HOP = 3
  NBIN = 2
  W = 3
  RampRows = 3
  Numbers = 5
  Boards <- MCBoards
  Buffers = {b1, b2, b3}
  NONE = NONE
SPECIFICATION Spec
INVARIANTS DrawsUnseen HandedBack FrameSound
PROPERTIES SignalEnds
CHECK_DEADLOCK FALSE
