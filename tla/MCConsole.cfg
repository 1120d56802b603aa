CONSTANTS
  NUL = "NUL"
  Names <- MCNames
  UsbName <- MCUsb
  Printable <- MCPrintable
  Keys <- MCKeys
  MaxKeys = 5
  FIFO_DEPTH = 3
  RXBUF_SIZE = 4
  CMD_MAX_LEN = 4
  HISTORY_SIZE = 2
  Bits <- MCBits
  PRINTF_NTOA_BUFFER_SIZE = 9
SPECIFICATION Spec
VIEW Ahead
INVARIANTS ConsoleInv ShownIsLine
PROPERTIES ImplementsEditor
CHECK_DEADLOCK FALSE
