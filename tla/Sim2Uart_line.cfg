SPECIFICATION UartSpec
CONSTANTS
  Bytes = {10, 97}
  Depth = 2
  MayClose = TRUE
  PipeSize = 3
  MaxTyped = 4
  MaxGot = 5
INVARIANT OnlyTypedCharacters
PROPERTIES LineSafe ClosedInputIsReceived
CHECK_DEADLOCK FALSE
