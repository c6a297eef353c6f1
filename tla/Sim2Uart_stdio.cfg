SPECIFICATION UartSpec
CONSTANTS
  Bytes = {10, 97}
  Depth = 2
  MayClose = FALSE
  PipeSize = 3
  MaxTyped = 4
  MaxGot = 4
PROPERTY TypedIsReceived
