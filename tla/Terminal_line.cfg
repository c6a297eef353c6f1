SPECIFICATION Spec
CONSTANTS
  Bytes = {13, 64, 97, 200}
  Depth = 2
  Modes = {TRUE, FALSE}
  Preloads <- SomePreloads
  PipeSize = 3
  MaxTyped = 4
INVARIANTS TypeOK NoPhantomRead EchoedAsTyped
PROPERTY LineSpec
