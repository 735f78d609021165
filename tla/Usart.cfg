SPECIFICATION UsartSpec
CONSTANTS
  Size = 2
  MaxLen = 3
  MaxBytes = 4
  LineSize = 2
  CountModulus = 5
INVARIANTS
  UsartTypeOK
  TransmitterOwnsItsChunk
  ReceiverListens
  InputBufferKept
  HandlerReturns
PROPERTIES
  ImplementsFifo
  Drains
  SenderGetsOn
