SPECIFICATION Spec
CONSTANTS
  Modulus = 32
  MaxOverflow = 3
  SyncMin = 3
  SyncMax = 8
  NumBits = 3
  Latency = 1
  Syncs = {4, 6}
  Jitter = 1
  Gaps = {37, 64}
  Noise = {1, 5, 31, 36, 70}
INVARIANTS
  TypeOK
  OnlySentCodes
  CleanFramesReported
