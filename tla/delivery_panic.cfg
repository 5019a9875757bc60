CONSTANTS
  m1 = m1  m2 = m2  m3 = m3  m4 = m4  k1 = k1  k2 = k2
  Messages = {m1, m2, m3, m4}
  Flushers = {}
  Closers = {k1, k2}
  Deliveries <- ThreeDeliveries
  None = None
  Size <- MixedSizes
  Discards = {}
  Unserializable = {}
  MaxMessageBytes = 3
  MaxBatchBytes = 3
  BatchSize = 2
  MaxQueueSize = 2
  MaxEnqueuedRequests = 1
  MaxAttempts = 1
  CaptureV1 = TRUE
  NonBlockingSubmit = FALSE
SPECIFICATION PanicSpec
SYMMETRY Symmetry
INVARIANTS NothingLost
