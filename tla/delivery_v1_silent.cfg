CONSTANTS
  m1 = m1  m2 = m2  m3 = m3  k1 = k1  k2 = k2
  Messages = {m1, m2, m3}
  Flushers = {f1}
  Closers = {k1}
  Deliveries <- TwoDeliveries
  None = None
  Size <- UnitSizes
  Discards = {m3}
  Unserializable = {}
  MaxMessageBytes = 9
  MaxBatchBytes = 9
  BatchSize = 2
  MaxQueueSize = 2
  MaxEnqueuedRequests = 1
  MaxAttempts = 2
  CaptureV1 = TRUE
  NonBlockingSubmit = TRUE
SPECIFICATION Spec
INVARIANT EveryOutcomeReported
