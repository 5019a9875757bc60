CONSTANTS
  s = s  t = t
  SharedKey = SharedKey  NoKey = NoKey
  Requests = {s, t}
  Sends = {s, t}
  Keyed = {s, t}
  MaxRetries = 1
SPECIFICATION FairSpec
INVARIANTS QueuedAtMostOnce SuccessMeansQueued
PROPERTIES NobodyJoinsTheDrain RequestsReturn
