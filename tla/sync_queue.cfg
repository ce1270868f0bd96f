\* Changes of two nights, one invocation at a time: failures, a death, pauses, a late flush.
SPECIFICATION FairSpec
CONSTANTS
  p1 = p1  p2 = p2  i1 = i1  i2 = i2  o1 = o1  o2 = o2  f1 = f1  f2 = f2
  NoNight = NoNight
  Nights = {1, 2}
  Mutators = {p1}
  Invocations = {i1}
  Operators = {}
  FullSyncs = {}
  ProviderLimit = 2
  MaxAttempts = 2
  Outcomes = {"succeeded", "permanent", "transient", "limited"}
  Cooldown = 1
  EnqueueDelay = 1
  Pauses = TRUE
  Flushes = {3}
  MaxDeaths = 1
  MaxMinute = 3
  MaxVersion <- Changes
INVARIANTS
  NoChangeLost
PROPERTIES
  DeliveredOrReported
CHECK_DEADLOCK FALSE
