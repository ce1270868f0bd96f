\* Only transient failures, with retries left.
SPECIFICATION Spec
CONSTANTS
  p1 = p1  p2 = p2  i1 = i1  i2 = i2  o1 = o1  o2 = o2  f1 = f1  f2 = f2
  NoNight = NoNight
  Nights = {1, 2}
  Mutators = {p1}
  Invocations = {i1}
  Operators = {}
  FullSyncs = {}
  ProviderLimit = 2
  MaxAttempts = 8
  Outcomes = {"succeeded", "transient"}
  Cooldown = 1
  EnqueueDelay = 1
  Pauses = FALSE
  Flushes = {}
  MaxDeaths = 0
  MaxMinute = 4
  MaxVersion <- Changes
INVARIANTS
  TransientFailuresLoseNothing
CHECK_DEADLOCK FALSE
