\* Two overlapping runs, two items, one at a time; two setbacks, one retry.
SPECIFICATION FairSpec
CONSTANTS
  w1 = w1  w2 = w2  i1 = i1  i2 = i2  i3 = i3
  Nobody = Nobody  Gone = Gone
  Items = {i1, i2}
  Workers = {w1, w2}
  BatchSize = 1
  MaxAttempts = 2
  MaxFinal = 2
  MaxSetbacks = 2
  MaxRetries = 1
INVARIANTS
  TypeOK CountersMatchItems SettledBeforeEffects EffectsReach CancelledRunsNothing
PROPERTIES
  SucceededStays JobEnds
CHECK_DEADLOCK FALSE
