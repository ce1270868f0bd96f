\* One run at a time, no setback: one item fails and is retried after the job has ended.
SPECIFICATION Spec
CONSTANTS
  w1 = w1  w2 = w2  i1 = i1  i2 = i2  i3 = i3
  Nobody = Nobody  Gone = Gone
  Items = {i1, i2}
  Workers = {w1}
  BatchSize = 1
  MaxAttempts = 2
  MaxFinal = 2
  MaxSetbacks = 0
  MaxRetries = 1
INVARIANTS
  EffectsFollowRules
CHECK_DEADLOCK FALSE
