\* The background jobs: document inspection, calendar import, case reconciliation, the cache.
SPECIFICATION FairSpec
CONSTANTS
  w1 = w1  w2 = w2  s1 = s1  s2 = s2  d1 = d1  f1 = f1  Nil = Nil
PROPERTIES
  JobsSettle FeedsKeepUp PendingGetsCase CacheCatchesUp
CHECK_DEADLOCK FALSE
