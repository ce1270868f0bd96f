\* Overlapping requests and invocations in nine parts of the system.
SPECIFICATION Spec
CONSTANTS
  p1 = p1  p2 = p2  d1 = d1  d2 = d2  d3 = d3
  q1 = q1  q2 = q2  q3 = q3  f1 = f1  o1 = o1  m1 = m1  Nil = Nil
INVARIANTS
  TypeOK DisjointClaims ReservationHolds ReplacedNotInForce OneOpenDecision AccountsSound FeedSound
  CancellationAccounted ConnectionSound JobTellsInspection
PROPERTIES
  ImplementsPromise CasesAdvance
SYMMETRY Interchangeable
CHECK_DEADLOCK FALSE
