\* The socket may fail twice: once while the first failure is being repaired.
\* It may also be closed for good: the system stops there.
SPECIFICATION FairSpec
CONSTANTS
  Requests = {r1, r2}
  Events = {e1}
  MaxDrops = 2
INVARIANTS TypeOK WaitingIsKept ListeningSurvives
PROPERTY WaitingEnds
CHECK_DEADLOCK FALSE
