\* The loop of the code: iterations 0 to 7.  The wait really ends.
SPECIFICATION FairSpec
CONSTANT LastIteration = 7
INVARIANTS TypeOK PromiseIsTrue
PROPERTY WaitEnds
CHECK_DEADLOCK FALSE
