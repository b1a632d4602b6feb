CONSTANT MaxRetries = 2
SPECIFICATION FairSpec
INVARIANT TypeOK
 
 
CHECK_DEADLOCK FALSE
PROPERTY SuspicionIsTold
