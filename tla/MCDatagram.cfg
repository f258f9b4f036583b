CONSTANT MaxExpired = 5
SPECIFICATION FairDatagramSpec
INVARIANTS DatagramTypeOK RetryCycle
PROPERTY ReleasedInTheEnd
CHECK_DEADLOCK FALSE
