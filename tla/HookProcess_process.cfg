SPECIFICATION FairSpec
CONSTANTS
    Limit = 2
    Daemons = FALSE
CHECK_DEADLOCK FALSE
INVARIANTS SettledIsClean StaysBounded
PROPERTIES SettlesOnceForOneCause SettlesInTime
