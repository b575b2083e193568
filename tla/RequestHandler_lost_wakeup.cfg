\* The controller has one request out at a time, as PwController does.
CONSTANTS
    Timeout = 2
    MaxTime = 5
    MaxRequests = 2
    MaxMessages = 1
    MaxOutstanding = 1
    MaxInbox = 1
SPECIFICATION FairSpec
PROPERTY EveryRequestAnswered
CHECK_DEADLOCK FALSE
