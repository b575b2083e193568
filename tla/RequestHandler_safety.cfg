\* Two requests may overlap; three requests, one plain message, one packet in
\* flight.  Nothing forces traffic, so the handler may stop for good.
CONSTANTS
    Timeout = 2
    MaxTime = 5
    MaxRequests = 3
    MaxMessages = 1
    MaxOutstanding = 2
    MaxInbox = 1
SPECIFICATION Spec
INVARIANTS
    TypeOK
    EveryRequestInOnePlace
    PendingHasDeadline
    ResponseNamesItsRequest
PROPERTY ImplementsAnswerOnce
CHECK_DEADLOCK FALSE
