\* Liveness, with two connections and two sockets.
CONSTANTS
    Tokens = {t1, t2}
    MaxConnections = 2
    MaxStreams = 2
    MaxMessages = 2
SPECIFICATION FairSpec
PROPERTIES
    AcceptedIsAdopted
    BufferIsFlushed
CHECK_DEADLOCK FALSE
