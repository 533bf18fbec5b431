\* Two transmissions of each hello, and one eviction, so that the client's hello
\* can be accepted a second time.  The timers are the least that differ.
\* Any packet may be lost, any send may fail, and time does not wait.
CONSTANTS
    ClientRetransmit = 2
    ServerRetransmit = 2
    HeartbeatDelta = 0
    AckTimeout = 1
    MaxHeartbeatDelta = 2
    Evictions = 1
    Dropped = {}
    Failures = TRUE
    Prompt = FALSE
    None = None
SPECIFICATION FairSpec
INVARIANTS CompleteMeansAgreed ReleasedMeansAcknowledged
PROPERTIES HandshakeEnds SessionsEnd
\* The server stops where it uses a ServerHello that was released.
CHECK_DEADLOCK FALSE
