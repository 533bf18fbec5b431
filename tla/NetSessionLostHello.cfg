\* The network loses one packet, the first ServerHello.  Nothing fails, no other
\* client interferes, and time waits for whatever is due or in flight.
CONSTANTS
    ClientRetransmit = 2
    ServerRetransmit = 2
    HeartbeatDelta = 0
    AckTimeout = 1
    MaxHeartbeatDelta = 2
    Evictions = 0
    Dropped = {"ServerHello"}
    Failures = FALSE
    Prompt = TRUE
    None = None
SPECIFICATION Spec
INVARIANTS LostServerHelloConnects
CHECK_DEADLOCK FALSE
