\* Two messages share the map and the pass of UpdateMessages; two transmissions
\* each, so that a retransmission can be acknowledged twice.
\* The peer's buffers have no slots: nothing resizes them.
CONSTANTS
    m1 = m1
    m2 = m2
    Messages = {m1, m2}
    MaxRetransmit = 2
    BufferSize = 0
    Duplicates = 1
    None = None
SPECIFICATION FairSpec
INVARIANTS OutcomeOnce SuccessMeansReceived MapFollowsMessages
PROPERTIES AcknowledgedEnds
\* Once everything is settled there is nothing left to do but empty updates.
CHECK_DEADLOCK FALSE
