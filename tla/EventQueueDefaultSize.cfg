\* The default account size (100_000 bytes, 98-byte events) leaves a ring of
\* 99921 bytes, not a multiple of event_size: events span the end of the ring.
CONSTANTS
    RingLen = 5
    EventSize = 2
    MaxSeq = 5
    MaxPop = 2
    p1 = p1
    p2 = p2
    Participants <- MCParticipants
    Blank = Blank
    Garbled = Garbled
INIT EQInit
NEXT EQNext
PROPERTY DecodedQueueIsLog
