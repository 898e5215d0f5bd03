\* A ring whose length is a multiple of event_size: no event spans the end.
CONSTANTS
    RingLen = 4
    EventSize = 2
    MaxSeq = 5
    MaxPop = 2
    p1 = p1
    p2 = p2
    Participants <- MCParticipants
    Blank = Blank
    Garbled = Garbled
INIT EQInit
NEXT EQNext
INVARIANT TypeOK
PROPERTY DecodedQueueIsLog
