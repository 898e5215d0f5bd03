\* One cranker; the producer appends between its fetch and its transaction.
CONSTANTS
    RingLen = 4
    EventSize = 2
    MaxSeq = 4
    MaxPop = 2
    MaxIterations = 2
    RawIterations = 20
    p1 = p1
    p2 = p2
    c1 = c1
    c2 = c2
    Participants <- MCParticipants
    Crankers <- MCOneCranker
    Blank = Blank
    Garbled = Garbled
SPECIFICATION Spec
INVARIANT CrankNeverRejected
