\* Two crankers, each calling consume_orderbook_events or crank_raw, and
\* the producer, on an aligned ring of two events.
CONSTANTS
    RingLen = 4
    EventSize = 2
    MaxSeq = 3
    MaxPop = 2
    MaxIterations = 2
    RawIterations = 20
    p1 = p1
    p2 = p2
    c1 = c1
    c2 = c2
    Participants <- MCParticipants
    Crankers <- MCCrankers
    Blank = Blank
    Garbled = Garbled
SYMMETRY Symm
SPECIFICATION Spec
INVARIANT CrankTypeOK
INVARIANT RejectedOnlyIfStale
INVARIANT DedupSortedSet
PROPERTY DecodedQueueIsLog
INVARIANT CallerListReusable
