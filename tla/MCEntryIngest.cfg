SPECIFICATION FairSpec
CONSTANTS
    g1 = g1
    g2 = g2
    Scheduled = {g1}
    Chunks <- MCChunks
    Other = {o1}
    Id = {1, 2}
    Ingest = {g1, g2}
    MaxQueue = 2
    Reentrant = FALSE
PROPERTIES CallsHonest EveryCallSettles
CHECK_DEADLOCK FALSE
