\* Two workers, three jobs, two channels; one fault and one button.
SPECIFICATION FairSpec
CONSTANTS
    j1 = j1
    j2 = j2
    j3 = j3
    root = root
    seq = seq
    w1 = w1
    w2 = w2
    Jobs = {j1, j2, j3}
    Workers = {w1, w2}
    None = None
    Channels = {root, seq}
    Root = root
    ChannelOf <- MCChannelOf
    Capacity <- MCCapacity
    Sequential = {seq}
    Rank <- MCRank
    Parents <- MCParents
    MaxRetries = 2
    MaxRequests = 2
    MaxFaults = 1
    MaxUserSteps = 1
INVARIANTS OneWorkerPerforms CapacityRespected
PROPERTIES  EventuallySettles
