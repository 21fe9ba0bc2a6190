SPECIFICATION LimiterFairSpec
CONSTANTS
    MaxPacketID = 4
    Limits = {1, 3, 4}
    PollBatch = 2
INVARIANTS
    UsedMatchesBitmap
    NoLostWakeup
