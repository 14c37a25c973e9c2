SPECIFICATION FairSpec
CONSTANTS
    Channels = {"telegram"}
    MaxAttempts = 2
    MaxTopics = 2
    MaxCloses = 1
    MaxBinds = 0
    MaxFaults = 1
INVARIANT DoneMeansInSync
PROPERTY MessageGetsTopic
