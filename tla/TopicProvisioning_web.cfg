SPECIFICATION FairSpec
CONSTANTS
    Channels = {"web"}
    MaxAttempts = 2
    MaxTopics = 2
    MaxCloses = 0
    MaxBinds = 0
    MaxFaults = 0
PROPERTY NextMessageCreatesTopic
