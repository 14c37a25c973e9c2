SPECIFICATION Spec
CONSTANTS
    Channels = {"telegram"}
    MaxAttempts = 2
    MaxTopics = 2
    MaxCloses = 1
    MaxBinds = 0
    MaxFaults = 0
INVARIANT NoAutomaticRetry
