SPECIFICATION FairSpec
CONSTANTS
    Channel = {"p"}
    MaxProcesses = 2
PROPERTY CrashedAreRestarted
CHECK_DEADLOCK FALSE
