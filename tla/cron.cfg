SPECIFICATION FairSpec
CONSTANT MaxJobs = 3
INVARIANTS
    TypeOK
    FileIsReliable
    MisledOnlyIfTouched
PROPERTY DueIsHandled
