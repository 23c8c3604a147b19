SPECIFICATION FairSpec
CONSTANTS
    MaxWrites = 4
    Capacity = 3
    Targets = {t1}
INVARIANT RemoteTypeOK
INVARIANT NothingStalls
INVARIANT RepliesMatchPipeline
INVARIANT IdleStreamsAreUnneeded
INVARIANT TokensMeetTheirStart
INVARIANT TrackerAsserts
INVARIANT AckedWasCommitted
INVARIANT RejectedForCause
PROPERTY ImplementsQueue
PROPERTY WritesAreAnswered
