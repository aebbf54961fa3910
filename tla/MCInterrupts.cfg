CONSTANTS
    Stub <- MCStub
    Raised = {0, 8, 14}
    Devices = {0, 3, 9}
    Words <- MCWords
    MaxDepth = 2
SPECIFICATION FairSpec
INVARIANT TypeOK
INVARIANT GatesReady
INVARIANT NoNesting
INVARIANT MasterInService
INVARIANT ReturnsWhereInterrupted
PROPERTY TimerTaken
CHECK_DEADLOCK FALSE
