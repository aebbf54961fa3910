CONSTANTS
    Stub <- MCStub
    Raised = {0, 8, 14}
    Devices = {0, 3, 9}
    Words <- MCWords
    MaxDepth = 2
SPECIFICATION Spec
CHECK_DEADLOCK FALSE
INVARIANT CustomHandlerUsed
