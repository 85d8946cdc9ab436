CONSTANTS
    Stream = {s1}
    Caller = {"a"}
    CallerOf <- MCCallerOf
    SessionsPerCaller = 1
    Sessions = 2
    InboxBytesPerCaller = 1
    InboxBytes = 2
    InboxBound = 1
    MaxRefusalDrains = 1
    Size = {1}
    NoFrame = NoFrame
    s1 = s1
SPECIFICATION FairSpec
CHECK_DEADLOCK FALSE
PROPERTY OverflowReleases
