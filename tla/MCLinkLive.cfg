CONSTANTS
    Stream = {s1}
    Caller = {"a"}
    CallerOf <- MCCallerOf
    SessionsPerCaller = 1
    Sessions = 2
    InboxBytesPerCaller = 1
    InboxBytes = 2
    InboxBound = 1
    MaxRefusalDrains = 1
    Size = {1}
    NoFrame = NoFrame
    s1 = s1
    Client = {"c1", "c2"}
    MaxCalls = 3
    Window = 2
    MaxProbes = 3
SPECIFICATION LiveSpec
INVARIANTS NoLingering HeldIsRouted LostOnlyUnanswered
PROPERTIES LeavingReleases DrainsReturn LinkEndFinishes SubscribeReturns
CHECK_DEADLOCK FALSE
