CONSTANTS
    Request = {"a1", "a1x", "a2", "b1", "c1"}
    StreamOpens = {"c1"}
    Caller = {"a", "b", "c"}
    RequestId = {1, 2}
    Share = {s1, s2}
    Receiver = {p1, p2}
    CallerOf <- MCCallerOf
    IdOf <- MCIdOf
    Deadline <- MCDeadline
    ShareOf <- MCShareOf
    Past = 1
    Ahead = 1
    Kept = 1
    CallerQuota = 1
    ShareLimit = 2
    Cap = 2
    ReplyBytes = 1
    ReplyBytesTotal = 1
    MaxReplyLen = 1
    MaxClock = 2
    p1 = p1
    p2 = p2
    s1 = s1
    s2 = s2
    NoEntry = NoEntry
    NoReply = NoReply
    Idle = Idle
SPECIFICATION Spec
INVARIANT RunsOnce
