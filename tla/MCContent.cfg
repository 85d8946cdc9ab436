CONSTANTS
    Shared <- SharedMC
    Blocks <- BlocksMC
    Lies = {"none", "size", "root", "count", "short", "chunk", "offset"}
    MaxBlock = 1
    MaxBytes = 3
    MaxChunks = 3
    Op = {"o1", "o2"}
    Worker = {"w1", "w2"}
SPECIFICATION CtSpec
INVARIANT SharedIsServed
CHECK_DEADLOCK FALSE
