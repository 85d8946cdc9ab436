CONSTANTS
    Pusher = {"p1", "p2"}
    Taker = {"t1", "t2"}
    Closer = {"c1"}
    Capacity = 2
    MaxDropped = 1
SPECIFICATION Spec
INVARIANT PushersWoken
