CONSTANTS
    Pusher = {"p1"}
    Taker = {"t1", "t2"}
    Closer = {"c1"}
    Capacity = 2
    MaxDropped = 1
    Item = {"i1", "i2"}
    Thread = {"b1", "b2"}
    BoxRoom = 1
    Saver = {"s1", "s2"}
    Kek = {"k1"}
    MaxFiles = 2
    MaxCrashes = 1
SPECIFICATION AbiSpec
INVARIANTS TakersWoken EndIsFinal TakenIsReturned NothingStranded SavedSurvives
PROPERTY EndReachesTakers
CHECK_DEADLOCK FALSE
