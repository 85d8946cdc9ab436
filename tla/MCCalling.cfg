CONSTANTS
    Caller = {"a"}
    Node = {n1}
    AnyNode = any
    Named = {any}
    MaxKey = 2
    MaxCallsMade = 3
SPECIFICATION CallingSpec
PROPERTY RefusedKeyForgotten
CHECK_DEADLOCK FALSE
