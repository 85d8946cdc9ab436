CONSTANTS
    c1 = c1
    c2 = c2
    Conn = {c1, c2}
    Fault <- FaultsMC
    Tolerance = 1
    StatementEvery = 2
    StatementValid = 3
    ConnectBindingValid = 4
    ConnectRotateEvery = 3
    MaxTime = 5
    MaxRotations = 2
    Requests <- RequestsMC
    HomeStation = "s"
    Odd = {"none", "extra", "missing", "enum", "ext_critical", "names_another", "by_another", "seal_shape", "scheme", "renamed", "signature", "value", "envelope", "hop_critical", "ext_malformed"}
    MaxSigned = 2
    MaxNestingDepth = 2
    MaxElements = 9
    MaxFrameBytes = 14
    FrameReservedElements = 4
    IntBound = 9
    Payloads <- PayloadsMC
    Bytes = {0, 1, 2, 3, 10, 17, 24, 25, 26, 32, 33, 34, 40, 41, 48, 56, 58, 59, 60, 61}
    MaxInput = 3
    Made <- MadeMC
SPECIFICATION LinksSpec
SYMMETRY LinksSymmetry
INVARIANTS
    Agreement
    MaterialVerifies
    AnswersItsRequest
    SentIsTaken
    ServedIsGranted
CHECK_DEADLOCK FALSE
