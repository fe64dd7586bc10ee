\* The programs end: that is no deadlock.
SPECIFICATION Spec
CONSTANTS
    Circuits <- MCCircuits
    Seeds = {"s1", "s2"}
    Draw <- MCDraw
    BaseOts = 2
    GatesBeforeSend = 2
    MaxGateBytes = 3
    BufferBytes = 6
    Capacity = 1
    M = 3
    K = 2
    KeyBits <- MCKeyBits
    BaseHash <- MCBaseHash
    RowHash <- MCRowHash
    Setups <- MCSetups
    W = 2
    O = 2
    Asked = {0, 1}
    Found = {7, 8}
    numfunctions = 3
    Wires = {0, 1}
    NoWire = NoWire
    Programs <- MCPrograms
    Defaults <- MCDefaults
CHECK_DEADLOCK FALSE
INVARIANTS
    YaoTypeOK
    LockStep
    KeysAreCurrent
    OwnBytes
    KeysOfInput
    GivesProgram
    StackFits
    KeysMeet
    AnswersArrive
PROPERTY YaoEnds
