SPECIFICATION Spec
CONSTANTS
    Bits <- MCBits
    Low = "lo"
    Wires = {0, 1, 2, 3, 4}
    Setups <- MCSetups
    KDF <- MCKDF
    Draws <- MCDraws
INVARIANTS InStep Decodable
PROPERTIES ImplementsClear
CHECK_DEADLOCK FALSE
