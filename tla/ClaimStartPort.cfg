\* The hybrid shortest path alone.
SPECIFICATION Spec
CONSTANTS
    Ran = {"hybrid_dj"}
    MilSize = 3
    W = 4
    PoolSize = 2
    NumInputs = 1
    GateCount = 2
    NumOutputs = 3
    Programs <- AllPrograms
    Nodes = 6
    Edges = 4
    MaxWeight = 40
    Inputs <- AllGraphs
    SuperNodeSize = 3
    Garbage = {0, 7}
    HybridSize = 2
    Secrets = 2
    Queries = 2
    Width = 3
    CellWords = {0, 3, 6, 7}
    Asked = {0, 1, 2, 3, 4}
    M = 2
    O = 2
    Pad = 2
    LinearSize = 3
    LinearValue <- Ints
    LinearZero = 0
    NotPresent = NotPresent
    IntHalf = 2
    DatabaseSize = 3
    NumQueries = 2
    Index <- Indices
    Value = {0, 1}
    Zero = 0
    NoAnswer = NoAnswer
    Lossy = TRUE
\* The program ends.
CHECK_DEADLOCK FALSE
INVARIANT StartIsPort
