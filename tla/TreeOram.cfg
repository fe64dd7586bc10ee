\* Five cells, as many as a removal with a child of its successor needs; two
\* queries a request, pools of one node at a time.
CONSTANTS
    Size = 5
    Value = {0, 1}
    Zero = 0
    NotPresent = NotPresent
    Chunk = 1
SPECIFICATION Spec
CONSTRAINT OneWritten
INVARIANTS
    OramTypeOK
    SearchTrees
    PoolBounded
PROPERTY IsArray
