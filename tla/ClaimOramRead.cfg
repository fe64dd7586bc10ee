\* The ten cells of oram_test2: three queries a request.
CONSTANTS
    Size = 10
    Value = {0, 1}
    Zero = 0
    NotPresent = NotPresent
    Chunk = 10
SPECIFICATION OneShuffleSpec
INVARIANT ReadsBack
