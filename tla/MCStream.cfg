CONSTANTS
    Letters = {"a", "b", "c"}
    Surrogates <- MCSurrogates
    Indices = {0}
    MaxChunk = 3
    MaxLetters = 6
    EndOfJson = "c"
    NONE = NONE
SPECIFICATION Spec
INVARIANTS TypeOK CutsDoNotShow
PROPERTIES ShownByTheStop
