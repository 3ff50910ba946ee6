\* A full chunk, with and without the link simulator.
SPECIFICATION Spec
CONSTANTS
    MaxPayload = 4
    Seqnums = 2
    Window = {255}
    Contents <- MCContents
    Nothing = Nothing
INVARIANT
    FullChunksPass
