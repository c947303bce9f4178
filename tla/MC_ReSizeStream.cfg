\* Inputs of up to three chunks of 0..3 bytes, read sizes 1..3.
CONSTANTS
    MaxChunks = 3
    MaxChunkLen = 3
    Streams <- MCStreams
    ChunkSizes = {1, 2, 3}
SPECIFICATION Spec
\* The caller stops calling once StopIteration is raised.
CHECK_DEADLOCK FALSE
INVARIANTS
    TypeOK
    ByteConservation
PROPERTIES
    ImplementsChunkedStream
