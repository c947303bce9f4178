--------------------------- MODULE MC_ReSizeStream ---------------------------
(***************************************************************************)
(* Every input of up to MaxChunks chunks of 0..MaxChunkLen bytes, bytes   *)
(* numbered in order, so that empty chunks, chunks longer than chunk_size *)
(* and a reminder of exactly chunk_size all occur.                        *)
(***************************************************************************)
EXTENDS ReSizeStream

CONSTANTS MaxChunks, MaxChunkLen

\* The chunks of the lengths lens, filled with the bytes 1, 2, 3, ...
Chunked(lens) ==
    [j \in 1..Len(lens) |->
        LET before == FoldLeft(+, 0, SubSeq(lens, 1, j - 1))
        IN [b \in 1..lens[j] |-> before + b]]

MCStreams == {Chunked(lens) : lens \in BoundedSeq(0..MaxChunkLen, MaxChunks)}
=============================================================================
