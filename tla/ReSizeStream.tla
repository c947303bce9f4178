---------------------------- MODULE ReSizeStream ----------------------------
(***************************************************************************)
(* freezer.utils.utils.ReSizeStream: an iterator and file-like wrapper    *)
(* that turns a stream of chunks of arbitrary sizes into chunks of         *)
(* chunk_size.  A byte is a number, so that a lost, repeated or reordered *)
(* byte shows in the concatenation; the wrapped stream is a generator: it  *)
(* yields its chunks in order, then raises StopIteration on every call.   *)
(* One call of next() or read() is one step, its fill loop included.      *)
(***************************************************************************)
EXTENDS Integers, Sequences, SequencesExt

CONSTANTS
    Streams,      \* the inputs: sequences of chunks (sequences of bytes)
    ChunkSizes    \* the chunk sizes of the constructor and of read()

VARIABLES
    stream,       \* the wrapped generator's chunks
    pos,          \* how many of them next(self.stream) has returned
    chunkSize,    \* self.chunk_size
    reminder,     \* self.reminder
    transmitted,  \* self.transmitted
    out,          \* the chunks returned to the caller, in order
    last          \* how the last call ended: "none", "chunk" or "stop"

vars == <<stream, pos, chunkSize, reminder, transmitted, out, last>>

Exhausted(p) == p = Len(stream)

(***************************************************************************)
(* The fill loop of next(): while not stop and len(reminder) < chunk_size, *)
(* append next(self.stream), setting stop on StopIteration.  It returns   *)
(* the reminder, the stream position and stop.                            *)
(***************************************************************************)
RECURSIVE FillCountStop(_, _, _), Fill(_, _, _)

\* A mutant of Fill: the call that raised StopIteration is counted.
FillCountStop(rem, p, cs) ==
    IF Len(rem) >= cs THEN [rem |-> rem, pos |-> p, stop |-> FALSE]
    ELSE IF Exhausted(p) THEN [rem |-> rem, pos |-> p + 1, stop |-> TRUE]
    ELSE FillCountStop(rem \o stream[p + 1], p + 1, cs)

Fill(rem, p, cs) ==
    IF Len(rem) >= cs THEN [rem |-> rem, pos |-> p, stop |-> FALSE]
    ELSE IF Exhausted(p) THEN [rem |-> rem, pos |-> p, stop |-> TRUE]
    ELSE Fill(rem \o stream[p + 1], p + 1, cs)

\* Hand result to the caller and keep rest as the reminder.
Emit(result, rest) ==
    /\ reminder' = rest
    /\ transmitted' = transmitted + Len(result)
    /\ out' = Append(out, result)
    /\ last' = "chunk"

\* A mutant of Cut: the byte after the chunk is dropped.
CutSkipByte(rem, cs) == Emit(SubSeq(rem, 1, cs), SubSeq(rem, cs + 2, Len(rem)))

\* result = self.reminder[:chunk_size]; self.reminder = self.reminder[chunk_size:]
Cut(rem, cs) == Emit(SubSeq(rem, 1, cs), SubSeq(rem, cs + 1, Len(rem)))

\* A mutant of AtEnd: an empty reminder is returned instead of raising.
AtEndEmptyLast(rem) == Emit(rem, <<>>)

\* The stream raised StopIteration: raise it too when nothing is left,
\* otherwise return the whole reminder and set self.reminder = [].
AtEnd(rem) ==
    IF rem = <<>> THEN last' = "stop" /\ reminder' = rem /\ UNCHANGED <<transmitted, out>>
    ELSE Emit(rem, <<>>)

(***************************************************************************)
(* The body of next() with chunk size cs: a reminder longer than cs is    *)
(* cut; otherwise the fill loop runs, and at the end of the stream the    *)
(* whole reminder is returned, or StopIteration raised when it is empty.  *)
(***************************************************************************)
NextChunk(cs) ==
    IF Len(reminder) > cs
    THEN Cut(reminder, cs) /\ UNCHANGED pos
    ELSE LET f == Fill(reminder, pos, cs) IN
         /\ pos' = f.pos
         /\ IF f.stop THEN AtEnd(f.rem) ELSE Cut(f.rem, cs)

(***************************************************************************)
(* The caller iterates (for chunk in stream) or reads; it stops calling   *)
(* once StopIteration is raised.                                          *)
(***************************************************************************)
Next_ ==
    /\ last # "stop"
    /\ NextChunk(chunkSize)
    /\ UNCHANGED <<stream, chunkSize>>

\* read(chunk_size): set self.chunk_size, then next().
Read(cs) ==
    /\ last # "stop"
    /\ chunkSize' = cs
    /\ NextChunk(cs)
    /\ UNCHANGED stream

\* The constructor ReSizeStream(stream, length, chunk_size).
Init ==
    /\ stream \in Streams
    /\ chunkSize \in ChunkSizes
    /\ pos = 0
    /\ reminder = <<>>
    /\ transmitted = 0
    /\ out = <<>>
    /\ last = "none"

Next == Next_ \/ \E cs \in ChunkSizes : Read(cs)

\* A consumer that iterates keeps calling until StopIteration.
Spec == Init /\ [][Next]_vars /\ WF_vars(Next_)

-----------------------------------------------------------------------------
TypeOK ==
    /\ pos \in 0..Len(stream)
    /\ chunkSize \in ChunkSizes
    /\ transmitted \in Nat
    /\ last \in {"none", "chunk", "stop"}

(* Byte conservation of next() and read(): the chunks handed out, then    *)
(* the reminder, then the chunks the generator has not yet yielded, are   *)
(* exactly the input, in order, whatever mix of read sizes was used; and *)
(* transmitted counts the bytes handed out.                               *)
ByteConservation ==
    /\ FlattenSeq(out) \o reminder \o FlattenSeq(SubSeq(stream, pos + 1, Len(stream)))
         = FlattenSeq(stream)
    /\ transmitted = Len(FlattenSeq(out))

\* The abstract chunker seen through ReSizeStream: the input is the
\* concatenation of the generator's chunks, what has been handed out is
\* transmitted, and StopIteration ends the iteration.
Chunker == INSTANCE ChunkedStream
               WITH data <- FlattenSeq(stream), sent <- transmitted,
                    size <- chunkSize, ended <- (last = "stop")

(* ReSizeStream implements the chunker: whatever mix of next() and read() *)
(* calls, each call hands out exactly the next chunk_size bytes of the   *)
(* input, or all that is left when fewer remain, however the generator's *)
(* chunks cut the input and whatever the reminder holds; StopIteration   *)
(* comes only once every byte has been handed out, and never twice; and *)
(* a caller that keeps calling next() does reach StopIteration.           *)
ImplementsChunkedStream == Chunker!Spec
=============================================================================
