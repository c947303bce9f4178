--------------------------- MODULE ChunkedStream ----------------------------
(***************************************************************************)
(* What a re-chunking stream promises its caller, with no buffering in    *)
(* sight: the input is handed out in order, each call taking the next     *)
(* chunk of the current chunk size, or what is left when that is less;     *)
(* once everything is handed out the next call ends the iteration.  A     *)
(* call may first change the chunk size.                                   *)
(***************************************************************************)
EXTENDS Integers, Sequences

CONSTANTS ChunkSizes

VARIABLES
    data,     \* the whole input, concatenated
    sent,     \* how much of it has been handed out
    size,     \* the current chunk size
    out,      \* the chunks handed out, in order
    ended     \* the iteration has ended

vars == <<data, sent, size, out, ended>>

\* Hand out the next chunk of at most cs items.
Take(cs) ==
    LET upto == IF sent + cs < Len(data) THEN sent + cs ELSE Len(data)
    IN  /\ sent < Len(data)
        /\ out' = Append(out, SubSeq(data, sent + 1, upto))
        /\ sent' = upto
        /\ UNCHANGED ended

\* Nothing is left: the call ends the iteration.
Finish ==
    /\ sent = Len(data)
    /\ ended' = TRUE
    /\ UNCHANGED <<sent, out>>

\* A call with the current chunk size.
Get ==
    /\ ~ended
    /\ Take(size) \/ Finish
    /\ UNCHANGED <<data, size>>

\* A call that first sets the chunk size to cs.
GetSized(cs) ==
    /\ ~ended
    /\ size' = cs
    /\ Take(cs) \/ Finish
    /\ UNCHANGED data

Init ==
    /\ data \in Seq(Nat)
    /\ sent = 0
    /\ size \in ChunkSizes
    /\ out = <<>>
    /\ ended = FALSE

Next == Get \/ \E cs \in ChunkSizes : GetSized(cs)

\* A caller that iterates keeps calling until the iteration ends.
Spec == Init /\ [][Next]_vars /\ WF_vars(Get)
=============================================================================
