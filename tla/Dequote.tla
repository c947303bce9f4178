------------------------------- MODULE Dequote -------------------------------
(***************************************************************************)
(* freezer.utils.utils.dequote: a string with trailing newlines stripped  *)
(* and, when its first and last characters are the same quote, those two *)
(* removed.  A string is a sequence of characters; the result is          *)
(* [ok |-> TRUE, val |-> string] or [ok |-> FALSE] for the IndexError of  *)
(* s[0] on an empty string.                                                *)
(***************************************************************************)
EXTENDS Integers, Sequences

Quotes == {"'", "\""}

\* s.rstrip('\n'): every trailing newline removed.
RECURSIVE RstripNewline(_)
RstripNewline(s) ==
    IF s # <<>> /\ s[Len(s)] = "\n" THEN RstripNewline(SubSeq(s, 1, Len(s) - 1)) ELSE s

IndexError == [ok |-> FALSE]

\* dequote(s)
Dequote(s) ==
    LET t == RstripNewline(s)
    IN  IF t = <<>> THEN IndexError
        ELSE IF t[1] = t[Len(t)] /\ t[1] \in Quotes
        THEN [ok |-> TRUE, val |-> SubSeq(t, 2, Len(t) - 1)]
        ELSE [ok |-> TRUE, val |-> t]
=============================================================================
