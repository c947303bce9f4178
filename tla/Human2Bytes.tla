---------------------------- MODULE Human2Bytes -----------------------------
(***************************************************************************)
(* freezer.utils.utils.human2bytes: the size in bytes of a string such as *)
(* "10", "1.5K", "2 kibi" or "-1".  A string is a sequence of characters; *)
(* a unit word of HUMAN_2_SYMBOLS is one character, since the code only    *)
(* ever compares the whole stripped rest of the string with a unit word.  *)
(* The result is [ok |-> TRUE, val |-> bytes] or [ok |-> FALSE] for a     *)
(* ValueError, whether raised by float() or by the unit lookup.            *)
(***************************************************************************)
EXTENDS Integers, Sequences, SequencesExt

\* HUMAN_2_SYMBOLS: four systems of unit words, smallest unit first.
HUMAN_2_SYMBOLS ==
    [customary     |-> <<"B", "K", "M", "G", "T", "P", "E", "Z", "Y">>,
     customary_ext |-> <<"byte", "kilo", "mega", "giga", "tera", "peta", "exa",
                         "zetta", "iotta">>,
     iec           |-> <<"Bi", "Ki", "Mi", "Gi", "Ti", "Pi", "Ei", "Zi", "Yi">>,
     iec_ext       |-> <<"byte", "kibi", "mebi", "gibi", "tebi", "pebi", "exbi",
                         "zebi", "yobi">>]

DigitValue ==
    ("0" :> 0) @@ ("1" :> 1) @@ ("2" :> 2) @@ ("3" :> 3) @@ ("4" :> 4)
    @@ ("5" :> 5) @@ ("6" :> 6) @@ ("7" :> 7) @@ ("8" :> 8) @@ ("9" :> 9)

Digits == DOMAIN DigitValue

Whitespace == {" "}

Ok(n) == [ok |-> TRUE, val |-> n]
ValueError == [ok |-> FALSE, val |-> 0]

\* str.isdigit(): non-empty and only digits.
IsDigit(s) == s # <<>> /\ \A i \in DOMAIN s : s[i] \in Digits

\* int() of a string of digits.
IntOf(s) == FoldLeft(LAMBDA acc, c : 10 * acc + DigitValue[c], 0, s)

(***************************************************************************)
(* The loop "while s and s[0:1].isdigit() or s[0:1] == '.'": it moves the *)
(* leading digits and dots of s to num.                                    *)
(***************************************************************************)
RECURSIVE Scan(_, _)
Scan(num, s) ==
    IF s # <<>> /\ Head(s) \in Digits \cup {"."}
    THEN Scan(Append(num, Head(s)), Tail(s))
    ELSE [num |-> num, rest |-> s]

\* float(num) succeeds on digits and dots with one dot at most and one
\* digit at least ("5", "5.", ".5", "5.5").
FloatOk(num) ==
    /\ \E i \in DOMAIN num : num[i] \in Digits
    /\ Cardinality({i \in DOMAIN num : num[i] = "."}) <= 1

\* float(num) as the fraction n / 10^f.
FloatOf(num) ==
    [n |-> IntOf(SelectSeq(num, LAMBDA c : c # ".")),
     f |-> IF \E i \in DOMAIN num : num[i] = "."
           THEN Len(num) - SelectInSeq(num, LAMBDA c : c = ".")
           ELSE 0]

\* str.strip(): leading and trailing whitespace removed.
Strip(s) ==
    LET keep == {i \in DOMAIN s : s[i] \notin Whitespace}
    IN  IF keep = {} THEN <<>> ELSE SubSeq(s, Min(keep), Max(keep))

\* A mutant of Prefix: the shift is (i * 10) instead of ((i + 1) * 10).
PrefixOffByOne(sset, letter) ==
    LET j == CHOOSE k \in DOMAIN sset : sset[k] = letter
    IN  IF j = 1 THEN 1 ELSE 2^(10 * (j - 2))

\* prefix[letter] of the dictionary built from sset: 1 for sset[0], and
\* 1 << (i + 1) * 10 for the i-th word of sset[1:].
Prefix(sset, letter) ==
    LET j == CHOOSE k \in DOMAIN sset : sset[k] = letter
    IN  IF j = 1 THEN 1 ELSE 2^(10 * (j - 1))

\* int(num * prefix[letter]): the float is truncated towards zero.
Bytes(num, sset, letter) ==
    LET x == FloatOf(num)
    IN  Ok((x.n * Prefix(sset, letter)) \div 10^x.f)

(***************************************************************************)
(* human2bytes(s).  The systems are searched in the dictionary's order;   *)
(* only "byte" is in two systems, at the same place, so the order cannot  *)
(* change the result and the first system found is chosen.                 *)
(***************************************************************************)
Human2Bytes(s) ==
    IF IsDigit(s) THEN Ok(IntOf(s))
    ELSE IF s = <<"-", "1">> THEN Ok(-1)
    ELSE LET sc == Scan(<<>>, s)
             letter == Strip(sc.rest)
             systems == {n \in DOMAIN HUMAN_2_SYMBOLS :
                           Len(letter) = 1 /\ letter[1] \in Range(HUMAN_2_SYMBOLS[n])}
         IN  IF ~FloatOk(sc.num) THEN ValueError
             ELSE IF systems # {}
             THEN Bytes(sc.num, HUMAN_2_SYMBOLS[CHOOSE n \in systems : TRUE], letter[1])
             ELSE IF letter = <<"k">>
             THEN Bytes(sc.num, HUMAN_2_SYMBOLS.customary, "K")
             ELSE ValueError
=============================================================================
