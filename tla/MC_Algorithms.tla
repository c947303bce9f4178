--------------------------- MODULE MC_Algorithms ----------------------------
(***************************************************************************)
(* Checks the pure algorithms of the bundle against declarative           *)
(* references over bounded inputs: the replica election of the task       *)
(* manager (MostCurrentReplica), and freezer's human2bytes,              *)
(* get_mount_from_path, and against their docstring and comment dequote  *)
(* and alter_proxy.  A state holds one input of one of them: a candidate *)
(* list, a size string, a path on a file system with mounts, a quoted    *)
(* string, or an environment and a proxy.                                 *)
(***************************************************************************)
EXTENDS ReplicaSelector, Human2Bytes, MountPoint, Dequote, AlterProxy

CONSTANTS
    Replicas,     \* replica ids of a candidate list
    Tokens,       \* lineage tokens
    MaxSeq,       \* largest sequence number
    SizeChars,    \* the characters (and unit words) of a size string
    MaxSizeLen,   \* the longest size string
    PathNames,    \* the names of file system entries
    FsDepth,      \* the deepest entry of a file system
    MaxPathLen,   \* the most components of a path
    QuoteChars,   \* the characters of a string given to dequote
    MaxQuoteLen,  \* the longest such string
    ProxyPieces,  \* the pieces a proxy URL is made of
    MaxProxyLen   \* the most pieces of a proxy URL

VARIABLES
    cands,        \* the candidate list, <<>> when the state holds a size
    size,         \* the size string, <<>> unless the state holds one
    path,         \* the path given to get_mount_from_path
    fsys,         \* the file system it is asked of
    mounts,       \* its mount points
    quoted,       \* the string given to dequote
    environ,      \* the environment alter_proxy is called in
    proxy         \* the proxy option it is given

vars == <<cands, size, path, fsys, mounts, quoted, environ, proxy>>

Candidate == [id : Replicas, token : Tokens \cup {Unset}, seq : 0..MaxSeq]

\* Every non-empty list of candidates for distinct replicas.
CandidateLists ==
    UNION {{c \in [1..n -> Candidate] : IsInjective([k \in 1..n |-> c[k].id])}
             : n \in 1..Cardinality(Replicas)}

FsPaths == UNION {[1..n -> PathNames] : n \in 1..FsDepth}

\* Every file system whose entries all have a directory as their parent.
FileSystems ==
    {f \in [FsPaths -> {"none", "dir", "file"}] :
        \A p \in FsPaths : f[p] # "none" => KindOf(f, Dirname(p)) = "dir"}

NoFs == [p \in FsPaths |-> "none"]

\* The environment's proxy variables, no_proxy (which alter_proxy leaves
\* alone) and a proxy set before the call.
EnvVars == ProxyVars \cup {"no_proxy"}
OldProxy == <<"http", "://", "old">>
NoEnv == [n \in EnvVars |-> NoValue]

Init ==
    \/ /\ cands \in CandidateLists /\ size = <<>>
       /\ path = <<>> /\ fsys = NoFs /\ mounts = {} /\ quoted = <<>>
       /\ environ = NoEnv /\ proxy = <<>>
    \/ /\ cands = <<>> /\ size \in BoundedSeq(SizeChars, MaxSizeLen)
       /\ path = <<>> /\ fsys = NoFs /\ mounts = {} /\ quoted = <<>>
       /\ environ = NoEnv /\ proxy = <<>>
    \/ /\ cands = <<>> /\ size = <<>>
       /\ path \in BoundedSeq(PathNames \cup {".", ".."}, MaxPathLen)
       /\ fsys \in FileSystems
       /\ mounts \in SUBSET {p \in FsPaths : fsys[p] = "dir"}
       /\ quoted = <<>>
       /\ environ = NoEnv /\ proxy = <<>>
    \/ /\ cands = <<>> /\ size = <<>>
       /\ path = <<>> /\ fsys = NoFs /\ mounts = {}
       /\ quoted \in BoundedSeq(QuoteChars, MaxQuoteLen)
       /\ environ = NoEnv /\ proxy = <<>>
    \/ /\ cands = <<>> /\ size = <<>>
       /\ path = <<>> /\ fsys = NoFs /\ mounts = {} /\ quoted = <<>>
       /\ environ \in [EnvVars -> {NoValue, OldProxy}]
       /\ proxy \in BoundedSeq(ProxyPieces, MaxProxyLen)

Next == UNCHANGED vars

(* Election consistency (spec section 8, test_most_current_replica): with  *)
(* two distinct set lineages the election raises; otherwise it returns a   *)
(* candidate with a set position whenever there is one, never one whose   *)
(* sequence number is below another set position's, and among equal       *)
(* maxima the first listed; with no set position, the first candidate.    *)
ElectionConsistency ==
    cands # <<>> =>
    LET S == SetPositions(cands)
        r == MostCurrentReplica(cands)
    IN  IF \E j, k \in S : cands[j].token # cands[k].token
        THEN r = Inconsistent
        ELSE \E k \in DOMAIN cands :
               /\ r = cands[k].id
               /\ S # {} => /\ k \in S
                            /\ \A j \in S : cands[j].seq <= cands[k].seq
                            /\ \A j \in S : j < k => cands[j].seq < cands[k].seq
               /\ S = {} => k = 1

-----------------------------------------------------------------------------
(* The size format, as a grammar: a string of digits is its integer; "-1" *)
(* is -1; otherwise a numeral (digits with at most one decimal point, one *)
(* digit at least), optional spaces, one unit word ("k" for "K"), then    *)
(* optional spaces, is the numeral times 1024 to the power of the unit's  *)
(* place in its system, truncated; anything else is a ValueError.         *)
AllDigits(t) == \A i \in DOMAIN t : t[i] \in Digits

Power(u) ==
    IF u = "k" THEN 1
    ELSE CHOOSE p \in 0..8 : \E n \in DOMAIN HUMAN_2_SYMBOLS : HUMAN_2_SYMBOLS[n][p + 1] = u

UnitWords == UNION {Range(HUMAN_2_SYMBOLS[n]) : n \in DOMAIN HUMAN_2_SYMBOLS} \cup {"k"}

\* The readings of s as numeral (with its point at d, 0 for none), gap,
\* unit word at k, trailing spaces.
Readings(s) ==
    {r \in [e : 1..Len(s), d : 0..Len(s), k : 1..Len(s)] :
        LET n == SubSeq(s, 1, r.e)
            whole == IF r.d = 0 THEN n ELSE SubSeq(n, 1, r.d - 1) \o SubSeq(n, r.d + 1, r.e)
        IN  /\ r.d <= r.e /\ r.e < r.k
            /\ r.d > 0 => n[r.d] = "."
            /\ whole # <<>> /\ AllDigits(whole)
            /\ \A i \in r.e + 1 .. Len(s) : i # r.k => s[i] \in Whitespace
            /\ s[r.k] \in UnitWords}

Human2BytesSpec(s) ==
    IF s # <<>> /\ AllDigits(s) THEN Ok(IntOf(s))
    ELSE IF s = <<"-", "1">> THEN Ok(-1)
    ELSE IF Readings(s) = {} THEN ValueError
    ELSE LET r == CHOOSE x \in Readings(s) : TRUE
             n == SubSeq(s, 1, r.e)
             whole == IF r.d = 0 THEN n ELSE SubSeq(n, 1, r.d - 1) \o SubSeq(n, r.d + 1, r.e)
             frac == IF r.d = 0 THEN 0 ELSE r.e - r.d
         IN  Ok((IntOf(whole) * 1024^Power(s[r.k])) \div 10^frac)

(* human2bytes implements the size format: the scanning loop, the strip,  *)
(* the search of the unit systems with its "k" alias and the prefix       *)
(* dictionary give the grammar's value, or a ValueError exactly where the *)
(* grammar has none.                                                       *)
Human2BytesMatchesGrammar == Human2Bytes(size) = Human2BytesSpec(size)
-----------------------------------------------------------------------------
(* The mount point of a path, declared: the path is an error exactly when *)
(* some point of its text, read up to a component, is not a directory     *)
(* before the last one, or nothing at the last; otherwise the mount point *)
(* is the deepest ancestor of the normalised path (itself included) that  *)
(* is "/" or a mounted directory, and the rest of the path is what the    *)
(* normalised path has below it, "." when nothing.                        *)
MountSpec(f, ms, s) ==
    LET pt(k) == Abspath(SubSeq(s, 1, k))
        a     == Abspath(s)
        found == {j \in 0..Len(a) : SubSeq(a, 1, j) = <<>> \/
                     (SubSeq(a, 1, j) \in ms /\ KindOf(f, SubSeq(a, 1, j)) = "dir")}
        m     == SubSeq(a, 1, Max(found))
    IN  IF \/ \E k \in 0..Len(s) - 1 : KindOf(f, pt(k)) # "dir"
           \/ KindOf(f, pt(Len(s))) = "none"
        THEN IOError
        ELSE [ok |-> TRUE, mount |-> m,
              rel |-> IF m = a THEN <<".">> ELSE SubSeq(a, Len(m) + 1, Len(a))]

(* get_mount_from_path finds that mount point: the existence check on the *)
(* path as written, the walk up from its absolute form (which stops at    *)
(* the first mount, testing the path itself first) and relpath give the  *)
(* declared mount point and rest, and an IOError exactly where the path  *)
(* does not resolve.                                                       *)
MountPointMatchesSpec == GetMountFromPath(fsys, mounts, path) = MountSpec(fsys, mounts, path)
-----------------------------------------------------------------------------
(* The docstring of dequote, read as written: "If a string has single or *)
(* double quotes around it, remove them.  Make sure the pair of quotes    *)
(* match.  If a matching pair of quotes is not found, return the string   *)
(* unchanged."  Unchanged is the string the caller passed.                *)
DequoteDoc(s) ==
    IF Len(s) >= 2 /\ s[1] \in Quotes /\ s[Len(s)] = s[1]
    THEN [ok |-> TRUE, val |-> SubSeq(s, 2, Len(s) - 1)]
    ELSE [ok |-> TRUE, val |-> s]

(* dequote does what its docstring says on every string: a string with    *)
(* no matching pair of quotes (the empty string, a lone quote, a string   *)
(* with trailing newlines) comes back as it was passed.                    *)
DequoteMatchesDocstring == Dequote(quoted) = DequoteDoc(quoted)
-----------------------------------------------------------------------------
(* The comment at the top of alter_proxy: "Default case where 'proxy' key *)
(* is not set -- do nothing".  Called with the empty proxy, alter_proxy   *)
(* returns and leaves every environment variable as it was.               *)
AlterProxyDefaultDoesNothing ==
    proxy = <<>> => AlterProxy(environ, proxy) = [raised |-> FALSE, env |-> environ]
=============================================================================
