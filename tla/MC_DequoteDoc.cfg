\* dequote against its docstring over every string of up to four quotes,
\* letters and newlines.
CONSTANTS
    Unset = Unset
    Inconsistent = Inconsistent
    Replicas = {a, b, c}
    Tokens = {t1, t2}
    MaxSeq = 2
    SizeChars = {"0", "1", "5", ".", "-", " ", "k", "K", "B", "Bi", "Ki", "kilo", "byte", "X"}
    MaxSizeLen = 5
    PathNames = {"x", "y"}
    FsDepth = 2
    MaxPathLen = 3
    QuoteChars = {"'", "\"", "x", "\n"}
    MaxQuoteLen = 4
    ProxyPieces = {"http", "HTTP", "https", "://", "Host", "ftp"}
    MaxProxyLen = 3
INIT Init
NEXT Next
INVARIANT DequoteMatchesDocstring
