------------------------------ MODULE AlterProxy ------------------------------
(***************************************************************************)
(* freezer.utils.utils.alter_proxy: the proxy option is lower-cased, the  *)
(* four proxy variables python-swiftclient reads are removed from the     *)
(* environment, and then either HTTP_PROXY and HTTPS_PROXY are set to the *)
(* lower-cased value or, for a value without an http:// or https://      *)
(* scheme, an Exception is raised.  A proxy URL is a sequence of pieces   *)
(* ("http", "HTTP", "://", a host name ...) and str.lower() maps each     *)
(* piece to its lower-case form; no concatenation of the pieces spells a *)
(* scheme other than the piece sequences tested, so startswith on pieces  *)
(* is startswith on the characters.  The environment maps each variable  *)
(* to a value or to NoValue, for a key os.environ does not have.           *)
(***************************************************************************)
EXTENDS Sequences, SequencesExt

\* The variables popped: swiftclient takes both cases into account.
ProxyVars == {"http_proxy", "https_proxy", "HTTP_PROXY", "HTTPS_PROXY"}

NoValue == "unset"

\* str.lower() of one piece, and of the whole proxy value.
LowerPiece(c) ==
    CASE c = "HTTP"  -> "http"
      [] c = "HTTPS" -> "https"
      [] c = "Host"  -> "host"
      [] OTHER       -> c

Lower(s) == [i \in DOMAIN s |-> LowerPiece(s[i])]

\* proxy_value.startswith('http://') or proxy_value.startswith('https://')
KnownScheme(v) == IsPrefix(<<"http", "://">>, v) \/ IsPrefix(<<"https", "://">>, v)

\* os.environ.pop(name, None) for each of the four variables.
PopProxies(env) ==
    [n \in DOMAIN env |-> IF n \in ProxyVars THEN NoValue ELSE env[n]]

\* alter_proxy(proxy): the environment it leaves and whether it raised.
AlterProxy(env, proxy) ==
    LET v == Lower(proxy)
        e == PopProxies(env)
    IN  IF KnownScheme(v)
        THEN [raised |-> FALSE,
              env |-> [e EXCEPT !["HTTP_PROXY"] = v, !["HTTPS_PROXY"] = v]]
        ELSE [raised |-> TRUE, env |-> e]
=============================================================================
