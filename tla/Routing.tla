------------------------------ MODULE Routing -------------------------------
(***************************************************************************)
(* How the proxy decides where a request goes and with which credentials:  *)
(* resolve_proxy and the SSRF guard of crates/ferrovela-lib/src/proxy,     *)
(* ExceptionsConfig of config.rs, create_authenticator of auth/mod.rs and  *)
(* the Basic credentials of Proxy::new.                                    *)
(*                                                                         *)
(* A target is abstracted to what these functions tell apart: what its     *)
(* host is, whether it is an address the guard blocks, and how the         *)
(* exceptions list names it.                                               *)
(***************************************************************************)
Literals == {"name", "v4", "v6"}

\* "exact": the host itself.  "suffix": a pattern "*.domain" it falls under.
\* "glob": any other pattern with a wildcard that it matches.
Listings == {"no", "exact", "suffix", "glob"}

Targets ==
  {t \in [literal : Literals, private : BOOLEAN, listed : Listings] :
     /\ t.literal = "name" => ~t.private
     /\ t.listed = "suffix" => t.literal = "name"}

Config ==
  [pac      : BOOLEAN,   \* a PAC engine is loaded
   upstream : BOOLEAN,   \* upstream_proxy_url is set
   private  : BOOLEAN,   \* proxy_allow_private_ips
   auth     : {"none", "basic", "ntlm", "kerberos"},
   user     : BOOLEAN,   \* upstream_username is set
   password : BOOLEAN,   \* upstream_password is set
   keyring  : BOOLEAN,   \* upstream_use_keyring
   stored   : BOOLEAN]   \* the keychain has an entry for the user

Routes == {"direct", "static", "pac"}

-----------------------------------------------------------------------------
(***************************************************************************)
(* resolve_proxy.                                                          *)
(***************************************************************************)
\* `target.split(':').next()` is "[" for a bracketed IPv6 target, which no
\* entry of the list equals; only "*." patterns are more than exact strings.
ExceptionMatches(t) == t.literal # "v6" /\ t.listed \in {"exact", "suffix"}

\* What FindProxyForURL returns, by its first segment, or find_proxy's error.
PacAnswers == {"DIRECT", "PROXY p", "SOCKS s; PROXY p", "PROXY", "", "error"}

\* The static fallback: no upstream proxy URL means a direct connection.
StaticRoute(c) == IF c.upstream THEN "static" ELSE "direct"

\* `first[6..]` is out of bounds when the segment is exactly "PROXY".
PacPanics(a) == a = "PROXY"

\* Mutant of PacRoute: the answer is used as it is.
PacRouteUnparsed(c, a) == a
PacRoute(c, a) ==
  CASE a = "error" -> StaticRoute(c)
    [] a = "PROXY p" -> "pac"
    [] OTHER -> "direct"

\* The SSRF guard: IP literals only, names are not resolved.
IsPrivateTarget(t) == t.literal # "name" /\ t.private

Forbidden(c, t, route) == route = "direct" /\ ~c.private /\ IsPrivateTarget(t)

-----------------------------------------------------------------------------
(***************************************************************************)
(* Credentials.                                                            *)
(***************************************************************************)
\* create_authenticator looks in the keychain when the preferences hold none.
Password(c) ==
  CASE c.password -> "preferences"
    [] ~c.password /\ c.keyring /\ c.user /\ c.stored -> "keychain"
    [] OTHER -> "missing"

\* The authenticator of CONNECT tunnels; "anonymous" when there is none.
Authenticator(c) ==
  CASE c.auth \in {"basic", "ntlm"} /\ c.user /\ Password(c) # "missing" -> c.auth
    [] c.auth = "kerberos" /\ c.upstream -> "kerberos"
    [] OTHER -> "anonymous"

\* basic_auth_b64 of plain HTTP: the password of the preferences, or "".
PlainHttpPassword(c) ==
  CASE c.auth = "basic" /\ c.user /\ c.password -> "preferences"
    [] c.auth = "basic" /\ c.user /\ ~c.password -> "empty"
    [] OTHER -> "none"
=============================================================================
