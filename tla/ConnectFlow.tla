---------------------------- MODULE ConnectFlow -----------------------------
(***************************************************************************)
(* One CONNECT request through the proxy, crates/ferrovela-lib/src/proxy/  *)
(* mod.rs: ConnectResponder decides the route, applies the SSRF guard and  *)
(* answers the client; then ConnectHandler, on the upgraded connection,    *)
(* reaches the target or the upstream proxy and copies bytes both ways.    *)
(*                                                                         *)
(* find_proxy is an await that returns one of PacAnswers (PacEngine shows  *)
(* that it returns); the handshake with an upstream proxy is what          *)
(* ConnectService allows (AuthTunnel implements it).                       *)
(***************************************************************************)
EXTENDS Integers, Routing

CONSTANTS
  Configs,      \* configurations to consider
  MaxAttempts,  \* CONNECT requests of an authenticated handshake
  MaxData       \* bytes either end sends

ASSUME ConstantsAssumption ==
  /\ Configs \subseteq Config
  /\ MaxAttempts \in Nat \ {0}
  /\ MaxData \in Nat

VARIABLES
  cfg, target,       \* the configuration and the request, chosen once
  authority,         \* does the request URI have an authority?
  phase,             \* where the request is
  reply,             \* what the client has been answered
  route,             \* ConnectRouting.proxy_addr: a route, or "unset"
  pacSaid,           \* what find_proxy returned (history)
  peer,              \* the end the client's bytes are copied to
  verdict, granted, attempts, misled,   \* the handshake, as in ConnectService
  upIn, upOut,       \* client bytes: waiting to be copied, and copied
  downIn, downOut,   \* the peer's bytes
  taken,             \* those read_http_headers has read with the 200, and dropped
  clientEof, peerEof,      \* has that end finished sending?
  upShut, downShut         \* has copy_bidirectional passed that on?

request   == <<cfg, target, authority>>
decision  == <<reply, route, pacSaid>>
handshake == <<verdict, granted, attempts, misled>>
copied    == <<upOut, downOut, upShut, downShut>>
pending   == <<upIn, downIn, taken>>
ends      == <<clientEof, peerEof>>
vars == <<request, phase, decision, peer, handshake, copied, pending, ends>>

Phases == {"received", "resolving", "upgraded", "dialing", "handshake", "spliced", "done", "broken"}

\* An invariant of the data each variable holds.
TypeOK ==
  /\ cfg \in Configs /\ target \in Targets /\ authority \in BOOLEAN
  /\ phase \in Phases
  /\ reply \in {"none", "200", "400", "403", "reset"}
  /\ route \in Routes \cup {"unset"}
  /\ pacSaid \in PacAnswers \cup {"nothing"}
  /\ peer \in {"none", "target", "static", "pac"}
  /\ verdict \in {"pending", "established", "failed"}
  /\ granted \in BOOLEAN /\ attempts \in 0..MaxAttempts /\ misled \in BOOLEAN
  /\ {upIn, upOut, downIn, downOut, taken} \subseteq 0..MaxData
  /\ {clientEof, peerEof, upShut, downShut} \subseteq BOOLEAN

Service == INSTANCE ConnectService

Init ==
  /\ cfg \in Configs /\ target \in Targets /\ authority \in BOOLEAN
  /\ phase = "received"
  /\ reply = "none" /\ route = "unset" /\ pacSaid = "nothing"
  /\ peer = "none"
  /\ Service!Init
  /\ upIn = 0 /\ upOut = 0 /\ downIn = 0 /\ downOut = 0 /\ taken = 0
  /\ clientEof = FALSE /\ peerEof = FALSE /\ upShut = FALSE /\ downShut = FALSE

-----------------------------------------------------------------------------
(***************************************************************************)
(* ConnectResponder.                                                       *)
(***************************************************************************)
Finish(answer) ==
  /\ phase' = "done"
  /\ reply' = answer

MissingAuthority ==
  /\ phase = "received"
  /\ ~authority
  /\ Finish("400")
  /\ UNCHANGED <<request, route, pacSaid, peer, handshake, copied, pending, ends>>

\* Mutant of Guarded: the guard is skipped for routes the PAC file chose.
GuardedIfStatic(r) == Forbidden(cfg, target, r) /\ ~cfg.pac
Guarded(r) == Forbidden(cfg, target, r)

\* The guard, then the answer to the client with the routing decision attached.
Respond(r) ==
  \/ /\ Guarded(r)
     /\ Finish("403")
     /\ UNCHANGED route
  \/ /\ ~Guarded(r)
     /\ phase' = "upgraded"
     /\ reply' = "200"
     /\ route' = r

\* Mutant of Excepted: the list is consulted only when no PAC file is loaded.
ExceptedWithoutPac == ExceptionMatches(target) /\ ~cfg.pac
Excepted == ExceptionMatches(target)

ResolveWithoutPac ==
  /\ phase = "received"
  /\ authority
  /\ \/ Excepted /\ Respond("direct")
     \/ ~Excepted /\ ~cfg.pac /\ Respond(StaticRoute(cfg))
  /\ UNCHANGED <<request, pacSaid, peer, handshake, copied, pending, ends>>

AskPac ==
  /\ phase = "received"
  /\ authority
  /\ ~Excepted
  /\ cfg.pac
  /\ phase' = "resolving"
  /\ UNCHANGED <<request, decision, peer, handshake, copied, pending, ends>>

PacReturns ==
  /\ phase = "resolving"
  /\ \E a \in PacAnswers :
       /\ pacSaid' = a
       /\ \/ PacPanics(a) /\ Finish("reset") /\ UNCHANGED route
          \/ ~PacPanics(a) /\ Respond(PacRoute(cfg, a))
  /\ UNCHANGED <<request, peer, handshake, copied, pending, ends>>

\* The client disconnects while find_proxy is awaited: the future is dropped.
ClientLeaves ==
  /\ phase = "resolving"
  /\ Finish("none")
  /\ UNCHANGED <<request, route, pacSaid, peer, handshake, copied, pending, ends>>

-----------------------------------------------------------------------------
(***************************************************************************)
(* ConnectHandler.                                                         *)
(***************************************************************************)
Handler == IF route = "direct" THEN "dialing" ELSE "handshake"

StartHandler ==
  /\ phase = "upgraded"
  /\ phase' = Handler
  /\ UNCHANGED <<request, decision, peer, handshake, copied, pending, ends>>

\* Mutant of AfterFailedDial: the handler starts over.
StartOver == "upgraded"
AfterFailedDial == "done"

DialTarget ==
  /\ phase = "dialing"
  /\ \/ phase' = "spliced" /\ peer' = "target"
     \/ phase' = AfterFailedDial /\ UNCHANGED peer
  /\ UNCHANGED <<request, decision, handshake, copied, pending, ends>>

\* Without an authenticator the handler sends one CONNECT and no more.
SendConnect ==
  /\ phase = "handshake"
  /\ Authenticator(cfg) = "anonymous" => attempts = 0
  /\ Service!Attempt
  /\ UNCHANGED <<request, phase, decision, peer, copied, pending, ends>>

ProxyGrants ==
  /\ Service!Grant
  /\ UNCHANGED <<request, phase, decision, peer, copied, pending, ends>>

ProxyMisleads ==
  /\ Service!Mislead
  /\ UNCHANGED <<request, phase, decision, peer, copied, pending, ends>>

\* The read that completes the headers of the 200 may have taken any number of
\* the tunnel's first bytes; the header buffer is dropped with them.
Established ==
  /\ phase = "handshake"
  /\ Service!Establish
  /\ phase' = "spliced"
  /\ peer' = route
  /\ \E n \in 0..downIn : downIn' = downIn - n /\ taken' = taken + n
  /\ UNCHANGED <<request, decision, copied, upIn, ends>>

\* The error is logged and the upgraded connection dropped.
HandshakeFails ==
  /\ phase = "handshake"
  /\ Service!GiveUp
  /\ phase' = "done"
  /\ UNCHANGED <<request, decision, peer, copied, pending, ends>>

-----------------------------------------------------------------------------
(***************************************************************************)
(* The two ends, and copy_bidirectional between them.                      *)
(***************************************************************************)
\* The client may send as soon as it has its 200.
ClientSends ==
  /\ reply = "200" /\ phase \notin {"done", "broken"} /\ ~clientEof
  /\ upIn + upOut < MaxData
  /\ upIn' = upIn + 1
  /\ UNCHANGED <<request, phase, decision, peer, handshake, copied, downIn, taken, ends>>

ClientEnds ==
  /\ reply = "200" /\ phase \notin {"done", "broken"} /\ ~clientEof
  /\ clientEof' = TRUE
  /\ UNCHANGED <<request, phase, decision, peer, handshake, copied, pending, peerEof>>

\* The other end may send as soon as there is a connection to it: through an
\* upstream proxy that is when the proxy grants the tunnel.
Connected == phase = "spliced" \/ (phase = "handshake" /\ granted)

PeerSends ==
  /\ Connected /\ ~peerEof
  /\ downIn + downOut + taken < MaxData
  /\ downIn' = downIn + 1
  /\ UNCHANGED <<request, phase, decision, peer, handshake, copied, upIn, taken, ends>>

PeerEnds ==
  /\ Connected /\ ~peerEof
  /\ peerEof' = TRUE
  /\ UNCHANGED <<request, phase, decision, peer, handshake, copied, pending, clientEof>>

CopyUp ==
  /\ phase = "spliced" /\ ~upShut /\ upIn > 0
  /\ upOut' = upOut + upIn
  /\ upIn' = 0
  /\ UNCHANGED <<request, phase, decision, peer, handshake, downOut, upShut, downShut, downIn, taken, ends>>

CopyDown ==
  /\ phase = "spliced" /\ ~downShut /\ downIn > 0
  /\ downOut' = downOut + downIn
  /\ downIn' = 0
  /\ UNCHANGED <<request, phase, decision, peer, handshake, upOut, upShut, downShut, upIn, taken, ends>>

Drained(eof, in) == eof /\ in = 0

ShutUp ==
  /\ phase = "spliced" /\ ~upShut /\ Drained(clientEof, upIn)
  /\ upShut' = TRUE
  /\ UNCHANGED <<request, phase, decision, peer, handshake, upOut, downOut, downShut, pending, ends>>

ShutDown ==
  /\ phase = "spliced" /\ ~downShut /\ Drained(peerEof, downIn)
  /\ downShut' = TRUE
  /\ UNCHANGED <<request, phase, decision, peer, handshake, upOut, downOut, upShut, pending, ends>>

\* Mutant of BothShut: the tunnel ends with the first direction that ends.
EitherShut == upShut \/ downShut

\* Mutant of BothShut: only an error ends the tunnel.
RunsUntilError == FALSE
BothShut == upShut /\ downShut

CloseTunnel ==
  /\ phase = "spliced" /\ BothShut
  /\ phase' = "done"
  /\ UNCHANGED <<request, decision, peer, handshake, copied, pending, ends>>

\* A read or write error on either side ends both directions at once.
TunnelBreaks ==
  /\ phase = "spliced"
  /\ phase' = "broken"
  /\ UNCHANGED <<request, decision, peer, handshake, copied, pending, ends>>

-----------------------------------------------------------------------------
Respondent == MissingAuthority \/ ResolveWithoutPac \/ AskPac \/ PacReturns
Upgraded == StartHandler \/ DialTarget \/ SendConnect \/ Established \/ HandshakeFails
Copy == CopyUp \/ CopyDown \/ ShutUp \/ ShutDown \/ CloseTunnel
Environment ==
  \/ ClientLeaves \/ ProxyGrants \/ ProxyMisleads \/ ClientSends \/ ClientEnds
  \/ PeerSends \/ PeerEnds \/ TunnelBreaks

Next == Respondent \/ Upgraded \/ Copy \/ Environment

Spec == Init /\ [][Next]_vars

\* The tasks run; a dial and a handshake end (HandshakeFails once a proxy that
\* never answers is gone), and find_proxy returns, as PacEngine shows.
FairSpec == Spec /\ WF_vars(Respondent) /\ WF_vars(Upgraded) /\ WF_vars(HandshakeFails)
                 /\ WF_vars(Copy)

-----------------------------------------------------------------------------
(***************************************************************************)
(* Properties.                                                             *)
(***************************************************************************)
\* The SSRF guard is evaluated when the client is answered, the connection made
\* later by another task: no tunnel to a private address comes of it.
NoPrivatePeer == peer = "target" => cfg.private \/ ~IsPrivateTarget(target)

\* A tunnel ends where the configuration says: a host that ExceptionMatches
\* recognises is reached directly whatever the PAC file says, the PAC answer
\* outranks the static proxy, which serves only when there is no PAC file or when
\* it fails.  ExceptionMatches recognises names equal to an entry and entries that
\* start with "*."; an IPv6 address in brackets or another glob in the list is not
\* recognised, and such a target may well go to the proxy.
RoutePriority ==
  /\ peer # "none" /\ ExceptionMatches(target) => peer = "target"
  /\ peer = "static" /\ cfg.pac => pacSaid = "error"
  /\ peer = "pac" => pacSaid = "PROXY p"
  /\ peer = "target" => \/ ExceptionMatches(target)
                        \/ pacSaid \in PacAnswers \ {"error", "PROXY p", "PROXY"}
                        \/ ~cfg.upstream

\* mod.rs:63-64: a refused request does not proceed to the upgrade.
RefusedIsNotUpgraded ==
  reply \in {"400", "403"} => phase = "done" /\ route = "unset" /\ attempts = 0

\* A tunnel that ends without an error has delivered everything both ends sent,
\* including what one end sent after the other had finished sending, except what
\* read_http_headers took with the 200 of an upstream proxy: that is lost.  A
\* direct tunnel loses nothing.
OrderlyCloseDelivers ==
  phase = "done" /\ peer # "none" =>
    /\ upIn = 0 /\ downIn = 0
    /\ peer = "target" => taken = 0

\* Every CONNECT is answered and either spliced or dropped.
Settles == <>(phase \in {"spliced", "done"})

\* A tunnel both of whose ends have finished sending is released.
Released == (phase = "spliced" /\ clientEof /\ peerEof) ~> phase \in {"done", "broken"}
=============================================================================
