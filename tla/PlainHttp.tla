----------------------------- MODULE PlainHttp ------------------------------
(***************************************************************************)
(* One plain (non-CONNECT) HTTP request through the proxy,                 *)
(* plain_http_handler and its helpers in crates/ferrovela-lib/src/proxy/   *)
(* mod.rs: route, guard, dial, write the request head, read until the      *)
(* server closes, and turn what was read into a response.                  *)
(*                                                                         *)
(* The server (the target, or the upstream proxy that answers for it) is   *)
(* outside the repository: it answers piece by piece, perhaps before it    *)
(* has the whole request, and may close or reset the connection at any     *)
(* point.  The client may leave at any point.                              *)
(*                                                                         *)
(* What the server sends is a sequence of cells: a status line, the fields *)
(* of a head, the blank line that ends it, and the cells of a body: data,  *)
(* and chunk sizes if the body is chunked.  A "continue" is the status     *)
(* line of an interim (1xx) response.  parse_raw_response keeps the first  *)
(* status line and all that follows the first blank line, and drops every  *)
(* header field, those that say how the body is framed included.           *)
(***************************************************************************)
EXTENDS Integers, Sequences, Routing

CONSTANTS
  Configs,   \* configurations to consider
  MaxBody    \* data cells of a response body

ASSUME ConstantsAssumption ==
  /\ Configs \subseteq Config
  /\ MaxBody \in Nat

VARIABLES
  cfg, target,   \* the configuration and the target, chosen once
  host,          \* does the request URI have a host?
  page,          \* what the server means to answer with
  phase,         \* where the handler is
  route,         \* what resolve_proxy returned, or "unset"
  peer,          \* the end it has connected to
  auth,          \* password of the Proxy-Authorization written, or "none"
  server,        \* "open", "closed" or "reset"
  sent, got,     \* cells of the response it has sent, and that were read
  reply,         \* the status handed back for the client
  replyBody      \* the body it is given

request  == <<cfg, target, host, page>>
answer   == <<reply, replyBody>>
outgoing == <<route, peer, auth>>
serving  == <<server, sent>>
vars == <<request, phase, outgoing, serving, got, answer>>

Pages == [interim : BOOLEAN, chunked : BOOLEAN, body : 0..MaxBody]

\* The response on the wire: its head, and what comes behind the first head.
Continue == <<"continue", "blank">>
Final == <<"status", "header", "blank">>

Body(p) ==
  IF p.chunked THEN [i \in 1..(2 * p.body + 1) |-> IF i % 2 = 0 THEN "data" ELSE "size"]
               ELSE [i \in 1..p.body |-> "data"]

FirstHead(p) == IF p.interim THEN Continue ELSE Final
Behind(p) == IF p.interim THEN Final \o Body(p) ELSE Body(p)
Wire(p) == FirstHead(p) \o Behind(p)

Cells == {"continue", "status", "header", "blank", "size", "data"}
Phases == {"received", "resolving", "dialing", "writing", "reading", "done"}

\* An invariant of the data each variable holds.
TypeOK ==
  /\ cfg \in Configs /\ target \in Targets /\ host \in BOOLEAN
  /\ phase \in Phases
  /\ route \in Routes \cup {"unset"}
  /\ peer \in Routes \cup {"none"}
  /\ auth \in {"none", "preferences", "empty"}
  /\ page \in Pages
  /\ server \in {"open", "closed", "reset"}
  /\ {sent, got} \subseteq 0..Len(Wire(page))
  /\ reply \in {"none", "400", "403", "502", "status", "continue", "reset"}
  /\ replyBody \in Seq(Cells)
  /\ Len(replyBody) <= Len(Behind(page))

Init ==
  /\ cfg \in Configs /\ target \in Targets /\ host \in BOOLEAN
  /\ page \in Pages
  /\ phase = "received"
  /\ route = "unset" /\ peer = "none" /\ auth = "none"
  /\ server = "open" /\ sent = 0 /\ got = 0
  /\ reply = "none" /\ replyBody = <<>>

-----------------------------------------------------------------------------
Finish(r, body) ==
  /\ phase' = "done"
  /\ reply' = r
  /\ replyBody' = body

NoHost ==
  /\ phase = "received"
  /\ ~host
  /\ Finish("400", <<>>)
  /\ UNCHANGED <<request, outgoing, serving, got>>

Guarded(r) == Forbidden(cfg, target, r)

Take(r) ==
  \/ Guarded(r) /\ Finish("403", <<>>) /\ UNCHANGED outgoing
  \/ ~Guarded(r) /\ phase' = "dialing" /\ route' = r /\ UNCHANGED <<answer, peer, auth>>

ResolveWithoutPac ==
  /\ phase = "received"
  /\ host
  /\ \/ ExceptionMatches(target) /\ Take("direct")
     \/ ~ExceptionMatches(target) /\ ~cfg.pac /\ Take(StaticRoute(cfg))
  /\ UNCHANGED <<request, serving, got>>

AskPac ==
  /\ phase = "received"
  /\ host
  /\ ~ExceptionMatches(target)
  /\ cfg.pac
  /\ phase' = "resolving"
  /\ UNCHANGED <<request, outgoing, serving, got, answer>>

PacReturns ==
  /\ phase = "resolving"
  /\ \E a \in PacAnswers :
       \/ PacPanics(a) /\ Finish("reset", <<>>) /\ UNCHANGED outgoing
       \/ ~PacPanics(a) /\ Take(PacRoute(cfg, a))
  /\ UNCHANGED <<request, serving, got>>

\* TcpStream::connect to the upstream proxy or to the target.
Dial ==
  /\ phase = "dialing"
  /\ \/ phase' = "writing" /\ peer' = route /\ UNCHANGED answer
     \/ Finish("502", <<>>) /\ UNCHANGED peer
  /\ UNCHANGED <<request, route, auth, serving, got>>

\* Mutant of CredentialsFor: Proxy-Authorization goes out on every path.
CredentialsAlways == PlainHttpPassword(cfg)
CredentialsFor == IF route = "direct" THEN "none" ELSE PlainHttpPassword(cfg)

\* write_http_request: the request line and the headers as the client sent them.
\* A body is dropped while its declared length is forwarded, so that the server
\* may wait for it; it is as free to answer or to close as without one.
WriteRequest ==
  /\ phase = "writing"
  /\ \/ /\ phase' = "reading"
        /\ auth' = CredentialsFor
        /\ UNCHANGED answer
     \/ /\ server \in {"closed", "reset"}
        /\ Finish("502", <<>>)
        /\ UNCHANGED auth
  /\ UNCHANGED <<request, route, peer, serving, got>>

\* read_to_end, as data arrives.
Read ==
  /\ phase = "reading"
  /\ got' = sent
  /\ UNCHANGED <<request, phase, outgoing, serving, answer>>

\* parse_raw_response.  The status is that of the first line, and 502 when there
\* is none; the body is what follows the first blank line, and empty without one.
Received == SubSeq(Wire(page), 1, got)
Blanks(s) == {i \in DOMAIN s : s[i] = "blank"}
FirstBlank(s) == CHOOSE i \in Blanks(s) : \A j \in Blanks(s) : i <= j

ParsedStatus == IF Received = <<>> THEN "502" ELSE Received[1]
\* Mutant of ParsedBody: the head is not drained from the buffer.
HeadInBody == Received
ParsedBody ==
  IF Blanks(Received) = {} THEN <<>>
  ELSE SubSeq(Received, FirstBlank(Received) + 1, Len(Received))

\* Mutants of AtEof: a lull in the data is taken for the end of the response; an
\* end before the whole response is not taken for one.
AtLull == got > 0
EofAfterAll == server = "closed" /\ got = Len(Wire(page))
AtEof == server = "closed" /\ got = sent

\* read_to_end returns at the end of the stream, or with an error that is
\* ignored along with whatever had not been read yet.
EndOfResponse ==
  /\ phase = "reading"
  /\ AtEof \/ server = "reset"
  /\ Finish(ParsedStatus, ParsedBody)
  /\ UNCHANGED <<request, outgoing, serving, got>>

-----------------------------------------------------------------------------
(***************************************************************************)
(* The server, and the client.                                             *)
(***************************************************************************)
SendCell ==
  /\ phase = "reading"
  /\ server = "open"
  /\ sent < Len(Wire(page))
  /\ sent' = sent + 1
  /\ UNCHANGED <<request, phase, outgoing, server, got, answer>>

\* An idle timeout, Connection: close, or the server going away.
ServerCloses ==
  /\ phase \in {"writing", "reading"}
  /\ server = "open"
  /\ server' \in {"closed", "reset"}
  /\ UNCHANGED <<request, phase, outgoing, sent, got, answer>>

\* The client disconnects and the server drops the handler's future.
ClientLeaves ==
  /\ phase \notin {"received", "done"}
  /\ Finish("none", <<>>)
  /\ UNCHANGED <<request, outgoing, serving, got>>

-----------------------------------------------------------------------------
Handler ==
  NoHost \/ ResolveWithoutPac \/ AskPac \/ PacReturns \/ Dial \/ WriteRequest
    \/ Read \/ EndOfResponse

Server == SendCell \/ ServerCloses

Next == Handler \/ Server \/ ClientLeaves

Spec == Init /\ [][Next]_vars

\* The task runs, find_proxy returns, and servers drop idle connections.
FairSpec == Spec /\ WF_vars(Handler) /\ WF_vars(EndOfResponse) /\ WF_vars(ServerCloses)

-----------------------------------------------------------------------------
(***************************************************************************)
(* Properties.                                                             *)
(***************************************************************************)
\* The guard of the plain path: no connection is made to a private address.
NoPrivatePeer == peer = "direct" => cfg.private \/ ~IsPrivateTarget(target)

\* The upstream proxy's password is not sent to a web server: not to an
\* excepted host, nor to one the PAC file sends DIRECT.
PasswordOnlyToProxy == auth # "none" => peer \in {"static", "pac"}

\* The status the client is given is that of the first head the server sent, and
\* the body a prefix of what the server sent behind that head, whatever the pieces
\* it arrived in; it is all of it if the server sent its whole response and closed
\* in order.  For a final response with plain framing that is the server's body.
\* Otherwise it is not: of a chunked body the client gets the chunk sizes as data,
\* behind an interim response the final head.  Nor is a response that ends early,
\* by a close or a reset, told from a whole one.
ResponseIsFaithful ==
  /\ reply \in {"status", "continue"} => sent > 0 /\ reply = FirstHead(page)[1]
  /\ replyBody = SubSeq(Behind(page), 1, Len(replyBody))
  /\ reply \in {"status", "continue"} /\ server = "closed" /\ sent = Len(Wire(page)) =>
       replyBody = Behind(page)

\* Every request is answered or given up by its own client.
Answered == <>(phase = "done")
=============================================================================
