----------------------------- MODULE AuthTunnel -----------------------------
(***************************************************************************)
(* The CONNECT handshake with the upstream proxy, crates/ferrovela-lib/    *)
(* src/proxy/auth_tunnel.rs, on one TCP connection: the HTTP reader that   *)
(* works in chunks, the drain of a declared body, the challenge-response   *)
(* loop, and the three AuthSession implementations.  The same reader       *)
(* serves the unauthenticated path of ConnectHandler (scheme "Anonymous"). *)
(*                                                                         *)
(* The bytes the proxy has sent and the program has not read are a         *)
(* sequence of cells: "h" and "e" are header bytes ("e" holds the blank    *)
(* line), "b" and "x" body bytes ("x" contains a blank line, as the end of *)
(* a chunked body does), "p" bytes of the tunnel itself.  A header cell    *)
(* carries the response it belongs to.  Page text that read_http_headers   *)
(* finds in front of a response may read as a status line: see Misread.    *)
(*                                                                         *)
(* The proxy is outside the repository.  In a behaviour with faulty =      *)
(* FALSE it follows the protocol of the scheme and accepts the             *)
(* credentials; with faulty = TRUE it answers anything or nothing and may  *)
(* drop the connection at any moment, and GSSAPI may fail.                 *)
(***************************************************************************)
EXTENDS Integers, Sequences

CONSTANTS
  Schemes,     \* authenticators the configuration may select
  MaxRounds,   \* authenticated attempts of one call (4 in the code)
  MaxHeader,   \* MAX_HEADER_BYTES, in cells
  Chunk,       \* cells one read() of the header loop may return
  Fillers,     \* "h" cells a response may have before its blank line
  Bodies,      \* Content-Length a response may declare, in cells
  Extras,      \* body cells sent without a Content-Length (chunked)
  KrbLegs,     \* tokens the GSSAPI context produces
  MaxPayload,  \* tunnel cells the proxy may send to the program
  Pages,       \* Content-Length of a well-behaved proxy's 407, in cells
  FaultModes   \* whether the proxy, the network and GSSAPI may misbehave

ASSUME ConstantsAssumption ==
  /\ Schemes \subseteq {"Anonymous", "Basic", "NTLM", "Kerberos"}
  /\ MaxRounds \in Nat \ {0}
  /\ MaxHeader \in Nat \ {0}
  /\ Chunk \in Nat \ {0}
  /\ Fillers \subseteq Nat
  /\ Bodies \subseteq Nat
  /\ Extras \subseteq Nat
  /\ KrbLegs \in Nat \ {0}
  /\ MaxPayload \in Nat
  /\ Pages \subseteq Nat
  /\ FaultModes \subseteq BOOLEAN

Tokens == {"none", "basic", "type1", "type3", "gss"}   \* Proxy-Authorization
Challenges == {"absent", "bare", "token", "badtoken", "foreign"}
Statuses == {200, 407, 502}

Response == [status : Statuses, chal : Challenges, fill : Nat, len : Nat, extra : Nat]
NoResponse == [status |-> 502, chal |-> "absent", fill |-> 0, len |-> 0, extra |-> 0]
Cell == [k : {"h", "e", "b", "x", "p"}, r : Response]

Idle == <<>>   \* no CONNECT is waiting for the proxy's answer

VARIABLES
  faulty,   \* is this a behaviour with faults?
  scheme,   \* which AuthSession create_session returned
  sess,     \* its progress: tokens produced (NtlmState, or the GSS context)
  pc,       \* where perform_authenticated_connect is
  why,      \* the kind of its Err
  round,    \* authenticated attempts made
  tok,      \* Proxy-Authorization of the CONNECT to send next
  buf,      \* what read_http_headers has accumulated
  need,     \* body cells read_exact still waits for
  status,   \* parsed from the last response
  chal,     \* its Proxy-Authenticate value
  sent,     \* Proxy-Authorization of every CONNECT sent so far (history)
  req,      \* the CONNECTs the proxy has received and not answered
  resp,     \* the proxy's last answer
  legs,     \* tokens the proxy has accepted
  px,       \* "http" until the proxy answers 200, then "tunnel"
  paid,     \* tunnel cells the proxy has sent
  stream,   \* cells in flight to the program
  closed,   \* has the proxy closed the connection?
  undeclared, \* has an answer had a body no Content-Length declares? (history)
  misled    \* has page text been taken for a status line? (history)

client == <<scheme, sess, pc, why, round, tok, buf, need, status, chal, sent>>
proxy  == <<req, resp, legs, px, paid, closed, undeclared>>
vars   == <<faulty, client, proxy, stream, misled>>

PCs == {"connect", "send", "read", "parse", "drain", "decide", "step", "ok", "failed"}
Reasons == {"none", "connect", "write", "eof", "header", "garbage", "refused",
            "session", "exhausted"}

\* An invariant of the data each variable holds.
TypeOK ==
  /\ faulty \in FaultModes
  /\ scheme \in Schemes
  /\ sess \in Nat
  /\ pc \in PCs
  /\ why \in Reasons
  /\ round \in 0..MaxRounds
  /\ tok \in Tokens
  /\ buf \in Seq(Cell)
  /\ need \in Nat
  /\ status \in Statuses
  /\ chal \in Challenges
  /\ sent \in Seq(Tokens)
  /\ req \in Seq(Tokens)
  /\ resp \in Response
  /\ legs \in Nat
  /\ px \in {"http", "tunnel"}
  /\ paid \in Nat
  /\ stream \in Seq(Cell)
  /\ closed \in BOOLEAN
  /\ undeclared \in BOOLEAN
  /\ misled \in BOOLEAN

Init ==
  /\ faulty \in FaultModes
  /\ scheme \in Schemes
  /\ sess = 0
  /\ pc = "connect"
  /\ why = "none"
  /\ round = 0
  /\ tok = "none"
  /\ buf = <<>>
  /\ need = 0
  /\ status = 502
  /\ chal = "absent"
  /\ sent = <<>>
  /\ req = Idle
  /\ resp = NoResponse
  /\ legs = 0
  /\ px = "http"
  /\ paid = 0
  /\ stream = <<>>
  /\ closed = FALSE
  /\ undeclared = FALSE
  /\ misled = FALSE

-----------------------------------------------------------------------------
(***************************************************************************)
(* The sessions.  StepOutcomes is what AuthSession::step may return for a  *)
(* challenge, and the progress it leaves: a token, "None", or "Err".       *)
(***************************************************************************)
NtlmInitial == 0
NtlmChallenge == 1
NtlmComplete == 2

BasicStep == {[next |-> sess, out |-> "basic"]}

\* Mutant of NtlmStep: the session forgets to leave Initial.
StuckAtInitial == {[next |-> NtlmInitial, out |-> "type1"]}

NtlmStep ==
  CASE sess = NtlmInitial -> {[next |-> NtlmChallenge, out |-> "type1"]}
    [] sess = NtlmChallenge /\ chal = "token" -> {[next |-> NtlmComplete, out |-> "type3"]}
    [] sess = NtlmChallenge /\ chal # "token" -> {[next |-> sess, out |-> "Err"]}
    [] OTHER -> {[next |-> sess, out |-> "None"]}

\* GSSAPI is external: it yields KrbLegs tokens, then None; it may fail.
KerberosStep ==
  IF chal \in {"foreign", "badtoken"}
  THEN {[next |-> sess, out |-> "Err"]}
  ELSE (IF sess < KrbLegs THEN {[next |-> sess + 1, out |-> "gss"]}
                          ELSE {[next |-> sess, out |-> "None"]})
       \cup (IF faulty THEN {[next |-> sess, out |-> "Err"]} ELSE {})

StepOutcomes ==
  CASE scheme = "Basic" -> BasicStep
    [] scheme = "NTLM" -> NtlmStep
    [] scheme = "Kerberos" -> KerberosStep
    [] OTHER -> {}

-----------------------------------------------------------------------------
(***************************************************************************)
(* perform_authenticated_connect.                                          *)
(***************************************************************************)
Fail(reason) ==
  /\ pc' = "failed"
  /\ why' = reason

Connect ==
  /\ pc = "connect"
  /\ \/ pc' = "send" /\ UNCHANGED why
     \/ faulty /\ Fail("connect")
  /\ UNCHANGED <<faulty, scheme, sess, round, tok, buf, need, status, chal, sent, proxy, stream, misled>>

\* send_connect, and the entry of read_http_headers with an empty buffer.  A
\* write to a connection the peer has closed may fail or be lost; what is written
\* into a tunnel goes to the target.
SendConnect ==
  /\ pc = "send"
  /\ \/ /\ pc' = "read"
        /\ req' = IF closed \/ px = "tunnel" THEN req ELSE Append(req, tok)
        /\ sent' = Append(sent, tok)
        /\ buf' = <<>>
        /\ UNCHANGED why
     \/ /\ closed
        /\ Fail("write")
        /\ UNCHANGED <<req, sent, buf>>
  /\ UNCHANGED <<faulty, scheme, sess, round, tok, need, status, chal,
                 resp, legs, px, paid, closed, undeclared, stream, misled>>

HasBlankLine(s) == \E i \in DOMAIN s : s[i].k \in {"e", "x"}

\* One read() of the loop in read_http_headers: any non-empty prefix of what
\* has arrived, at most a chunk, whatever it holds beyond the blank line.
ReadHeaders ==
  /\ pc = "read"
  /\ \E n \in 1..Len(stream) :
       /\ n <= Chunk
       /\ buf' = buf \o SubSeq(stream, 1, n)
       /\ stream' = SubSeq(stream, n + 1, Len(stream))
  /\ \/ HasBlankLine(buf') /\ pc' = "parse" /\ UNCHANGED why
     \/ ~HasBlankLine(buf') /\ Len(buf') > MaxHeader /\ Fail("header")
     \/ ~HasBlankLine(buf') /\ Len(buf') <= MaxHeader /\ UNCHANGED <<pc, why>>
  /\ UNCHANGED <<faulty, scheme, sess, round, tok, need, status, chal, sent, proxy, misled>>

\* parse_status of the first line in the buffer.  Page text left over from an
\* earlier response does not parse, unless it is one of the lines of Misread.
Unparsable == 0
ParsedStatus == IF buf[1].k \in {"h", "e"} THEN buf[1].r.status ELSE Unparsable

\* Mutant of ContentLength: the header is overlooked.
NoContentLength == 0
\* parse_content_length of the accumulated headers.
ContentLength == buf[1].r.len

\* read_proxy_response after the headers.
ParseResponse ==
  /\ pc = "parse"
  /\ \/ /\ ParsedStatus # Unparsable
        /\ status' = ParsedStatus
        /\ chal' = buf[1].r.chal
        /\ need' = ContentLength
        /\ pc' = IF ContentLength > 0 THEN "drain" ELSE "decide"
        /\ UNCHANGED why
     \/ /\ ParsedStatus = Unparsable
        /\ Fail("garbage")
        /\ UNCHANGED <<status, chal, need>>
  /\ UNCHANGED <<faulty, scheme, sess, round, tok, buf, sent, proxy, stream, misled>>

\* Page text in front: a line such as "Error 407 ..." has a number as its second
\* word, and parse_status asks for no more.  The fields are then looked for in
\* whatever text follows; only a 407's challenge is used.  Once that has happened
\* the reads are out of step with the responses, and may start inside a header.
Misread ==
  /\ pc = "parse"
  /\ misled \/ buf[1].k \notin {"h", "e"}
  /\ status' \in Statuses
  /\ chal' \in IF status' = 407 THEN Challenges ELSE {"absent"}
  /\ need' \in {0} \cup Bodies
  /\ pc' = IF need' > 0 THEN "drain" ELSE "decide"
  /\ misled' = TRUE
  /\ UNCHANGED <<faulty, scheme, sess, why, round, tok, buf, sent, proxy, stream>>

\* read_exact of Content-Length bytes, counted from the end of the buffer.
DrainBody ==
  /\ pc = "drain"
  /\ \E n \in 1..Len(stream) :
       /\ n <= need
       /\ need' = need - n
       /\ stream' = SubSeq(stream, n + 1, Len(stream))
       /\ pc' = IF n = need THEN "decide" ELSE "drain"
  /\ UNCHANGED <<faulty, scheme, sess, why, round, tok, buf, status, chal, sent, proxy, misled>>

\* Mutant of WaitingForPeer: read_http_headers does not check for n == 0.
WaitingForBody == pc = "drain"
\* Where a read meets the end of the stream: read() returns 0, read_exact fails.
WaitingForPeer == pc \in {"read", "drain"}

PeerClosed ==
  /\ WaitingForPeer
  /\ stream = <<>>
  /\ closed
  /\ Fail("eof")
  /\ UNCHANGED <<faulty, scheme, sess, round, tok, buf, need, status, chal, sent, proxy, stream, misled>>

\* Mutants of the three conditions below: success is anything but a 407; any
\* refusal is taken for a challenge; the loop runs once too often.
AnythingBut407 == status # 407
AnythingBut200 == status # 200
OneRoundMore == round <= MaxRounds

\* How the loop reads a status, and when it gives up.
Granted == status = 200
Challenged == status = 407
RoundsLeft == round < MaxRounds

Decide ==
  /\ pc = "decide"
  /\ \/ Granted /\ pc' = "ok" /\ UNCHANGED why
     \/ ~Granted /\ scheme = "Anonymous" /\ Fail("refused")
     \/ ~Granted /\ scheme # "Anonymous" /\ ~RoundsLeft /\ Fail("exhausted")
     \/ ~Granted /\ scheme # "Anonymous" /\ RoundsLeft /\ ~Challenged /\ Fail("refused")
     \/ /\ ~Granted /\ scheme # "Anonymous" /\ RoundsLeft /\ Challenged
        /\ pc' = "step"
        /\ UNCHANGED why
  /\ UNCHANGED <<faulty, scheme, sess, round, tok, buf, need, status, chal, sent, proxy, stream, misled>>

StepSession ==
  /\ pc = "step"
  /\ \E o \in StepOutcomes :
       /\ sess' = o.next
       /\ \/ /\ o.out \in Tokens
             /\ tok' = o.out
             /\ round' = round + 1
             /\ pc' = "send"
             /\ UNCHANGED why
          \/ /\ o.out \notin Tokens
             /\ Fail("session")
             /\ UNCHANGED <<tok, round>>
  /\ UNCHANGED <<faulty, scheme, buf, need, status, chal, sent, proxy, stream, misled>>

\* copy_bidirectional, towards the client: it starts with what is in the
\* socket, not with what read_http_headers has taken beyond the headers.
Splice ==
  /\ pc = "ok"
  /\ stream # <<>>
  /\ stream' = <<>>
  /\ UNCHANGED <<faulty, scheme, sess, pc, why, round, tok, buf, need, status, chal, sent, proxy, misled>>

-----------------------------------------------------------------------------
(***************************************************************************)
(* The upstream proxy.                                                     *)
(***************************************************************************)
Wire(r) ==
  [i \in 1..(r.fill + 1 + r.len + r.extra) |->
     CASE i <= r.fill     -> [k |-> "h", r |-> r]
       [] i = r.fill + 1  -> [k |-> "e", r |-> r]
       [] OTHER           -> [k |-> IF r.extra > 0 /\ i = r.fill + 1 + r.len + r.extra
                                    THEN "x" ELSE "b",
                              r |-> NoResponse]]

LegsNeeded ==
  CASE scheme = "Anonymous" -> 0
    [] scheme = "Basic" -> 1
    [] scheme = "NTLM" -> 2
    [] OTHER -> KrbLegs

\* NTLM is checked message by message; the others are counted.
Accepted ==
  CASE Head(req) = "none" -> 0
    [] Head(req) = "type1" -> 1
    [] Head(req) = "type3" -> IF legs = 1 THEN 2 ELSE 1
    [] OTHER -> legs + 1

\* A 200 to CONNECT has no body of its own: bytes after it are the tunnel.
Shapes(st, c, fills, lens, extras) ==
  {[status |-> st, chal |-> c, fill |-> f, len |-> l, extra |-> x] :
     f \in fills, l \in lens, x \in extras}

ShortHeaders == {f \in Fillers : f < MaxHeader}

\* Of an answer sent after the program was misled only the status matters: what
\* is read then may be taken for anything.
Answers ==
  IF misled
  THEN UNION {Shapes(st, "absent", {0}, {0}, {0}) : st \in {200, 502}}
  ELSE IF faulty
  THEN Shapes(200, "absent", Fillers, Bodies, {0})
       \cup Shapes(502, "absent", Fillers, Bodies, Extras)
       \cup UNION {Shapes(407, c, Fillers, Bodies, Extras) : c \in Challenges}
  ELSE IF Accepted = LegsNeeded
  THEN Shapes(200, "absent", ShortHeaders, {0}, {0})
  ELSE Shapes(407, IF Accepted = 0 THEN "bare" ELSE "token", ShortHeaders, Pages, {0})

\* The proxy answers in order.  With a 200 it stops reading requests: what else
\* the program has sent belongs to the tunnel.
Answer ==
  /\ req # Idle
  /\ ~closed
  /\ \E r \in Answers :
       /\ resp' = r
       /\ stream' = stream \o Wire(r)
       /\ px' = IF r.status = 200 THEN "tunnel" ELSE px
       /\ req' = IF r.status = 200 THEN Idle ELSE Tail(req)
       /\ undeclared' = (undeclared \/ r.extra > 0)
  /\ legs' = Accepted
  /\ UNCHANGED <<faulty, client, paid, closed, misled>>

\* The target speaks first: tunnel bytes follow the 200 at once.
SendPayload ==
  /\ px = "tunnel"
  /\ ~closed
  /\ paid < MaxPayload
  /\ paid' = paid + 1
  /\ stream' = Append(stream, [k |-> "p", r |-> NoResponse])
  /\ UNCHANGED <<faulty, client, req, resp, legs, px, closed, undeclared, misled>>

CloseConnection ==
  /\ faulty
  /\ ~closed
  /\ pc # "connect"
  /\ closed' = TRUE
  /\ UNCHANGED <<faulty, client, req, resp, legs, px, paid, undeclared, stream, misled>>

-----------------------------------------------------------------------------
ClientStep ==
  \/ Connect \/ SendConnect \/ ReadHeaders \/ ParseResponse \/ Misread \/ DrainBody
  \/ PeerClosed \/ Decide \/ StepSession \/ Splice

ProxyStep == Answer \/ SendPayload \/ CloseConnection

Next == ClientStep \/ ProxyStep

Spec == Init /\ [][Next]_vars

\* The tokio task is scheduled.  A well-behaved proxy answers what it has
\* received; a faulty one may never answer, but drops the connection in the end.
FairSpec ==
  /\ Spec
  /\ WF_vars(ClientStep)
  /\ WF_vars(~faulty /\ Answer)
  /\ WF_vars(CloseConnection)

-----------------------------------------------------------------------------
(***************************************************************************)
(* Properties.  Those about the responses hold until page text has been    *)
(* taken for a status line; ActsOnLastAnswer says when that may happen.    *)
(***************************************************************************)

\* perform_authenticated_connect returns Ok only for a connection that the
\* proxy has switched to a tunnel, with no CONNECT of ours left unanswered.
GrantedTunnel == pc = "ok" /\ ~misled => px = "tunnel" /\ req = Idle

\* After the proxy has answered 200 the loop never writes another CONNECT: it
\* would arrive at the target server as if the client had sent it.
NoConnectIntoTunnel == px = "tunnel" /\ ~misled => req = Idle /\ pc \notin {"step", "send"}

OnLastAnswer ==
  pc \in {"drain", "decide", "step"} =>
    /\ req = Idle
    /\ status = resp.status
    /\ chal = resp.chal

\* As long as answers declare their bodies with a Content-Length, page text is
\* never taken for an answer: the status and challenge the loop acts on are those
\* of the answer to the CONNECT it sent last, however reads straddle headers and
\* bodies.  A body that is not declared (a chunked error page) stays unread in
\* front of the next answer: either no line of it parses and the loop still acts
\* on no answer but the last, or it is misled.
ActsOnLastAnswer ==
  /\ misled => undeclared
  /\ ~misled => OnLastAnswer

OnChallenge ==
  req # Idle /\ Head(req) # "none" =>
    /\ resp.status = 407
    /\ Head(req) = "type3" => resp.chal = "token"

NtlmLegs ==
  scheme = "NTLM" =>
    /\ sent \in {<<>>, <<"none">>, <<"none", "type1">>, <<"none", "type1", "type3">>}
    /\ MaxRounds > 2 => why # "exhausted"

\* Credentials go out only in reply to a 407 of this connection, and an NTLM
\* Type 3 only in reply to the Type 2 the proxy has just sent, unless page text was
\* taken for an answer.  An NTLM session sends Type 1 and then Type 3, each once,
\* on one connection, so that the four rounds of the loop are never what ends it,
\* even then.
CredentialsOnlyOnChallenge == (~misled => OnChallenge) /\ NtlmLegs

\* One call sends at most MaxRounds + 1 CONNECTs, and reports exhaustion only
\* when it has sent them all.
RoundBudget ==
  /\ Len(sent) <= MaxRounds + 1
  /\ why = "exhausted" => Len(sent) = MaxRounds + 1

\* What copy_bidirectional finds in the socket is tunnel data: no byte of an
\* error page or of a header is delivered to the client as if the target sent it,
\* unless page text was taken for the 200.
TunnelClean == pc = "ok" /\ ~misled => \A i \in DOMAIN stream : stream[i].k = "p"

\* The call returns.
Terminates == <>(pc \in {"ok", "failed"})

\* Against a proxy that follows the scheme and accepts the credentials the call
\* establishes the tunnel.
Connects == ~faulty ~> pc = "ok"

\* Draining a declared body ends, and leaves the connection usable for the
\* next request, as the comment at auth_tunnel.rs:112 says.
DrainLeavesUsable == (~faulty /\ pc = "drain") ~> pc = "decide"

\* The handshake implements what ConnectService promises to ConnectHandler.
Service == INSTANCE ConnectService WITH
  MaxAttempts <- MaxRounds + 1,
  verdict  <- CASE pc = "ok" -> "established"
                [] pc = "failed" -> "failed"
                [] OTHER -> "pending",
  granted  <- px = "tunnel",
  attempts <- Len(sent),
  misled   <- misled

ImplementsService == Service!Spec
=============================================================================
