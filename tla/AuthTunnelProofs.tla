-------------------------- MODULE AuthTunnelProofs ---------------------------
(***************************************************************************)
(* Safety of the CONNECT handshake for every choice of schemes, rounds,    *)
(* buffer and chunk sizes, and answers of the proxy, and the proof that    *)
(* the handshake implements ConnectService.                                *)
(***************************************************************************)
EXTENDS AuthTunnel, SequenceTheorems, TLAPS

-----------------------------------------------------------------------------
(***************************************************************************)
(* Types.                                                                  *)
(***************************************************************************)
\* What the proxy may answer is a response.
LEMMA AnswersType == Answers \subseteq Response
<1>1. Fillers \subseteq Nat /\ Bodies \subseteq Nat /\ Extras \subseteq Nat /\ Pages \subseteq Nat
  BY ConstantsAssumption
<1>2. ShortHeaders \subseteq Nat
  BY <1>1 DEF ShortHeaders
<1>3. ASSUME NEW st \in Statuses, NEW c \in Challenges, NEW fs \in SUBSET Nat,
             NEW ls \in SUBSET Nat, NEW xs \in SUBSET Nat
      PROVE  Shapes(st, c, fs, ls, xs) \subseteq Response
  BY <1>3 DEF Shapes, Response
<1>4. /\ {200, 407, 502} \subseteq Statuses
      /\ {"absent", "bare", "token"} \subseteq Challenges
      /\ {0} \subseteq Nat
  BY DEF Statuses, Challenges
<1>7. CASE misled
  <2>1. \A st \in {200, 502} : Shapes(st, "absent", {0}, {0}, {0}) \subseteq Response
    BY <1>3, <1>4
  <2> QED BY <1>7, <2>1 DEF Answers
<1>5. CASE ~misled /\ faulty
  <2>1. Shapes(200, "absent", Fillers, Bodies, {0}) \subseteq Response
    BY <1>1, <1>3, <1>4
  <2>2. Shapes(502, "absent", Fillers, Bodies, Extras) \subseteq Response
    BY <1>1, <1>3, <1>4
  <2>3. \A c \in Challenges : Shapes(407, c, Fillers, Bodies, Extras) \subseteq Response
    BY <1>1, <1>3, <1>4
  <2> QED BY <1>5, <2>1, <2>2, <2>3 DEF Answers
<1>6. CASE ~misled /\ ~faulty
  <2>1. Shapes(200, "absent", ShortHeaders, {0}, {0}) \subseteq Response
    BY <1>2, <1>3, <1>4
  <2>2. \A c \in {"bare", "token"} : Shapes(407, c, ShortHeaders, Pages, {0}) \subseteq Response
    BY <1>1, <1>2, <1>3, <1>4
  <2> QED BY <1>6, <2>1, <2>2 DEF Answers
<1> QED BY <1>5, <1>6, <1>7

\* What the cells of a response on the wire are.
LEMMA WireCells ==
  ASSUME NEW r \in Response
  PROVE  /\ Wire(r) \in Seq(Cell)
         /\ Len(Wire(r)) = r.fill + 1 + r.len + r.extra
         /\ \A i \in 1..(r.fill + 1 + r.len + r.extra) :
              /\ i <= r.fill => Wire(r)[i] = [k |-> "h", r |-> r]
              /\ i = r.fill + 1 => Wire(r)[i] = [k |-> "e", r |-> r]
              /\ i > r.fill + 1 => Wire(r)[i].k \in {"b", "x"}
<1> DEFINE n == r.fill + 1 + r.len + r.extra
<1>1. r.fill \in Nat /\ r.len \in Nat /\ r.extra \in Nat /\ n \in Nat
  BY DEF Response
<1>2. NoResponse \in Response
  BY DEF NoResponse, Response, Statuses, Challenges
<1>3. \A i \in 1..n : Wire(r)[i] \in Cell
  BY <1>1, <1>2 DEF Wire, Cell
<1>4. /\ DOMAIN Wire(r) = 1..n
      /\ \A i \in 1..n :
           /\ i <= r.fill => Wire(r)[i] = [k |-> "h", r |-> r]
           /\ i = r.fill + 1 => Wire(r)[i] = [k |-> "e", r |-> r]
           /\ i > r.fill + 1 => Wire(r)[i].k \in {"b", "x"}
  BY <1>1 DEF Wire
<1>5. Wire(r) = [i \in 1..n |-> Wire(r)[i]]
  BY <1>4 DEF Wire
<1>6. Wire(r) \in Seq(Cell) /\ Len(Wire(r)) = n
  BY <1>1, <1>3, <1>4, <1>5, IsASeq, LenProperties
<1> QED BY <1>4, <1>6

\* What a read takes from the stream and what it leaves.
LEMMA Split ==
  ASSUME NEW S, NEW s \in Seq(S), NEW n \in 0..Len(s)
  PROVE  /\ SubSeq(s, 1, n) \in Seq(S)
         /\ Len(SubSeq(s, 1, n)) = n
         /\ SubSeq(s, n + 1, Len(s)) \in Seq(S)
         /\ Len(SubSeq(s, n + 1, Len(s))) = Len(s) - n
         /\ \A j \in 1..(Len(s) - n) : SubSeq(s, n + 1, Len(s))[j] = s[j + n]
         /\ SubSeq(s, 1, n) \o SubSeq(s, n + 1, Len(s)) = s
<1>1. Len(s) \in Nat /\ n \in Nat /\ n <= Len(s) /\ \A i \in 1..Len(s) : s[i] \in S
  BY LenProperties, ElementOfSeq
<1>2. /\ SubSeq(s, 1, n) \in Seq(S)
      /\ Len(SubSeq(s, 1, n)) = IF 1 <= n THEN n - 1 + 1 ELSE 0
  BY <1>1, SubSeqProperties
<1>3. Len(SubSeq(s, 1, n)) = n
  BY <1>1, <1>2
<1>4. /\ SubSeq(s, n + 1, Len(s)) \in Seq(S)
      /\ Len(SubSeq(s, n + 1, Len(s))) = IF n + 1 <= Len(s) THEN Len(s) - (n + 1) + 1 ELSE 0
      /\ \A j \in 1..(Len(s) - (n + 1) + 1) :
           SubSeq(s, n + 1, Len(s))[j] = s[(n + 1) + j - 1]
  <2>1. n + 1 \in Int /\ Len(s) \in Int /\ \A i \in (n + 1)..Len(s) : s[i] \in S
    BY <1>1
  <2> QED BY <2>1, SubSeqProperties
<1>5. Len(SubSeq(s, n + 1, Len(s))) = Len(s) - n
  BY <1>1, <1>4
<1>6. ASSUME NEW j \in 1..(Len(s) - n)
      PROVE  SubSeq(s, n + 1, Len(s))[j] = s[j + n]
  <2>1. Len(s) - (n + 1) + 1 = Len(s) - n /\ (n + 1) + j - 1 = j + n
    BY <1>1
  <2> QED BY <1>4, <2>1
<1>7. SubSeq(s, 1, n) \o SubSeq(s, n + 1, Len(s)) = s
  <2>1. SubSeq(s, 1, n) \o SubSeq(s, n + 1, Len(s)) = SubSeq(s, 1, Len(s))
    <3>1. 1 \in 1..(Len(s) + 1) /\ n \in (1 - 1)..Len(s) /\ Len(s) \in n..Len(s)
      BY <1>1
    <3> QED BY <3>1, ConcatAdjacentSubSeq
  <2> QED BY <2>1, SubSeqFull
<1> QED BY <1>2, <1>3, <1>4, <1>5, <1>6, <1>7

\* TypeOK is not inductive: a round may only be added, and a status line only
\* be parsed, because of what the loop has checked before.
TypeInv ==
  /\ TypeOK
  /\ pc = "step" => round < MaxRounds
  /\ pc = "parse" => HasBlankLine(buf)

\* The handshake starts in well-typed state.
LEMMA TypeInit == Init => TypeInv
<1>1. <<>> \in Seq(Cell) /\ <<>> \in Seq(Tokens)
  BY EmptySeq
<1>2. NoResponse \in Response
  BY DEF NoResponse, Response, Statuses, Challenges
<1>3. 0 \in 0..MaxRounds
  BY ConstantsAssumption
<1> SUFFICES ASSUME Init
             PROVE  TypeInv
  OBVIOUS
<1>4. /\ faulty \in FaultModes
      /\ scheme \in Schemes
      /\ sess \in Nat
      /\ pc \in PCs
      /\ why \in Reasons
      /\ round \in 0..MaxRounds
      /\ tok \in Tokens
      /\ buf \in Seq(Cell)
      /\ need \in Nat
      /\ status \in Statuses
  BY <1>1, <1>3 DEF Init, PCs, Reasons, Tokens, Statuses
<1>5. /\ chal \in Challenges
      /\ sent \in Seq(Tokens)
      /\ req \in Seq(Tokens)
      /\ resp \in Response
      /\ legs \in Nat
      /\ px \in {"http", "tunnel"}
      /\ paid \in Nat
      /\ stream \in Seq(Cell)
      /\ closed \in BOOLEAN
      /\ undeclared \in BOOLEAN
      /\ misled \in BOOLEAN
  BY <1>1, <1>2 DEF Init, Challenges, Idle
<1>6. pc \notin {"step", "parse"}
  BY DEF Init
<1> QED BY <1>4, <1>5, <1>6 DEF TypeInv, TypeOK

\* Every step of the handshake and of the proxy keeps the types.
LEMMA TypeStep == TypeInv /\ [Next]_vars => TypeInv'
<1> SUFFICES ASSUME TypeInv, [Next]_vars
             PROVE  TypeInv'
  OBVIOUS
<1> USE DEF TypeInv
<1> USE DEF TypeOK
<1>0. MaxRounds \in Nat
  BY ConstantsAssumption
<1>1. ASSUME Connect
      PROVE  TypeOK'
  BY <1>1 DEF Connect, Fail, proxy, PCs, Reasons
<1>2. ASSUME SendConnect
      PROVE  TypeOK'
  <2>1. Append(sent, tok) \in Seq(Tokens) /\ Append(req, tok) \in Seq(Tokens) /\ <<>> \in Seq(Cell)
    BY AppendProperties, EmptySeq
  <2> QED BY <1>2, <2>1 DEF SendConnect, Fail, PCs, Reasons
<1>3. ASSUME ReadHeaders
      PROVE  TypeOK'
  <2>1. PICK n \in 1..Len(stream) :
          /\ buf' = buf \o SubSeq(stream, 1, n)
          /\ stream' = SubSeq(stream, n + 1, Len(stream))
    BY <1>3 DEF ReadHeaders
  <2>2. n \in 0..Len(stream)
    BY <2>1
  <2>3. buf' \in Seq(Cell) /\ stream' \in Seq(Cell)
    BY <2>1, <2>2, Split, ConcatProperties
  <2> QED BY <1>3, <2>3 DEF ReadHeaders, Fail, proxy, PCs, Reasons
<1>4. ASSUME ParseResponse
      PROVE  TypeOK'
  <2>1. CASE ParsedStatus # Unparsable
    <3>1. buf[1].k \in {"h", "e"} /\ ParsedStatus = buf[1].r.status
      BY <2>1 DEF ParsedStatus
    <3>2. buf[1] \in Cell
      <4>1. Len(buf) \in Nat /\ DOMAIN buf = 1..Len(buf) /\ DOMAIN buf # {}
        BY <1>4, LenProperties DEF ParseResponse, HasBlankLine
      <4> QED BY <4>1, ElementOfSeq
    <3>3. buf[1].r \in Response
      BY <3>2 DEF Cell
    <3> QED BY <1>4, <2>1, <3>1, <3>3
            DEF ParseResponse, ContentLength, Response, proxy, PCs
  <2>2. CASE ParsedStatus = Unparsable
    BY <1>4, <2>2 DEF ParseResponse, Fail, proxy, PCs, Reasons
  <2> QED BY <2>1, <2>2
<1>5. ASSUME DrainBody
      PROVE  TypeOK'
  <2>1. PICK n \in 1..Len(stream) :
          /\ n <= need
          /\ need' = need - n
          /\ stream' = SubSeq(stream, n + 1, Len(stream))
          /\ pc' \in {"decide", "drain"}
    BY <1>5 DEF DrainBody
  <2>2. n \in 0..Len(stream) /\ need' \in Nat
    BY <2>1
  <2>3. stream' \in Seq(Cell)
    BY <2>1, <2>2, Split
  <2> QED BY <1>5, <2>1, <2>2, <2>3 DEF DrainBody, proxy, PCs
<1>6. ASSUME PeerClosed
      PROVE  TypeOK'
  BY <1>6 DEF PeerClosed, Fail, proxy, PCs, Reasons
<1>7. ASSUME Decide
      PROVE  TypeOK'
  BY <1>7 DEF Decide, Fail, proxy, PCs, Reasons
<1>8. ASSUME StepSession
      PROVE  TypeOK'
  <2>1. \A o \in StepOutcomes : o.next \in Nat
    BY ConstantsAssumption
       DEF StepOutcomes, BasicStep, NtlmStep, KerberosStep, NtlmInitial, NtlmChallenge,
           NtlmComplete
  <2>2. PICK o \in StepOutcomes :
          /\ sess' = o.next
          /\ \/ o.out \in Tokens /\ tok' = o.out /\ round' = round + 1 /\ pc' = "send" /\ why' = why
             \/ pc' = "failed" /\ why' = "session" /\ tok' = tok /\ round' = round
    BY <1>8 DEF StepSession, Fail
  <2>3. round' \in 0..MaxRounds
    BY <1>0, <1>8, <2>2 DEF StepSession
  <2> QED BY <1>8, <2>1, <2>2, <2>3 DEF StepSession, proxy, PCs, Reasons
<1>9. ASSUME Splice
      PROVE  TypeOK'
  <2>1. Len(stream) \in Nat /\ <<>> \in Seq(Cell)
    BY LenProperties, EmptySeq
  <2> QED BY <1>9, <2>1 DEF Splice, proxy
<1>10. ASSUME Answer
       PROVE  TypeOK'
  <2>1. PICK r \in Answers :
          /\ resp' = r
          /\ stream' = stream \o Wire(r)
          /\ px' = IF r.status = 200 THEN "tunnel" ELSE px
          /\ req' = IF r.status = 200 THEN Idle ELSE Tail(req)
          /\ undeclared' = (undeclared \/ r.extra > 0)
    BY <1>10 DEF Answer
  <2>2. r \in Response
    BY AnswersType
  <2>3. stream' \in Seq(Cell)
    BY <2>1, <2>2, WireCells, ConcatProperties
  <2>4. Accepted \in Nat
    BY DEF Accepted
  <2>5. req' \in Seq(Tokens)
    <3>1. Tail(req) \in Seq(Tokens)
      BY <1>10, HeadTailProperties DEF Answer, Idle
    <3> QED BY <2>1, <3>1, EmptySeq DEF Idle
  <2> QED BY <1>10, <2>1, <2>2, <2>3, <2>4, <2>5 DEF Answer, client
<1>11. ASSUME SendPayload
       PROVE  TypeOK'
  <2>1. [k |-> "p", r |-> NoResponse] \in Cell
    BY DEF Cell, NoResponse, Response, Statuses, Challenges
  <2>2. stream' \in Seq(Cell)
    BY <1>11, <2>1, AppendProperties DEF SendPayload
  <2> QED BY <1>11, <2>2 DEF SendPayload, client
<1>12. ASSUME CloseConnection
       PROVE  TypeOK'
  BY <1>12 DEF CloseConnection, client
<1>13. ASSUME UNCHANGED vars
       PROVE  TypeOK'
  BY <1>13 DEF vars, client, proxy
<1>17. ASSUME Misread
       PROVE  TypeOK'
  <2>1. need' \in Nat
    BY <1>17, ConstantsAssumption DEF Misread
  <2>2. chal' \in Challenges
    BY <1>17 DEF Misread, Challenges
  <2> QED BY <1>17, <2>1, <2>2 DEF Misread, proxy, PCs
<1>14. TypeOK'
  BY <1>1, <1>2, <1>3, <1>4, <1>5, <1>6, <1>7, <1>8, <1>9, <1>10, <1>11, <1>12, <1>13, <1>17
     DEF Next, ClientStep, ProxyStep
<1>15. pc' = "step" => round' < MaxRounds
  <2>1. CASE Decide
    BY <2>1 DEF Decide, Fail, RoundsLeft
  <2>2. CASE UNCHANGED <<pc, round>>
    BY <2>2
  <2>3. CASE pc' # "step"
    BY <2>3
  <2> QED BY <2>1, <2>2, <2>3
          DEF Next, ClientStep, ProxyStep, Connect, SendConnect, ReadHeaders, ParseResponse, Misread,
              DrainBody, PeerClosed, StepSession, Splice, Answer, SendPayload,
              CloseConnection, Fail, vars, client
<1>16. pc' = "parse" => HasBlankLine(buf')
  <2>1. CASE ReadHeaders
    BY <2>1 DEF ReadHeaders, Fail
  <2>2. CASE UNCHANGED <<pc, buf>>
    BY <2>2
  <2>3. CASE pc' # "parse"
    BY <2>3
  <2> QED BY <2>1, <2>2, <2>3
          DEF Next, ClientStep, ProxyStep, Connect, SendConnect, Decide, ParseResponse, Misread,
              DrainBody, PeerClosed, StepSession, Splice, Answer, SendPayload,
              CloseConnection, Fail, vars, client
<1> QED BY <1>14, <1>15, <1>16 DEF HasBlankLine

\* Every variable of the handshake keeps its type; in particular what is parsed
\* out of the buffer is a status and a challenge.
THEOREM TypeCorrect == Spec => []TypeOK
<1>1. TypeInv => TypeOK
  BY DEF TypeInv
<1> QED BY <1>1, TypeInit, TypeStep, PTL DEF Spec

-----------------------------------------------------------------------------
(***************************************************************************)
(* The invariant.  That the loop acts on the answer to its last CONNECT    *)
(* follows, as long as no page text has been taken for a status line, from *)
(* the layout of what has not been parsed yet: body bytes an earlier       *)
(* answer left behind, then at most one header, the last answer's,         *)
(* unbroken, and behind it that answer's body and the tunnel.              *)
(***************************************************************************)
Header(c) == c.k \in {"h", "e"}

NoHeaders(s) == \A i \in DOMAIN s : ~Header(s[i])

\* No more than n cells before the tunnel's own.
PayloadAfter(s, n) == \A i \in DOMAIN s : i > n => s[i].k = "p"

AnswerLayout(s, r) ==
  /\ \A i \in DOMAIN s : Header(s[i]) => s[i].r = r
  /\ \A i \in DOMAIN s : s[i].k = "h" =>
       \E m \in DOMAIN s : i < m /\ s[m].k = "e" /\ \A l \in i..(m - 1) : s[l].k = "h"
  /\ \A m, j \in DOMAIN s : s[m].k = "e" /\ m < j =>
       /\ ~Header(s[j])
       /\ m + r.len + r.extra < j => s[j].k = "p"

\* What the next read_http_headers, or the one under way, has before it.
Unread == IF pc \in {"read", "parse"} THEN buf \o stream ELSE stream

Layout ==
  /\ AnswerLayout(Unread, resp)
  /\ pc \in {"connect", "send", "drain", "decide", "step"} => NoHeaders(stream)
  /\ req # Idle => pc \in {"read", "parse", "failed"} /\ NoHeaders(Unread)
  /\ req # Idle => req \in {<<t>> : t \in Tokens}

\* How far the body of a 200 has been drained.
Drained ==
  /\ resp.status = 200 => resp.extra = 0
  /\ pc = "decide" => need = 0
  /\ pc \in {"drain", "decide"} /\ resp.status = 200 => PayloadAfter(stream, need)

Switched ==
  /\ px = "tunnel" <=> resp.status = 200
  /\ pc = "connect" => px = "http"
  /\ pc = "step" => status = 407

\* Why the next CONNECT may carry the credentials it will carry.
Entitled ==
  /\ pc = "connect" => tok = "none"
  /\ pc = "send" /\ tok # "none" => resp.status = 407 /\ (tok = "type3" => resp.chal = "token")

Counted ==
  /\ pc = "connect" => round = 0
  /\ pc \in {"connect", "send"} => Len(sent) = round
  /\ pc \in {"read", "parse", "drain", "decide", "step", "ok"} => Len(sent) = round + 1
  /\ req # Idle => Len(sent) > 0

\* How far an NTLM session has got, and the tokens it has sent by then.
NtlmProgress ==
  scheme = "NTLM" =>
    /\ sess = round /\ round \in 0..2
    /\ tok = CASE round = 0 -> "none" [] round = 1 -> "type1" [] round = 2 -> "type3"
    /\ pc \in {"connect", "send"} =>
         sent = CASE round = 0 -> <<>> [] round = 1 -> <<"none">> [] round = 2 -> <<"none", "type1">>
    /\ pc \notin {"connect", "send", "failed"} =>
         sent = CASE round = 0 -> <<"none">> [] round = 1 -> <<"none", "type1">>
                  [] round = 2 -> <<"none", "type1", "type3">>

\* What holds of the responses until page text is taken for a status line.
Led ==
  /\ Layout
  /\ Drained
  /\ Switched
  /\ Entitled
  /\ GrantedTunnel
  /\ NoConnectIntoTunnel
  /\ OnLastAnswer
  /\ OnChallenge
  /\ TunnelClean

IInv ==
  /\ TypeInv
  /\ Counted
  /\ NtlmProgress
  /\ NtlmLegs
  /\ RoundBudget
  /\ ~misled => Led

-----------------------------------------------------------------------------
(***************************************************************************)
(* How the layout changes as cells are read and sent.                      *)
(***************************************************************************)
\* Where the cells of two sequences are when they are put together.
LEMMA ConcatCells ==
  ASSUME NEW s \in Seq(Cell), NEW t \in Seq(Cell)
  PROVE  /\ s \o t \in Seq(Cell)
         /\ Len(s) \in Nat
         /\ Len(t) \in Nat
         /\ DOMAIN s = 1..Len(s)
         /\ DOMAIN t = 1..Len(t)
         /\ DOMAIN (s \o t) = 1..(Len(s) + Len(t))
         /\ \A i \in DOMAIN s : i \in DOMAIN (s \o t) /\ (s \o t)[i] = s[i]
         /\ \A i \in DOMAIN t : Len(s) + i \in DOMAIN (s \o t) /\ (s \o t)[Len(s) + i] = t[i]
         /\ \A i \in DOMAIN (s \o t) : i \notin DOMAIN s => i - Len(s) \in DOMAIN t
                                                          /\ (s \o t)[i] = t[i - Len(s)]
<1>1. /\ Len(s) \in Nat
      /\ Len(t) \in Nat
      /\ DOMAIN s = 1..Len(s)
      /\ DOMAIN t = 1..Len(t)
  BY LenProperties
<1>2. /\ s \o t \in Seq(Cell)
      /\ Len(s \o t) = Len(s) + Len(t)
      /\ \A i \in 1..(Len(s) + Len(t)) :
           (s \o t)[i] = IF i <= Len(s) THEN s[i] ELSE t[i - Len(s)]
  BY ConcatProperties
<1>3. DOMAIN (s \o t) = 1..(Len(s) + Len(t))
  BY <1>2, LenProperties
<1>4. \A i \in 1..Len(s) : i \in 1..(Len(s) + Len(t)) /\ (s \o t)[i] = s[i]
  BY <1>1, <1>2
<1>5. ASSUME NEW i \in 1..Len(t)
      PROVE  Len(s) + i \in 1..(Len(s) + Len(t)) /\ (s \o t)[Len(s) + i] = t[i]
  <2>1. Len(s) + i \in 1..(Len(s) + Len(t)) /\ ~(Len(s) + i <= Len(s)) /\ (Len(s) + i) - Len(s) = i
    BY <1>1
  <2> QED BY <1>2, <2>1
<1>6. \A i \in 1..(Len(s) + Len(t)) : i \notin 1..Len(s) =>
        i - Len(s) \in 1..Len(t) /\ (s \o t)[i] = t[i - Len(s)]
  BY <1>1, <1>2
<1> QED BY <1>1, <1>2, <1>3, <1>4, <1>5, <1>6

\* Without a header there is nothing to lay out.
LEMMA LayoutNoHeaders ==
  ASSUME NEW s, NEW r, NoHeaders(s)
  PROVE  AnswerLayout(s, r)
BY DEF NoHeaders, AnswerLayout, Header

\* What is left when a prefix has been read.
LEMMA LayoutSuffix ==
  ASSUME NEW s \in Seq(Cell), NEW t \in Seq(Cell), NEW r \in Response
  PROVE  /\ AnswerLayout(s \o t, r) => AnswerLayout(t, r)
         /\ NoHeaders(s \o t) => NoHeaders(t)
         /\ \A n \in Nat : Len(s) <= n /\ PayloadAfter(s \o t, n) => PayloadAfter(t, n - Len(s))
<1> DEFINE w == s \o t
<1>1. /\ Len(s) \in Nat
      /\ Len(t) \in Nat
      /\ DOMAIN t = 1..Len(t)
      /\ DOMAIN w = 1..(Len(s) + Len(t))
      /\ \A i \in 1..Len(t) : Len(s) + i \in DOMAIN w /\ w[Len(s) + i] = t[i]
  BY ConcatCells
<1> HIDE DEF w
<1>2. ASSUME AnswerLayout(w, r)
      PROVE  AnswerLayout(t, r)
  <2>1. ASSUME NEW i \in DOMAIN t, Header(t[i])
        PROVE  t[i].r = r
    BY <1>1, <1>2, <2>1 DEF AnswerLayout
  <2>2. ASSUME NEW i \in DOMAIN t, t[i].k = "h"
        PROVE  \E m \in DOMAIN t : i < m /\ t[m].k = "e" /\ \A l \in i..(m - 1) : t[l].k = "h"
    <3>1. Len(s) + i \in DOMAIN w /\ w[Len(s) + i].k = "h"
      BY <1>1, <2>2
    <3>2. PICK n \in DOMAIN w : /\ Len(s) + i < n
                                /\ w[n].k = "e"
                                /\ \A l \in (Len(s) + i)..(n - 1) : w[l].k = "h"
      BY <1>2, <3>1 DEF AnswerLayout
    <3>3. /\ n - Len(s) \in DOMAIN t
          /\ i < n - Len(s)
          /\ Len(s) + (n - Len(s)) = n
      BY <1>1, <3>2
    <3>4. t[n - Len(s)].k = "e"
      BY <1>1, <3>2, <3>3
    <3>5. ASSUME NEW l \in i..(n - Len(s) - 1)
          PROVE  t[l].k = "h"
      <4>1. i \in Int /\ n \in Int /\ Len(s) \in Int /\ Len(t) \in Int /\ 1 <= i
        BY <1>1, <3>2
      <4>2. n - Len(s) <= Len(t)
        BY <1>1, <3>3, <4>1
      <4>3. l \in 1..Len(t) /\ Len(s) + l \in (Len(s) + i)..(n - 1)
        BY <4>1, <4>2
      <4> QED BY <1>1, <3>2, <4>3
    <3> QED BY <3>3, <3>4, <3>5
  <2>3. ASSUME NEW m \in DOMAIN t, NEW j \in DOMAIN t, t[m].k = "e", m < j
        PROVE  ~Header(t[j]) /\ (m + r.len + r.extra < j => t[j].k = "p")
    <3>1. /\ Len(s) + m \in DOMAIN w /\ w[Len(s) + m].k = "e"
          /\ Len(s) + j \in DOMAIN w /\ w[Len(s) + j] = t[j]
          /\ Len(s) + m < Len(s) + j
      BY <1>1, <2>3
    <3>2. r.len \in Nat /\ r.extra \in Nat
      BY DEF Response
    <3>3. m \in Int /\ j \in Int /\ Len(s) \in Int
      BY <1>1
    <3>4. m + r.len + r.extra < j => (Len(s) + m) + r.len + r.extra < Len(s) + j
      BY <3>2, <3>3, SMTT(20)
    <3>5. /\ ~Header(w[Len(s) + j])
          /\ (Len(s) + m) + r.len + r.extra < Len(s) + j => w[Len(s) + j].k = "p"
      BY <1>2, <3>1, SMTT(20) DEF AnswerLayout
    <3> QED BY <3>1, <3>4, <3>5
  <2> QED BY <2>1, <2>2, <2>3 DEF AnswerLayout
<1>3. NoHeaders(w) => NoHeaders(t)
  BY <1>1 DEF NoHeaders
<1>4. ASSUME NEW n \in Nat, Len(s) <= n, PayloadAfter(w, n)
      PROVE  PayloadAfter(t, n - Len(s))
  <2>1. ASSUME NEW i \in DOMAIN t, i > n - Len(s)
        PROVE  t[i].k = "p"
    <3>1. Len(s) + i > n
      BY <1>1, <2>1
    <3> QED BY <1>1, <1>4, <3>1 DEF PayloadAfter
  <2> QED BY <2>1 DEF PayloadAfter
<1> QED BY <1>2, <1>3, <1>4 DEF w

\* The proxy answers: behind body bytes of earlier answers comes one header.
LEMMA LayoutWire ==
  ASSUME NEW s \in Seq(Cell), NEW r \in Response, NoHeaders(s)
  PROVE  AnswerLayout(s \o Wire(r), r)
<1> DEFINE t == Wire(r)
           w == s \o t
           e == Len(s) + r.fill + 1
           n == Len(s) + (r.fill + 1 + r.len + r.extra)
<1>1. r.fill \in Nat /\ r.len \in Nat /\ r.extra \in Nat /\ Len(s) \in Nat
  BY LenProperties DEF Response
<1>2. /\ DOMAIN w = 1..n
      /\ DOMAIN s = 1..Len(s)
      /\ \A i \in 1..Len(s) : w[i] = s[i]
      /\ \A i \in DOMAIN w : i \notin 1..Len(s) => w[i] = t[i - Len(s)]
  <2>1. t \in Seq(Cell) /\ Len(t) = r.fill + 1 + r.len + r.extra
    BY WireCells
  <2> HIDE DEF t
  <2>2. /\ DOMAIN w = 1..(Len(s) + Len(t))
        /\ DOMAIN s = 1..Len(s)
        /\ \A i \in DOMAIN s : w[i] = s[i]
        /\ \A i \in DOMAIN w : i \notin DOMAIN s => w[i] = t[i - Len(s)]
    <3>1. s \in Seq(Cell) /\ t \in Seq(Cell)
      BY <2>1
    <3>2. DOMAIN w = 1..(Len(s) + Len(t)) /\ DOMAIN s = 1..Len(s)
      BY ONLY <3>1, ConcatCells DEF w
    <3>3. \A i \in DOMAIN s : w[i] = s[i]
      BY ONLY <3>1, ConcatCells DEF w
    <3>4. \A i \in DOMAIN w : i \notin DOMAIN s => w[i] = t[i - Len(s)]
      BY ONLY <3>1, ConcatCells DEF w
    <3> QED BY <3>2, <3>3, <3>4
  <2> HIDE DEF w
  <2>3. DOMAIN w = 1..n
    BY <2>1, <2>2
  <2>4. \A i \in 1..Len(s) : w[i] = s[i]
    BY <2>2
  <2>5. \A i \in DOMAIN w : i \notin 1..Len(s) => w[i] = t[i - Len(s)]
    BY <2>2
  <2> QED BY <2>2, <2>3, <2>4, <2>5
<1>3. ASSUME NEW i \in 1..n
      PROVE  /\ i <= Len(s) => ~Header(w[i])
             /\ Len(s) < i /\ i < e => w[i] = [k |-> "h", r |-> r]
             /\ i = e => w[i] = [k |-> "e", r |-> r]
             /\ i > e => w[i].k \in {"b", "x"}
  <2>1. CASE i <= Len(s)
    <3>1. i \in 1..Len(s) /\ ~(Len(s) < i) /\ i # e /\ ~(i > e)
      BY <1>1, <2>1
    <3> QED BY <1>2, <3>1 DEF NoHeaders
  <2>2. CASE Len(s) < i
    <3>1. /\ i - Len(s) \in 1..(r.fill + 1 + r.len + r.extra)
          /\ i < e => i - Len(s) <= r.fill
          /\ i = e => i - Len(s) = r.fill + 1
          /\ i > e => i - Len(s) > r.fill + 1
          /\ i \notin 1..Len(s)
          /\ ~(i <= Len(s))
      BY <1>1, <2>2, SMTT(20)
    <3>2. w[i] = t[i - Len(s)]
      BY <1>2, <3>1
    <3> HIDE DEF w, e
    <3> QED BY <3>1, <3>2, WireCells
  <2>3. i \in Int /\ Len(s) \in Int
    BY <1>1
  <2>4. i <= Len(s) \/ Len(s) < i
    BY <2>3
  <2> HIDE DEF w, e, n
  <2> QED BY <2>1, <2>2, <2>4
<1>4. /\ e \in 1..n /\ Len(s) < e /\ e \in Nat
      /\ n \in Int /\ n = e + r.len + r.extra
  <2> DEFINE f == r.fill
             l == r.len
             x == r.extra
             a == Len(s)
  <2>1. f \in Nat /\ l \in Nat /\ x \in Nat /\ a \in Nat
    BY <1>1
  <2>2. e = a + f + 1 /\ n = a + (f + 1 + l + x)
    OBVIOUS
  <2> HIDE DEF e, n, f, l, x, a
  <2>3. e \in 1..n /\ a < e /\ e \in Nat /\ n \in Int /\ n = e + l + x
    BY ONLY <2>1, <2>2
  <2> QED BY <2>3 DEF a, l, x
<1> HIDE DEF w, e, n
<1>5. ASSUME NEW i \in DOMAIN w, Header(w[i])
      PROVE  w[i].r = r
  <2>1. i \in 1..n /\ i \in Int /\ e \in Int /\ Len(s) \in Int
    BY <1>1, <1>2, <1>4
  <2>2. Len(s) < i
    BY <1>3, <1>5, <2>1
  <2>3. ~(i > e)
    BY <1>3, <1>5, <2>1 DEF Header
  <2>4. w[i] \in {[k |-> "h", r |-> r], [k |-> "e", r |-> r]}
    BY <1>3, <2>1, <2>2, <2>3
  <2> QED BY <2>4
<1>6. ASSUME NEW i \in DOMAIN w, w[i].k = "h"
      PROVE  \E m \in DOMAIN w : i < m /\ w[m].k = "e" /\ \A l \in i..(m - 1) : w[l].k = "h"
  <2>1. Len(s) < i /\ i < e
    BY <1>1, <1>2, <1>3, <1>4, <1>6 DEF Header
  <2>2. w[e].k = "e"
    BY <1>3, <1>4
  <2>3. ASSUME NEW l \in i..(e - 1)
        PROVE  w[l].k = "h"
    <3>1. l \in 1..n /\ Len(s) < l /\ l < e
      <4>1. n \in Int /\ e \in Int /\ i \in Int /\ Len(s) \in Int
        BY <1>1, <1>2, <1>4
      <4> QED BY <1>4, <2>1, <4>1
    <3> QED BY <1>3, <3>1
  <2> QED BY <1>2, <1>4, <2>1, <2>2, <2>3
<1>7. ASSUME NEW m \in DOMAIN w, NEW j \in DOMAIN w, w[m].k = "e", m < j
      PROVE  ~Header(w[j]) /\ ~(m + r.len + r.extra < j)
  <2>1. m = e
    <3>1. m \in 1..n /\ m \in Int /\ e \in Int /\ Len(s) \in Int
      BY <1>1, <1>2, <1>4
    <3>2. Len(s) < m
      BY <1>3, <1>7, <3>1 DEF Header
    <3>3. ~(m > e)
      BY <1>3, <1>7, <3>1
    <3>4. ~(m < e)
      BY <1>3, <1>7, <3>1, <3>2
    <3> QED BY <3>1, <3>3, <3>4
  <2>2. j > e
    BY <1>7, <2>1
  <2>3. ~(m + r.len + r.extra < j)
    <3>1. j \in 1..n
      BY <1>2
    <3> QED BY <1>4, <2>1, <3>1
  <2> QED BY <1>2, <1>3, <2>2, <2>3 DEF Header
<1> QED BY <1>5, <1>6, <1>7 DEF AnswerLayout, w

\* The target sends through the tunnel.
LEMMA LayoutPayload ==
  ASSUME NEW s \in Seq(Cell), NEW r \in Response, NEW c \in Cell, c.k = "p"
  PROVE  /\ AnswerLayout(s, r) => AnswerLayout(Append(s, c), r)
         /\ NoHeaders(s) => NoHeaders(Append(s, c))
         /\ \A n \in Nat : PayloadAfter(s, n) => PayloadAfter(Append(s, c), n)
<1> DEFINE w == Append(s, c)
<1>1. /\ Len(s) \in Nat
      /\ DOMAIN s = 1..Len(s)
      /\ DOMAIN w = 1..(Len(s) + 1)
      /\ \A i \in 1..Len(s) : w[i] = s[i]
      /\ w[Len(s) + 1] = c
  BY AppendProperties, LenProperties
<1> HIDE DEF w
<1>2. \A i \in DOMAIN w : (i \in DOMAIN s /\ w[i] = s[i]) \/ w[i].k = "p"
  BY <1>1
<1>3. \A i \in DOMAIN s : i \in DOMAIN w /\ w[i] = s[i] /\ i \in Int
  BY <1>1
<1>4. ASSUME AnswerLayout(s, r)
      PROVE  AnswerLayout(w, r)
  <2>1. ASSUME NEW i \in DOMAIN w, Header(w[i])
        PROVE  w[i].r = r
    BY <1>2, <1>4, <2>1 DEF AnswerLayout, Header
  <2>2. ASSUME NEW i \in DOMAIN w, w[i].k = "h"
        PROVE  \E m \in DOMAIN w : i < m /\ w[m].k = "e" /\ \A l \in i..(m - 1) : w[l].k = "h"
    <3>1. i \in DOMAIN s /\ s[i].k = "h"
      BY <1>2, <2>2
    <3>2. PICK m \in DOMAIN s : i < m /\ s[m].k = "e" /\ \A l \in i..(m - 1) : s[l].k = "h"
      BY <1>4, <3>1 DEF AnswerLayout
    <3>3. \A l \in i..(m - 1) : l \in DOMAIN s
      BY <1>1, <3>1, <3>2
    <3> QED BY <1>3, <3>2, <3>3
  <2>3. ASSUME NEW m \in DOMAIN w, NEW j \in DOMAIN w, w[m].k = "e", m < j
        PROVE  ~Header(w[j]) /\ (m + r.len + r.extra < j => w[j].k = "p")
    BY <1>2, <1>4, <2>3 DEF AnswerLayout, Header
  <2> QED BY <2>1, <2>2, <2>3 DEF AnswerLayout
<1>5. NoHeaders(s) => NoHeaders(w)
  BY <1>2 DEF NoHeaders, Header
<1>6. \A n \in Nat : PayloadAfter(s, n) => PayloadAfter(w, n)
  BY <1>2 DEF PayloadAfter
<1> QED BY <1>4, <1>5, <1>6 DEF w

\* A buffer that holds a blank line and starts with a header holds all of the
\* last answer's header: what follows in the stream is its body and the tunnel.
LEMMA HeadersTaken ==
  ASSUME NEW b \in Seq(Cell), NEW s \in Seq(Cell), NEW r \in Response,
         AnswerLayout(b \o s, r), HasBlankLine(b), Header(b[1])
  PROVE  /\ b[1].r = r
         /\ NoHeaders(s)
         /\ r.extra = 0 => PayloadAfter(s, r.len)
         /\ ~NoHeaders(b \o s)
<1> DEFINE w == b \o s
<1>1. /\ Len(b) \in Nat
      /\ Len(s) \in Nat
      /\ DOMAIN b = 1..Len(b)
      /\ DOMAIN s = 1..Len(s)
      /\ DOMAIN w = 1..(Len(b) + Len(s))
      /\ \A i \in DOMAIN b : i \in DOMAIN w /\ w[i] = b[i]
      /\ \A i \in DOMAIN s : Len(b) + i \in DOMAIN w /\ w[Len(b) + i] = s[i]
  BY ConcatCells
<1> HIDE DEF w
<1>2. AnswerLayout(w, r)
  BY DEF w
<1>3. PICK j \in DOMAIN b : b[j].k \in {"e", "x"}
  BY DEF HasBlankLine
<1>4. 1 \in DOMAIN b /\ 1 \in DOMAIN w /\ w[1] = b[1]
  BY <1>1, <1>3
<1>5. b[1].r = r
  BY <1>2, <1>4 DEF AnswerLayout
<1>6. \E m \in DOMAIN b : w[m].k = "e"
  <2>1. CASE b[1].k = "e"
    BY <1>4, <2>1
  <2>2. CASE b[1].k = "h"
    <3>1. PICK m \in DOMAIN w : 1 < m /\ w[m].k = "e" /\ \A l \in 1..(m - 1) : w[l].k = "h"
      BY <1>2, <1>4, <2>2 DEF AnswerLayout
    <3>2. w[j].k \in {"e", "x"} /\ j \in 1..Len(b)
      BY <1>1, <1>3
    <3>3. j \notin 1..(m - 1)
      BY <3>1, <3>2
    <3>4. m <= j
      BY <1>1, <3>1, <3>2, <3>3
    <3>5. m \in DOMAIN b
      BY <1>1, <3>1, <3>2, <3>4
    <3> QED BY <3>1, <3>5
  <2> QED BY <2>1, <2>2 DEF Header
<1>7. PICK m \in DOMAIN b : w[m].k = "e"
  BY <1>6
<1>8. ASSUME NEW i \in DOMAIN s
      PROVE  /\ ~Header(s[i])
             /\ r.extra = 0 /\ i > r.len => s[i].k = "p"
  <2>1. /\ Len(b) + i \in DOMAIN w /\ w[Len(b) + i] = s[i]
        /\ m \in DOMAIN w
        /\ m < Len(b) + i
    BY <1>1, <1>7
  <2>2. r.len \in Nat
    BY DEF Response
  <2>3. r.extra = 0 /\ i > r.len => m + r.len + r.extra < Len(b) + i
    BY <1>1, <1>7, <2>2
  <2> QED BY <1>2, <1>7, <2>1, <2>3 DEF AnswerLayout
<1> QED BY <1>4, <1>5, <1>8 DEF NoHeaders, PayloadAfter, w

-----------------------------------------------------------------------------
(***************************************************************************)
(* The invariant is inductive.                                             *)
(***************************************************************************)
\* A status line that parses is the last answer's, and nobody is waiting.
LEMMA ParsedIsLast ==
  ASSUME IInv, ~misled, pc = "parse", ParsedStatus # Unparsable
  PROVE  /\ buf[1].r = resp
         /\ ParsedStatus = resp.status
         /\ req = Idle
         /\ NoHeaders(stream)
         /\ resp.extra = 0 => PayloadAfter(stream, resp.len)
<1>1. buf \in Seq(Cell) /\ stream \in Seq(Cell) /\ resp \in Response
  BY DEF IInv, TypeInv, TypeOK
<1>2. Header(buf[1]) /\ ParsedStatus = buf[1].r.status
  BY DEF ParsedStatus, Header
<1>3. AnswerLayout(buf \o stream, resp) /\ HasBlankLine(buf)
  BY DEF IInv, Led, TypeInv, Layout, Unread
<1>4. /\ buf[1].r = resp
      /\ NoHeaders(stream)
      /\ resp.extra = 0 => PayloadAfter(stream, resp.len)
      /\ ~NoHeaders(buf \o stream)
  BY <1>1, <1>2, <1>3, HeadersTaken
<1>5. req = Idle
  BY <1>4 DEF IInv, Led, Layout, Unread
<1> QED BY <1>2, <1>4, <1>5

\* A step that does not mislead was not a misreading, and found the loop not misled.
LEMMA NotMisled ==
  ASSUME IInv, [Next]_vars, ~misled'
  PROVE  ~misled /\ Led /\ ~Misread
<1>1. ~Misread
  BY DEF Misread
<1>2. ~misled
  BY <1>1 DEF Next, ClientStep, ProxyStep, Connect, SendConnect, ReadHeaders, ParseResponse,
              DrainBody, PeerClosed, Decide, StepSession, Splice, Answer, SendPayload,
              CloseConnection, vars
<1> QED BY <1>1, <1>2 DEF IInv

\* A CONNECT sent on a connection without one unanswered is the one to be answered.
LEMMA OneRequest ==
  ASSUME NEW t \in Tokens
  PROVE  /\ Append(Idle, t) = <<t>> /\ <<t>> # Idle
         /\ Head(<<t>>) = t /\ Tail(<<t>>) = Idle
BY DEF Idle

\* Reads, drains and answers keep the layout of what is unread.
LEMMA LayoutStep == IInv /\ [Next]_vars /\ ~misled' => Layout'
<1> SUFFICES ASSUME IInv, [Next]_vars, ~misled'
             PROVE  Layout'
  OBVIOUS
<1>m. ~misled /\ Led /\ ~Misread
  BY NotMisled
<1>0. /\ buf \in Seq(Cell) /\ stream \in Seq(Cell) /\ resp \in Response
      /\ buf' \in Seq(Cell) /\ stream' \in Seq(Cell) /\ resp' \in Response
  <2>1. TypeInv'
    BY TypeStep DEF IInv
  <2> QED BY <2>1 DEF IInv, TypeInv, TypeOK
<1>1. /\ AnswerLayout(Unread, resp)
      /\ pc \in {"connect", "send", "drain", "decide", "step"} => NoHeaders(stream)
      /\ req # Idle => pc \in {"read", "parse", "failed"} /\ NoHeaders(Unread)
      /\ req # Idle => req \in {<<t>> : t \in Tokens}
  BY <1>m DEF Led, Layout
<1>2. NoHeaders(<<>>)
  BY DEF NoHeaders
<1>3. ASSUME Connect
      PROVE  Layout'
  BY <1>1, <1>3 DEF Connect, Fail, proxy, Layout, Unread
<1>4. ASSUME SendConnect
      PROVE  Layout'
  <2>1. NoHeaders(stream) /\ pc = "send" /\ UNCHANGED <<stream, resp>>
    BY <1>1, <1>4 DEF SendConnect
  <2>2. CASE pc' = "read" /\ buf' = <<>>
    <3>1. Unread' = stream
      BY <1>0, <2>1, <2>2, ConcatEmptySeq DEF Unread
    <3>2. req = Idle /\ tok \in Tokens
      BY <1>1, <2>1 DEF IInv, TypeInv, TypeOK
    <3>3. req' \in {Idle, <<tok>>}
      BY <1>4, <2>2, <3>2, OneRequest DEF SendConnect, Fail
    <3>4. req' # Idle => req' \in {<<t>> : t \in Tokens}
      BY <3>2, <3>3
    <3> QED BY <2>1, <2>2, <3>1, <3>4, LayoutNoHeaders DEF Layout
  <2>3. CASE pc' = "failed" /\ req' = req
    BY <1>1, <2>1, <2>3, LayoutNoHeaders DEF Layout, Unread
  <2> QED BY <1>4, <2>2, <2>3 DEF SendConnect, Fail
<1>5. ASSUME ReadHeaders
      PROVE  Layout'
  <2>1. PICK n \in 1..Len(stream) :
          /\ buf' = buf \o SubSeq(stream, 1, n)
          /\ stream' = SubSeq(stream, n + 1, Len(stream))
    BY <1>5 DEF ReadHeaders
  <2>2. /\ pc = "read"
        /\ pc' \in {"read", "parse", "failed"}
        /\ UNCHANGED <<req, resp>>
    BY <1>5 DEF ReadHeaders, Fail, proxy
  <2>3. /\ SubSeq(stream, 1, n) \in Seq(Cell)
        /\ SubSeq(stream, 1, n) \o stream' = stream
    BY <1>0, <2>1, Split
  <2>4. buf' \o stream' = buf \o stream
    <3>1. (buf \o SubSeq(stream, 1, n)) \o stream' = buf \o (SubSeq(stream, 1, n) \o stream')
      <4>1. /\ buf \in Seq(Cell)
            /\ stream' \in Seq(Cell)
        BY <1>0
      <4> QED BY <2>3, <4>1, ConcatAssociative
    <3> QED BY <2>1, <2>3, <3>1
  <2>5. /\ AnswerLayout(buf' \o stream', resp)
        /\ req # Idle => NoHeaders(buf' \o stream')
    BY <1>1, <2>2, <2>4 DEF Unread
  <2>6. /\ AnswerLayout(stream', resp)
        /\ req # Idle => NoHeaders(stream')
    BY <1>0, <2>5, LayoutSuffix
  <2> QED BY <1>1, <2>2, <2>5, <2>6 DEF Layout, Unread
<1>6. ASSUME ParseResponse
      PROVE  Layout'
  <2>1. pc = "parse" /\ UNCHANGED <<stream, buf, req, resp>>
    BY <1>6 DEF ParseResponse, proxy
  <2>2. CASE ParsedStatus # Unparsable
    <3>1. pc' \in {"drain", "decide"}
      BY <1>6, <2>2 DEF ParseResponse, Fail
    <3>2. NoHeaders(stream) /\ req = Idle
      BY <1>m, <2>1, <2>2, ParsedIsLast
    <3> QED BY <2>1, <3>1, <3>2, LayoutNoHeaders DEF Layout, Unread
  <2>3. CASE ParsedStatus = Unparsable
    <3>1. pc' = "failed"
      BY <1>6, <2>3 DEF ParseResponse, Fail
    <3>2. /\ AnswerLayout(buf \o stream, resp)
          /\ req # Idle => NoHeaders(buf \o stream)
      BY <1>1, <2>1 DEF Unread
    <3>3. /\ AnswerLayout(stream, resp)
          /\ req # Idle => NoHeaders(stream)
      BY <1>0, <3>2, LayoutSuffix
    <3> QED BY <1>1, <2>1, <3>1, <3>3 DEF Layout, Unread
  <2> QED BY <2>2, <2>3
<1>7. ASSUME DrainBody
      PROVE  Layout'
  <2>1. PICK n \in 1..Len(stream) : stream' = SubSeq(stream, n + 1, Len(stream))
    BY <1>7 DEF DrainBody
  <2>2. /\ pc = "drain"
        /\ pc' \in {"drain", "decide"}
        /\ UNCHANGED <<req, resp>>
    BY <1>7 DEF DrainBody, proxy
  <2>3. /\ SubSeq(stream, 1, n) \in Seq(Cell)
        /\ SubSeq(stream, 1, n) \o stream' = stream
    BY <1>0, <2>1, Split
  <2>4. NoHeaders(SubSeq(stream, 1, n) \o stream')
    BY <1>1, <2>2, <2>3
  <2>5. NoHeaders(stream')
    BY <1>0, <2>3, <2>4, LayoutSuffix
  <2> QED BY <1>1, <2>2, <2>5, LayoutNoHeaders DEF Layout, Unread
<1>8. ASSUME PeerClosed
      PROVE  Layout'
  BY <1>1, <1>2, <1>8, LayoutNoHeaders DEF PeerClosed, Fail, proxy, Layout, Unread
<1>9. ASSUME Decide \/ StepSession
      PROVE  Layout'
  BY <1>1, <1>9, LayoutNoHeaders DEF Decide, StepSession, Fail, proxy, Layout, Unread
<1>10. ASSUME Splice
       PROVE  Layout'
  BY <1>1, <1>2, <1>10, LayoutNoHeaders DEF Splice, proxy, Layout, Unread
<1>11. ASSUME Answer
       PROVE  Layout'
  <2>1. PICK r \in Answers : resp' = r /\ stream' = stream \o Wire(r)
    BY <1>11 DEF Answer
  <2>2. /\ req # Idle
        /\ req' = Idle
        /\ UNCHANGED <<pc, buf>>
    BY <1>1, <1>11, OneRequest DEF Answer, client
  <2>3. r \in Response /\ Wire(r) \in Seq(Cell)
    BY AnswersType, WireCells
  <2>4. CASE pc \in {"read", "parse"}
    <3>1. Unread' = (buf \o stream) \o Wire(r)
      <4>1. buf \in Seq(Cell) /\ stream \in Seq(Cell)
        BY <1>0
      <4>2. (buf \o stream) \o Wire(r) = buf \o (stream \o Wire(r))
        BY <2>3, <4>1, ConcatAssociative
      <4> QED BY <2>1, <2>2, <2>4, <4>2 DEF Unread
    <3>2. NoHeaders(buf \o stream) /\ buf \o stream \in Seq(Cell)
      BY <1>0, <1>1, <2>2, <2>4, ConcatProperties DEF Unread
    <3>3. AnswerLayout(Unread', r)
      BY <2>3, <3>1, <3>2, LayoutWire
    <3> QED BY <2>1, <2>2, <2>4, <3>3 DEF Layout
  <2>5. CASE pc = "failed"
    <3>1. NoHeaders(stream)
      BY <1>1, <2>2, <2>5 DEF Unread
    <3>2. AnswerLayout(stream', r)
      BY <1>0, <2>1, <2>3, <3>1, LayoutWire
    <3> QED BY <2>1, <2>2, <2>5, <3>2 DEF Layout, Unread
  <2> QED BY <1>1, <2>2, <2>4, <2>5
<1>12. ASSUME SendPayload
       PROVE  Layout'
  <2> DEFINE c == [k |-> "p", r |-> NoResponse]
  <2>1. /\ stream' = Append(stream, c)
        /\ req = Idle
        /\ UNCHANGED <<pc, buf, req, resp>>
    BY <1>m, <1>12 DEF SendPayload, client, Led, NoConnectIntoTunnel
  <2>2. c \in Cell /\ c.k = "p"
    BY DEF Cell, NoResponse, Response, Statuses, Challenges
  <2> HIDE DEF c
  <2>3. NoHeaders(stream) => NoHeaders(stream')
    BY <1>0, <2>1, <2>2, LayoutPayload
  <2>4. CASE pc \in {"read", "parse"}
    <3>1. Unread' = Append(buf \o stream, c)
      <4>1. stream' = stream \o <<c>> /\ <<c>> \in Seq(Cell)
        BY <1>0, <2>1, <2>2, AppendIsConcat
      <4>2. buf \o stream' = (buf \o stream) \o <<c>>
        BY <1>0, <4>1, ConcatAssociative
      <4>3. buf \o stream \in Seq(Cell)
        BY <1>0, ConcatProperties
      <4>4. (buf \o stream) \o <<c>> = Append(buf \o stream, c)
        BY <2>2, <4>3, AppendIsConcat
      <4> QED BY <2>1, <2>4, <4>2, <4>4 DEF Unread
    <3>2. buf \o stream \in Seq(Cell) /\ AnswerLayout(buf \o stream, resp)
      BY <1>0, <1>1, <2>4, ConcatProperties DEF Unread
    <3>3. AnswerLayout(Unread', resp)
      BY <1>0, <2>2, <3>1, <3>2, LayoutPayload
    <3> QED BY <1>1, <2>1, <2>3, <2>4, <3>3 DEF Layout
  <2>5. CASE pc \notin {"read", "parse"}
    <3>1. AnswerLayout(stream, resp)
      BY <1>1, <2>5 DEF Unread
    <3>2. AnswerLayout(stream', resp)
      BY <1>0, <2>1, <2>2, <3>1, LayoutPayload
    <3> QED BY <1>1, <2>1, <2>3, <2>5, <3>2 DEF Layout, Unread
  <2> QED BY <2>4, <2>5
<1>13. ASSUME CloseConnection \/ UNCHANGED vars
       PROVE  Layout'
  BY <1>1, <1>13 DEF CloseConnection, vars, client, proxy, Layout, Unread
<1> QED BY <1>m, <1>3, <1>4, <1>5, <1>6, <1>7, <1>8, <1>9, <1>10, <1>11, <1>12, <1>13
        DEF Next, ClientStep, ProxyStep

\* The loop keeps acting on the answer to its last CONNECT.
LEMMA AnswerStep ==
  IInv /\ [Next]_vars /\ ~misled' =>
    /\ Switched' /\ Entitled'
    /\ GrantedTunnel' /\ NoConnectIntoTunnel'
    /\ OnLastAnswer' /\ OnChallenge'
<1> DEFINE Goal == /\ Switched /\ Entitled
                   /\ GrantedTunnel /\ NoConnectIntoTunnel
                   /\ OnLastAnswer /\ OnChallenge
<1> SUFFICES ASSUME IInv, [Next]_vars, ~misled'
             PROVE  Goal'
  OBVIOUS
<1>m. ~misled /\ Led /\ ~Misread
  BY NotMisled
<1> USE DEF Switched, Entitled, GrantedTunnel, NoConnectIntoTunnel, OnLastAnswer,
            OnChallenge
<1>0. /\ Goal
      /\ req # Idle => pc \in {"read", "parse", "failed"}
      /\ req # Idle => req \in {<<t>> : t \in Tokens}
      /\ tok \in Tokens
      /\ pc \in PCs
      /\ px \in {"http", "tunnel"}
  BY <1>m DEF IInv, Led, Layout, TypeInv, TypeOK
<1>1. ASSUME Connect
      PROVE  Goal'
  BY <1>0, <1>m, <1>1 DEF Connect, Fail, proxy
<1>2. ASSUME SendConnect
      PROVE  Goal'
  <2>1. /\ pc = "send" /\ px = "http" /\ req = Idle
        /\ UNCHANGED <<status, chal, tok, resp, px>>
    BY <1>0, <1>2 DEF SendConnect
  <2>2. \/ pc' = "read" /\ req' \in {Idle, <<tok>>}
        \/ pc' = "failed" /\ req' = Idle
    <3>1. Append(req, tok) = <<tok>>
      BY <1>0, <2>1, OneRequest
    <3>2. \/ req' \in {req, Append(req, tok)} /\ pc' = "read"
          \/ req' = req /\ pc' = "failed"
      BY <1>2 DEF SendConnect, Fail
    <3> QED BY <2>1, <3>1, <3>2
  <2>3. <<tok>> # Idle /\ Head(<<tok>>) = tok
    BY <1>0, OneRequest
  <2>4. req' # Idle => Head(req') = tok
    BY <2>1, <2>2, <2>3
  <2> QED BY <1>0, <1>m, <2>1, <2>2, <2>4
<1>3. ASSUME ReadHeaders
      PROVE  Goal'
  <2>1. /\ pc = "read"
        /\ pc' \in {"read", "parse", "failed"}
        /\ UNCHANGED <<status, chal, tok, req, resp, px>>
    BY <1>3 DEF ReadHeaders, Fail, proxy
  <2> QED BY <1>0, <1>m, <2>1
<1>4. ASSUME ParseResponse
      PROVE  Goal'
  <2>1. pc = "parse" /\ UNCHANGED <<tok, req, resp, px>>
    BY <1>4 DEF ParseResponse, proxy
  <2>2. CASE ParsedStatus # Unparsable
    <3>1. pc' \in {"drain", "decide"} /\ status' = ParsedStatus /\ chal' = buf[1].r.chal
      BY <1>4, <2>2 DEF ParseResponse, Fail
    <3>2. ParsedStatus = resp.status /\ buf[1].r = resp /\ req = Idle
      BY <1>m, <2>1, <2>2, ParsedIsLast
    <3> QED BY <1>0, <1>m, <2>1, <3>1, <3>2
  <2>3. CASE ParsedStatus = Unparsable
    <3>1. pc' = "failed" /\ UNCHANGED <<status, chal>>
      BY <1>4, <2>3 DEF ParseResponse, Fail
    <3> QED BY <1>0, <1>m, <2>1, <3>1
  <2> QED BY <2>2, <2>3
<1>5. ASSUME DrainBody
      PROVE  Goal'
  <2>1. /\ pc = "drain"
        /\ pc' \in {"drain", "decide"}
        /\ UNCHANGED <<status, chal, tok, req, resp, px>>
    BY <1>5 DEF DrainBody, proxy
  <2> QED BY <1>0, <1>m, <2>1
<1>6. ASSUME PeerClosed
      PROVE  Goal'
  BY <1>0, <1>m, <1>6 DEF PeerClosed, Fail, proxy
<1>7. ASSUME Decide
      PROVE  Goal'
  <2>1. /\ pc = "decide"
        /\ \/ pc' = "ok" /\ status = 200
           \/ pc' = "step" /\ status = 407
           \/ pc' = "failed"
        /\ UNCHANGED <<status, chal, tok, req, resp, px>>
    BY <1>7 DEF Decide, Fail, proxy, Granted, Challenged
  <2> QED BY <1>0, <1>m, <2>1
<1>8. ASSUME StepSession
      PROVE  Goal'
  <2>1. /\ pc = "step" /\ status = 407
        /\ resp.status = 407 /\ chal = resp.chal
        /\ req = Idle
        /\ UNCHANGED <<status, chal, req, resp, px>>
    BY <1>0, <1>m, <1>8 DEF StepSession, proxy
  <2>2. \A o \in StepOutcomes : o.out = "type3" => chal = "token"
    BY DEF StepOutcomes, BasicStep, NtlmStep, KerberosStep
  <2>3. \/ pc' = "send" /\ (tok' = "type3" => chal = "token")
        \/ pc' = "failed"
    BY <1>8, <2>2 DEF StepSession, Fail
  <2> QED BY <1>0, <1>m, <2>1, <2>3
<1>9. ASSUME Splice \/ CloseConnection \/ SendPayload \/ UNCHANGED vars
      PROVE  Goal'
  <2>1. UNCHANGED <<pc, status, chal, tok, req, resp, px>>
    BY <1>9 DEF Splice, CloseConnection, SendPayload, vars, client, proxy
  <2> QED BY <1>0, <1>m, <2>1
<1>10. ASSUME Answer
       PROVE  Goal'
  <2>1. /\ pc \in {"read", "parse", "failed"}
        /\ px = "http"
        /\ req' = Idle
        /\ px' = IF resp'.status = 200 THEN "tunnel" ELSE px
        /\ UNCHANGED <<pc, status, chal, tok>>
    <3>1. PICK t \in Tokens : req = <<t>>
      BY <1>0, <1>10 DEF Answer
    <3>2. Tail(req) = Idle
      BY <3>1, OneRequest
    <3>3. /\ req # Idle
          /\ req' \in {Idle, Tail(req)}
          /\ px' = IF resp'.status = 200 THEN "tunnel" ELSE px
          /\ UNCHANGED <<pc, status, chal, tok>>
      BY <1>10 DEF Answer, client
    <3> QED BY <1>0, <1>m, <3>2, <3>3
  <2> QED BY <1>0, <1>m, <2>1
<1> QED BY <1>m, <1>1, <1>2, <1>3, <1>4, <1>5, <1>6, <1>7, <1>8, <1>9, <1>10
        DEF Next, ClientStep, ProxyStep

\* The CONNECTs sent are counted by the rounds of the loop.
LEMMA CountStep == IInv /\ [Next]_vars => Counted' /\ RoundBudget'
<1> SUFFICES ASSUME IInv, [Next]_vars
             PROVE  Counted' /\ RoundBudget'
  OBVIOUS
<1> USE DEF Counted, RoundBudget
<1>0. /\ Counted /\ RoundBudget
      /\ pc \in PCs
      /\ round \in Nat /\ MaxRounds \in Nat
      /\ round <= MaxRounds
      /\ sent \in Seq(Tokens) /\ Len(sent) \in Nat
      /\ tok \in Tokens
      /\ why \in Reasons
  BY ConstantsAssumption, LenProperties DEF IInv, TypeInv, TypeOK
<1>1. ASSUME Connect
      PROVE  Counted' /\ RoundBudget'
  BY <1>0, <1>1 DEF Connect, Fail, proxy
<1>2. ASSUME SendConnect
      PROVE  Counted' /\ RoundBudget'
  <2>1. Len(Append(sent, tok)) = Len(sent) + 1
    BY <1>0, AppendProperties
  <2>2. CASE pc' = "read" /\ sent' = Append(sent, tok) /\ UNCHANGED why
    <3>1. Len(sent') = round + 1 /\ round' = round
      BY <1>0, <1>2, <2>1, <2>2 DEF SendConnect
    <3>2. why # "exhausted" \/ Len(sent') = MaxRounds + 1
      BY <1>0, <1>2, <3>1 DEF SendConnect
    <3> QED BY <1>0, <2>2, <3>1, <3>2
  <2>3. CASE pc' = "failed" /\ why' = "write" /\ UNCHANGED <<req, sent>>
    BY <1>0, <1>2, <2>3 DEF SendConnect
  <2> QED BY <1>2, <2>2, <2>3 DEF SendConnect, Fail
<1>3. ASSUME ReadHeaders \/ ParseResponse \/ Misread \/ DrainBody \/ PeerClosed
      PROVE  Counted' /\ RoundBudget'
  <2>1. /\ pc \in {"read", "parse", "drain"}
        /\ \/ pc' \in {"read", "parse", "drain", "decide"} /\ why' = why
           \/ pc' = "failed" /\ why' \in {"header", "garbage", "eof"}
        /\ UNCHANGED <<round, sent, req>>
    BY <1>3 DEF ReadHeaders, ParseResponse, Misread, DrainBody, PeerClosed, WaitingForPeer, Fail, proxy
  <2> QED BY <1>0, <2>1
<1>4. ASSUME Decide
      PROVE  Counted' /\ RoundBudget'
  <2>1. /\ pc = "decide"
        /\ \/ pc' \in {"ok", "step"} /\ why' = why
           \/ pc' = "failed" /\ why' = "refused"
           \/ pc' = "failed" /\ why' = "exhausted" /\ ~(round < MaxRounds)
        /\ UNCHANGED <<round, sent, req>>
    BY <1>4 DEF Decide, Fail, proxy, RoundsLeft
  <2> QED BY <1>0, <2>1
<1>5. ASSUME StepSession
      PROVE  Counted' /\ RoundBudget'
  <2>1. /\ pc = "step"
        /\ \/ pc' = "send" /\ why' = why /\ round' = round + 1
           \/ pc' = "failed" /\ why' = "session" /\ round' = round
        /\ UNCHANGED <<sent, req>>
    BY <1>5 DEF StepSession, Fail, proxy
  <2> QED BY <1>0, <2>1
<1>6. ASSUME Splice \/ CloseConnection \/ SendPayload \/ Answer \/ UNCHANGED vars
      PROVE  Counted' /\ RoundBudget'
  <2>1. UNCHANGED <<pc, why, round, sent>> /\ (req' # Idle => req # Idle)
    BY <1>6 DEF Splice, CloseConnection, SendPayload, Answer, vars, client, proxy
  <2> QED BY <1>0, <2>1
<1> QED BY <1>1, <1>2, <1>3, <1>4, <1>5, <1>6 DEF Next, ClientStep, ProxyStep

\* What appending to a written-out sequence gives.
LEMMA AppendToOne ==
  ASSUME NEW a, NEW b
  PROVE  Append(<<a>>, b) = <<a, b>>
<1>1. /\ <<a>> \in Seq({a, b}) /\ <<a, b>> \in Seq({a, b})
      /\ Len(<<a>>) = 1 /\ Len(<<a, b>>) = 2
  OBVIOUS
<1>2. /\ Append(<<a>>, b) \in Seq({a, b})
      /\ Len(Append(<<a>>, b)) = 2
      /\ Append(<<a>>, b)[1] = a
      /\ Append(<<a>>, b)[2] = b
  BY <1>1, AppendProperties
<1>3. \A i \in 1..Len(Append(<<a>>, b)) : Append(<<a>>, b)[i] = <<a, b>>[i]
  BY <1>2
<1>4. Len(Append(<<a>>, b)) = Len(<<a, b>>)
  BY <1>1, <1>2
<1> QED BY <1>1, <1>2, <1>3, <1>4, SeqEqual

\* The same for two.
LEMMA AppendToTwo ==
  ASSUME NEW a, NEW b, NEW c
  PROVE  Append(<<a, b>>, c) = <<a, b, c>>
<1>1. /\ <<a, b>> \in Seq({a, b, c}) /\ <<a, b, c>> \in Seq({a, b, c})
      /\ Len(<<a, b>>) = 2 /\ Len(<<a, b, c>>) = 3
  OBVIOUS
<1>2. /\ Append(<<a, b>>, c) \in Seq({a, b, c})
      /\ Len(Append(<<a, b>>, c)) = 3
      /\ Append(<<a, b>>, c)[1] = a
      /\ Append(<<a, b>>, c)[2] = b
      /\ Append(<<a, b>>, c)[3] = c
  BY <1>1, AppendProperties
<1>3. \A i \in 1..Len(Append(<<a, b>>, c)) : Append(<<a, b>>, c)[i] = <<a, b, c>>[i]
  BY <1>2
<1>4. Len(Append(<<a, b>>, c)) = Len(<<a, b, c>>)
  BY <1>1, <1>2
<1> QED BY <1>1, <1>2, <1>3, <1>4, SeqEqual

\* An NTLM session answers each challenge with its next message and none twice.
LEMMA LegsStep == IInv /\ [Next]_vars => NtlmProgress' /\ NtlmLegs'
<1> SUFFICES ASSUME IInv, [Next]_vars, scheme' = "NTLM"
             PROVE  NtlmProgress' /\ NtlmLegs'
  BY DEF NtlmProgress, NtlmLegs
<1>0. scheme = "NTLM" /\ MaxRounds \in Nat \ {0}
  BY ConstantsAssumption
     DEF Next, ClientStep, ProxyStep, Connect, SendConnect, ReadHeaders, ParseResponse, Misread,
         DrainBody, PeerClosed, Decide, StepSession, Splice, Answer, SendPayload,
         CloseConnection, vars, client
<1>1. NtlmProgress /\ NtlmLegs /\ sess = round /\ round \in 0..2
  BY <1>0 DEF IInv, NtlmProgress
<1>2. ASSUME SendConnect
      PROVE  NtlmProgress' /\ NtlmLegs'
  <2>1. pc = "send" /\ UNCHANGED <<sess, round, tok>>
    BY <1>2 DEF SendConnect
  <2>2. Append(sent, tok) = CASE round = 0 -> <<"none">> [] round = 1 -> <<"none", "type1">>
                              [] round = 2 -> <<"none", "type1", "type3">>
    <3>1. CASE round = 0
      <4>1. sent = <<>> /\ tok = "none"
        BY <1>0, <1>1, <2>1, <3>1 DEF NtlmProgress
      <4> QED BY <3>1, <4>1
    <3>2. CASE round = 1
      <4>1. sent = <<"none">> /\ tok = "type1"
        BY <1>0, <1>1, <2>1, <3>2 DEF NtlmProgress
      <4>2. Append(<<"none">>, "type1") = <<"none", "type1">>
        BY AppendToOne
      <4> QED BY <3>2, <4>1, <4>2
    <3>3. CASE round = 2
      <4>1. sent = <<"none", "type1">> /\ tok = "type3"
        BY <1>0, <1>1, <2>1, <3>3 DEF NtlmProgress
      <4>2. Append(<<"none", "type1">>, "type3") = <<"none", "type1", "type3">>
        BY AppendToTwo
      <4> QED BY <3>3, <4>1, <4>2
    <3> QED BY <1>1, <3>1, <3>2, <3>3
  <2>3. CASE pc' = "read" /\ sent' = Append(sent, tok) /\ why' = why
    BY <1>0, <1>1, <2>1, <2>2, <2>3 DEF NtlmProgress, NtlmLegs
  <2>4. CASE pc' = "failed" /\ sent' = sent /\ why' = "write"
    BY <1>0, <1>1, <2>1, <2>4 DEF NtlmProgress, NtlmLegs
  <2> QED BY <1>2, <2>3, <2>4 DEF SendConnect, Fail
<1>3. ASSUME StepSession
      PROVE  NtlmProgress' /\ NtlmLegs'
  <2>1. pc = "step" /\ sent' = sent
    BY <1>3 DEF StepSession
  <2>2. PICK o \in StepOutcomes :
          /\ sess' = o.next
          /\ \/ /\ o.out \in Tokens /\ tok' = o.out /\ round' = round + 1
                /\ pc' = "send" /\ why' = why
             \/ /\ o.out \notin Tokens /\ tok' = tok /\ round' = round
                /\ pc' = "failed" /\ why' = "session"
    BY <1>3 DEF StepSession, Fail
  <2>3. o \in NtlmStep
    BY <1>0, <2>2 DEF StepOutcomes
  <2>4. \/ round = 0 /\ o = [next |-> 1, out |-> "type1"]
        \/ round = 1 /\ o = [next |-> 2, out |-> "type3"]
        \/ o.next = round /\ o.out \in {"Err", "None"}
    BY <1>1, <2>3 DEF NtlmStep, NtlmInitial, NtlmChallenge, NtlmComplete
  <2>5. CASE round = 0 /\ o = [next |-> 1, out |-> "type1"]
    <3>1. pc' = "send" /\ sess' = 1 /\ round' = 1 /\ tok' = "type1" /\ why' = why
      BY <2>2, <2>5 DEF Tokens
    <3> QED BY <1>0, <1>1, <2>1, <2>5, <3>1 DEF NtlmProgress, NtlmLegs
  <2>6. CASE round = 1 /\ o = [next |-> 2, out |-> "type3"]
    <3>1. pc' = "send" /\ sess' = 2 /\ round' = 2 /\ tok' = "type3" /\ why' = why
      BY <2>2, <2>6 DEF Tokens
    <3> QED BY <1>0, <1>1, <2>1, <2>6, <3>1 DEF NtlmProgress, NtlmLegs
  <2>7. CASE o.next = round /\ o.out \in {"Err", "None"}
    <3>1. /\ pc' = "failed" /\ why' = "session"
          /\ sess' = sess /\ round' = round /\ tok' = tok
      BY <1>1, <2>2, <2>7 DEF Tokens
    <3> QED BY <1>0, <1>1, <2>1, <3>1 DEF NtlmProgress, NtlmLegs
  <2> QED BY <2>4, <2>5, <2>6, <2>7
<1>4. ASSUME Decide
      PROVE  NtlmProgress' /\ NtlmLegs'
  <2>1. /\ pc = "decide" /\ pc' \in {"ok", "step", "failed"}
        /\ UNCHANGED <<sess, round, tok, sent>>
    BY <1>4 DEF Decide, Fail
  <2>2. why' = "exhausted" => why = "exhausted" \/ MaxRounds <= 2
    BY <1>0, <1>1, <1>4 DEF Decide, Fail, RoundsLeft
  <2>3. MaxRounds > 2 => why' # "exhausted"
    BY <1>0, <1>1, <2>2 DEF NtlmLegs
  <2> QED BY <1>0, <1>1, <2>1, <2>3 DEF NtlmProgress, NtlmLegs
<1>5. ASSUME Connect \/ ReadHeaders \/ ParseResponse \/ Misread \/ DrainBody \/ PeerClosed
      PROVE  NtlmProgress' /\ NtlmLegs'
  <2>1. /\ UNCHANGED <<sess, round, tok, sent>>
        /\ why' \in {why, "connect", "header", "garbage", "eof"}
        /\ \/ pc = "connect" /\ pc' = "send"
           \/ pc' = "failed"
           \/ pc \in {"read", "parse", "drain"} /\ pc' \in {"read", "parse", "drain", "decide"}
    BY <1>5 DEF Connect, ReadHeaders, ParseResponse, Misread, DrainBody, PeerClosed, Fail
  <2> QED BY <1>0, <1>1, <2>1 DEF NtlmProgress, NtlmLegs
<1>6. ASSUME Splice \/ Answer \/ SendPayload \/ CloseConnection \/ UNCHANGED vars
      PROVE  NtlmProgress' /\ NtlmLegs'
  <2>1. UNCHANGED <<sess, round, tok, sent, why, pc>>
    BY <1>6 DEF Splice, Answer, SendPayload, CloseConnection, vars, client
  <2> QED BY <1>0, <1>1, <2>1 DEF NtlmProgress, NtlmLegs
<1> QED BY <1>2, <1>3, <1>4, <1>5, <1>6 DEF Next, ClientStep, ProxyStep

\* A declared body is drained to its end before the connection is handed over.
LEMMA DrainStep == IInv /\ [Next]_vars /\ ~misled' => Drained' /\ TunnelClean'
<1> SUFFICES ASSUME IInv, [Next]_vars, ~misled'
             PROVE  Drained' /\ TunnelClean'
  OBVIOUS
<1>m. ~misled /\ Led /\ ~Misread
  BY NotMisled
<1>0. /\ stream \in Seq(Cell) /\ resp \in Response /\ need \in Nat
      /\ stream' \in Seq(Cell) /\ need' \in Nat
      /\ resp.status = 200 => resp.extra = 0
      /\ pc = "decide" => need = 0
      /\ pc \in {"drain", "decide"} /\ resp.status = 200 => PayloadAfter(stream, need)
      /\ pc = "ok" => PayloadAfter(stream, 0)
      /\ req # Idle => pc \in {"read", "parse", "failed"}
  <2>1. DOMAIN stream = 1..Len(stream)
    BY LenProperties DEF IInv, TypeInv, TypeOK
  <2>2. TypeInv'
    BY TypeStep DEF IInv
  <2> QED BY <1>m, <2>1, <2>2 DEF IInv, Led, TypeInv, TypeOK, Drained, TunnelClean, Layout, PayloadAfter
<1>1. SUFFICES /\ resp'.status = 200 => resp'.extra = 0
               /\ pc' = "decide" => need' = 0
               /\ pc' \in {"drain", "decide"} /\ resp'.status = 200 => PayloadAfter(stream', need')
               /\ pc' = "ok" => PayloadAfter(stream', 0)
  <2>1. DOMAIN stream' = 1..Len(stream')
    BY <1>0, LenProperties
  <2> QED BY <2>1 DEF Drained, TunnelClean, PayloadAfter
<1> DEFINE Goal == /\ resp'.status = 200 => resp'.extra = 0
                   /\ pc' = "decide" => need' = 0
                   /\ pc' \in {"drain", "decide"} /\ resp'.status = 200 => PayloadAfter(stream', need')
                   /\ pc' = "ok" => PayloadAfter(stream', 0)
<1>2. ASSUME Connect \/ SendConnect \/ ReadHeaders \/ PeerClosed \/ StepSession
      PROVE  Goal
  <2>1. pc' \notin {"drain", "decide", "ok"} /\ resp' = resp
    BY <1>2 DEF Connect, SendConnect, ReadHeaders, PeerClosed, StepSession, Fail, proxy
  <2> QED BY <1>0, <2>1
<1>3. ASSUME ParseResponse
      PROVE  Goal
  <2>1. pc = "parse" /\ UNCHANGED <<stream, resp>>
    BY <1>3 DEF ParseResponse, proxy
  <2>2. CASE ParsedStatus # Unparsable
    <3>1. buf[1].r = resp /\ (resp.extra = 0 => PayloadAfter(stream, resp.len))
      BY <1>m, <2>1, <2>2, ParsedIsLast
    <3>2. need' = resp.len /\ pc' = IF resp.len > 0 THEN "drain" ELSE "decide"
      BY <1>3, <2>2, <3>1 DEF ParseResponse, ContentLength, Fail
    <3>3. resp.len \in Nat
      BY <1>0 DEF Response
    <3> QED BY <1>0, <2>1, <3>1, <3>2, <3>3
  <2>3. CASE ParsedStatus = Unparsable
    <3>1. pc' = "failed"
      BY <1>3, <2>3 DEF ParseResponse, Fail
    <3> QED BY <1>0, <2>1, <3>1
  <2> QED BY <2>2, <2>3
<1>4. ASSUME DrainBody
      PROVE  Goal
  <2>1. PICK n \in 1..Len(stream) :
          /\ n <= need
          /\ need' = need - n
          /\ stream' = SubSeq(stream, n + 1, Len(stream))
          /\ pc' = IF n = need THEN "decide" ELSE "drain"
    BY <1>4 DEF DrainBody
  <2>2. pc = "drain" /\ resp' = resp
    BY <1>4 DEF DrainBody, proxy
  <2>3. /\ SubSeq(stream, 1, n) \in Seq(Cell)
        /\ Len(SubSeq(stream, 1, n)) = n
        /\ SubSeq(stream, 1, n) \o stream' = stream
    BY <1>0, <2>1, Split
  <2>4. PayloadAfter(stream, need) => PayloadAfter(stream', need - n)
    BY <1>0, <2>1, <2>3, LayoutSuffix
  <2> QED BY <1>0, <2>1, <2>2, <2>4
<1>5. ASSUME Decide
      PROVE  Goal
  <2>1. /\ pc = "decide"
        /\ pc' \in {"ok", "failed", "step"}
        /\ pc' = "ok" => status = 200
        /\ UNCHANGED <<stream, resp, need>>
    BY <1>5 DEF Decide, Fail, proxy, Granted
  <2>2. status = resp.status
    BY <1>m, <2>1 DEF Led, OnLastAnswer
  <2> QED BY <1>0, <2>1, <2>2
<1>6. ASSUME Splice
      PROVE  Goal
  <2>1. pc = "ok" /\ stream' = <<>> /\ UNCHANGED <<pc, resp, need>>
    BY <1>6 DEF Splice, proxy
  <2> QED BY <1>0, <2>1 DEF PayloadAfter
<1>7. ASSUME Answer
      PROVE  Goal
  <2>1. PICK r \in Answers : resp' = r
    BY <1>7 DEF Answer
  <2>2. r.status = 200 => r.extra = 0
    BY <1>m DEF Answers, Shapes
  <2>3. req # Idle /\ UNCHANGED pc
    BY <1>7 DEF Answer, client
  <2> QED BY <1>0, <2>1, <2>2, <2>3
<1>8. ASSUME SendPayload
      PROVE  Goal
  <2>1. /\ stream' = Append(stream, [k |-> "p", r |-> NoResponse])
        /\ UNCHANGED <<pc, resp, need>>
    BY <1>8 DEF SendPayload, client
  <2>2. [k |-> "p", r |-> NoResponse] \in Cell
    BY DEF Cell, NoResponse, Response, Statuses, Challenges
  <2>3. \A n \in Nat : PayloadAfter(stream, n) => PayloadAfter(stream', n)
    BY <1>0, <2>1, <2>2, LayoutPayload
  <2> QED BY <1>0, <2>1, <2>3
<1>9. ASSUME CloseConnection \/ UNCHANGED vars
      PROVE  Goal
  <2>1. UNCHANGED <<pc, resp, need, stream>>
    BY <1>9 DEF CloseConnection, vars, client, proxy
  <2> QED BY <1>0, <2>1
<1> QED BY <1>m, <1>2, <1>3, <1>4, <1>5, <1>6, <1>7, <1>8, <1>9 DEF Next, ClientStep, ProxyStep

\* The invariant holds throughout perform_authenticated_connect.
LEMMA Invariance == Spec => []IInv
<1>1. Init => IInv
  <2> SUFFICES ASSUME Init
               PROVE  IInv
    OBVIOUS
  <2>1. TypeInv
    BY TypeInit
  <2>2. NoHeaders(<<>>) /\ PayloadAfter(<<>>, 0) /\ Len(<<>>) = 0
    BY EmptySeq DEF NoHeaders, PayloadAfter
  <2>3. Layout
    BY <2>2, LayoutNoHeaders DEF Init, Layout, Unread
  <2>4. Drained /\ Switched /\ Entitled /\ Counted
    BY <2>2 DEF Init, Drained, Switched, Entitled, Counted, NoResponse
  <2>5. /\ GrantedTunnel /\ NoConnectIntoTunnel /\ OnLastAnswer
        /\ OnChallenge /\ RoundBudget /\ TunnelClean
    BY <2>2, ConstantsAssumption
       DEF Init, GrantedTunnel, NoConnectIntoTunnel, OnLastAnswer,
           OnChallenge, RoundBudget, TunnelClean
  <2>6. NtlmProgress /\ NtlmLegs
    BY DEF Init, NtlmProgress, NtlmLegs
  <2> QED BY <2>1, <2>3, <2>4, <2>5, <2>6 DEF IInv, Led
<1>2. IInv /\ [Next]_vars => IInv'
  <2> SUFFICES ASSUME IInv, [Next]_vars
               PROVE  IInv'
    OBVIOUS
  <2>1. TypeInv' /\ Counted' /\ RoundBudget' /\ NtlmProgress' /\ NtlmLegs'
    BY TypeStep, CountStep, LegsStep DEF IInv
  <2>2. ~misled' => Led'
    BY LayoutStep, AnswerStep, DrainStep DEF Led
  <2> QED BY <2>1, <2>2 DEF IInv
<1> QED BY <1>1, <1>2, PTL DEF Spec

-----------------------------------------------------------------------------
(***************************************************************************)
(* What follows.                                                           *)
(***************************************************************************)
\* perform_authenticated_connect returns Ok only for a connection the proxy has
\* switched, with none of its CONNECTs unanswered.
THEOREM OkIsGranted == Spec => []GrantedTunnel
<1>1. IInv => GrantedTunnel
  BY DEF IInv, Led, GrantedTunnel
<1> QED BY <1>1, Invariance, PTL

\* No CONNECT is written to a connection that is a tunnel already, whatever the
\* proxy answers and however its bytes are split into reads.
THEOREM NothingIntoTunnel == Spec => []NoConnectIntoTunnel
<1>1. IInv => NoConnectIntoTunnel
  BY DEF IInv, Led, NoConnectIntoTunnel
<1> QED BY <1>1, Invariance, PTL

\* Credentials answer a 407, an NTLM Type 3 the Type 2 just received, and each
\* NTLM message is sent once.
THEOREM CredentialsAreAsked == Spec => []CredentialsOnlyOnChallenge
<1>1. IInv => CredentialsOnlyOnChallenge
  BY DEF IInv, Led, CredentialsOnlyOnChallenge
<1> QED BY <1>1, Invariance, PTL

\* A call sends at most MaxRounds + 1 CONNECTs, and all of them before it
\* reports exhaustion.
THEOREM RoundsAreBounded == Spec => []RoundBudget
<1>1. IInv => RoundBudget
  BY DEF IInv
<1> QED BY <1>1, Invariance, PTL

\* copy_bidirectional finds nothing but the tunnel's bytes in the socket: drains
\* take every byte of a declared body and headers are never split.
THEOREM TunnelIsClean == Spec => []TunnelClean
<1>1. IInv => TunnelClean
  BY DEF IInv, Led, TunnelClean
<1> QED BY <1>1, Invariance, PTL

\* The handshake implements what ConnectHandler relies on: every step of it is
\* a step ConnectService allows, or none.
THEOREM Implementation == Spec => ImplementsService
<1>1. Init => Service!Init
  BY EmptySeq DEF Init, Service!Init
<1>2. IInv /\ IInv' /\ [Next]_vars => [Service!Next]_(Service!vars)
  <2> SUFFICES ASSUME IInv, IInv', [Next]_vars
               PROVE  [Service!Next]_(Service!vars)
    OBVIOUS
  <2> USE DEF Service!Next, Service!vars, Service!Attempt, Service!Grant, Service!Establish,
              Service!GiveUp
  <2>0. /\ px \in {"http", "tunnel"}
        /\ px = "tunnel" /\ ~misled => pc \notin {"step", "send"}
        /\ px = "tunnel" /\ ~misled => req = Idle
        /\ pc = "ok" /\ ~misled => req = Idle
        /\ req # Idle => Len(sent) > 0
        /\ pc = "send" => Len(sent) = round
        /\ round <= MaxRounds /\ round \in Nat /\ MaxRounds \in Nat
        /\ sent \in Seq(Tokens) /\ tok \in Tokens
        /\ px' \in {"http", "tunnel"}
        /\ pc' = "ok" /\ ~misled' => px' = "tunnel"
        /\ misled \in BOOLEAN
    BY ConstantsAssumption
       DEF IInv, Led, TypeInv, TypeOK, GrantedTunnel, NoConnectIntoTunnel, Counted
  <2>1. ASSUME SendConnect
        PROVE  [Service!Next]_(Service!vars)
    <3>1. Len(Append(sent, tok)) = Len(sent) + 1
      BY <2>0, AppendProperties
    <3>2. pc = "send" /\ px' = px /\ misled' = misled
      BY <2>1 DEF SendConnect
    <3>3. CASE pc' = "read" /\ sent' = Append(sent, tok)
      <4>1. Len(sent') = Len(sent) + 1 /\ Len(sent) < MaxRounds + 1 /\ (px # "tunnel" \/ misled)
        BY <2>0, <3>1, <3>2, <3>3
      <4>2. Service!Attempt
        BY <3>2, <3>3, <4>1
      <4> QED BY <4>2
    <3>4. CASE pc' = "failed" /\ sent' = sent
      <4>1. Service!GiveUp
        BY <3>2, <3>4
      <4> QED BY <4>1
    <3> QED BY <2>1, <3>3, <3>4 DEF SendConnect, Fail
  <2>2. ASSUME \/ Connect \/ ReadHeaders \/ ParseResponse \/ DrainBody
               \/ PeerClosed \/ Decide \/ StepSession
        PROVE  [Service!Next]_(Service!vars)
    <3>1. /\ pc \notin {"ok", "failed"}
          /\ UNCHANGED <<px, sent, misled>>
      BY <2>2 DEF Connect, ReadHeaders, ParseResponse, DrainBody, PeerClosed, WaitingForPeer,
                  Decide, StepSession, proxy
    <3>2. CASE pc' = "failed"
      BY <3>1, <3>2
    <3>3. CASE pc' = "ok"
      BY <2>0, <3>1, <3>3
    <3>4. CASE pc' \notin {"ok", "failed"}
      BY <3>1, <3>4
    <3> QED BY <3>2, <3>3, <3>4
  <2>3. ASSUME Answer
        PROVE  [Service!Next]_(Service!vars)
    <3>1. /\ req # Idle
          /\ px' \in {"tunnel", px}
          /\ UNCHANGED <<pc, sent, misled>>
      BY <2>3 DEF Answer, client
    <3>2. CASE px' = px
      BY <3>1, <3>2
    <3>3. CASE px' # px
      <4>1. Len(sent) > 0 /\ (pc # "ok" \/ misled) /\ px # "tunnel" /\ px' = "tunnel"
        BY <2>0, <3>1, <3>3
      <4>2. Service!Grant
        BY <3>1, <4>1
      <4> QED BY <4>2
    <3> QED BY <3>2, <3>3
  <2>4. ASSUME Splice \/ SendPayload \/ CloseConnection \/ UNCHANGED vars
        PROVE  [Service!Next]_(Service!vars)
    BY <2>4 DEF Splice, SendPayload, CloseConnection, vars, client, proxy
  <2>5. ASSUME Misread
        PROVE  [Service!Next]_(Service!vars)
    <3>1. /\ pc = "parse" /\ pc' \in {"drain", "decide"}
          /\ misled' = TRUE
          /\ UNCHANGED <<px, sent>>
      BY <2>5 DEF Misread, proxy
    <3>2. Len(sent) > 0
      BY <2>0, <3>1 DEF IInv, Counted
    <3>3. Service!Mislead
      BY <3>1, <3>2 DEF Service!Mislead
    <3> QED BY <3>3
  <2> QED BY <2>1, <2>2, <2>3, <2>4, <2>5 DEF Next, ClientStep, ProxyStep
<1> QED BY <1>1, <1>2, Invariance, PTL DEF Spec, ImplementsService, Service!Spec

-----------------------------------------------------------------------------
(***************************************************************************)
(* Declared bodies.  As long as every body has its Content-Length nothing  *)
(* of an answer is left when the next one is awaited, so that no page text *)
(* can come first in the buffer, however the reads straddle.               *)
(***************************************************************************)
\* What has been read and what is in flight are the last answer from its first
\* byte.
Arriving ==
  pc \in {"read", "parse"} =>
    /\ px = "tunnel" => Unread # <<>>
    /\ Unread # <<>> =>
         /\ req = Idle
         /\ resp.fill + 1 <= Len(Unread)
         /\ \A i \in 1..resp.fill : Unread[i].k = "h"
         /\ Unread[resp.fill + 1].k = "e"
         /\ resp.status # 200 => Len(Unread) = resp.fill + 1 + resp.len

\* No refusal leaves anything behind.
Emptied ==
  /\ pc \in {"connect", "send"} => stream = <<>>
  /\ pc = "read" => ~HasBlankLine(buf)
  /\ pc = "drain" /\ resp.status # 200 => /\ need > 0
                                          /\ resp.fill + 1 <= Len(buf)
                                          /\ Len(buf) + Len(stream) = resp.fill + 1 + need
  /\ pc \in {"decide", "step"} /\ resp.status # 200 => stream = <<>>

Declared == ~undeclared => ~misled /\ resp.extra = 0 /\ Arriving /\ Emptied

\* The data of a state of the handshake.
LEMMA Data ==
  ASSUME IInv
  PROVE  /\ need \in Nat
         /\ pc \in PCs /\ tok \in Tokens
         /\ buf \in Seq(Cell) /\ stream \in Seq(Cell)
         /\ Len(buf) \in Nat /\ Len(stream) \in Nat
         /\ resp \in Response
         /\ resp.fill \in Nat /\ resp.len \in Nat /\ resp.status \in {200, 407, 502}
<1>1. /\ need \in Nat /\ pc \in PCs /\ tok \in Tokens
      /\ buf \in Seq(Cell) /\ stream \in Seq(Cell) /\ resp \in Response
  BY DEF IInv, TypeInv, TypeOK
<1>2. Len(buf) \in Nat /\ Len(stream) \in Nat
  BY <1>1, LenProperties
<1>3. resp.fill \in Nat /\ resp.len \in Nat /\ resp.status \in {200, 407, 502}
  BY <1>1 DEF Response, Statuses
<1> QED BY <1>1, <1>2, <1>3

\* A read moves cells from the stream to the buffer, and changes nothing else of
\* what is unread.
LEMMA ReadKeeps ==
  ASSUME IInv, ReadHeaders
  PROVE  /\ buf' \in Seq(Cell) /\ stream' \in Seq(Cell) /\ Len(buf') \in Nat
         /\ buf' \o stream' = buf \o stream
         /\ Unread = buf' \o stream'
         /\ Unread # <<>>
<1>1. PICK n \in 1..Len(stream) :
        /\ buf' = buf \o SubSeq(stream, 1, n)
        /\ stream' = SubSeq(stream, n + 1, Len(stream))
  BY DEF ReadHeaders
<1>2. buf \in Seq(Cell) /\ stream \in Seq(Cell) /\ Len(buf) \in Nat /\ Len(stream) \in Nat
  BY Data
<1>3. /\ SubSeq(stream, 1, n) \in Seq(Cell)
      /\ SubSeq(stream, n + 1, Len(stream)) \in Seq(Cell)
      /\ SubSeq(stream, 1, n) \o stream' = stream
  <2>1. n \in 0..Len(stream)
    BY <1>1, <1>2
  <2> QED BY <1>1, <1>2, <2>1, Split
<1>4. buf' \in Seq(Cell) /\ stream' \in Seq(Cell)
  BY <1>1, <1>2, <1>3, ConcatProperties
<1>5. (buf \o SubSeq(stream, 1, n)) \o stream' = buf \o (SubSeq(stream, 1, n) \o stream')
  <2>1. /\ buf \in Seq(Cell)
        /\ stream' \in Seq(Cell)
        /\ SubSeq(stream, 1, n) \in Seq(Cell)
    BY <1>2, <1>3, <1>4
  <2> QED BY <2>1, ConcatAssociative
<1>6. buf' \o stream' = buf \o stream
  BY <1>1, <1>3, <1>5
<1>7. Unread = buf \o stream
  BY DEF ReadHeaders, Unread
<1>8. buf \o stream # <<>>
  <2>1. Len(buf \o stream) = Len(buf) + Len(stream) /\ Len(stream) > 0
    BY <1>1, <1>2, ConcatProperties
  <2> QED BY <1>2, <2>1, EmptySeq
<1> QED BY <1>4, <1>6, <1>7, <1>8, LenProperties

\* A blank line read means that the buffer starts with the last answer's status
\* line and ends no earlier than its headers.
LEMMA WholeHeader ==
  ASSUME IInv, Declared, ~undeclared, pc = "parse"
  PROVE  /\ ~misled /\ req = Idle
         /\ Header(buf[1])
         /\ ParsedStatus # Unparsable
         /\ buf[1].r = resp
         /\ resp.fill + 1 <= Len(buf)
         /\ resp.status # 200 => Len(buf) + Len(stream) = resp.fill + 1 + resp.len
<1>0. ~misled /\ resp.extra = 0 /\ Arriving
  BY DEF Declared
<1>1. /\ buf \in Seq(Cell) /\ stream \in Seq(Cell)
      /\ Len(buf) \in Nat /\ Len(stream) \in Nat
      /\ resp.fill \in Nat /\ resp.len \in Nat
      /\ DOMAIN buf = 1..Len(buf)
  BY Data, LenProperties
<1>2. PICK j \in DOMAIN buf : buf[j].k \in {"e", "x"}
  BY DEF IInv, TypeInv, HasBlankLine
<1>3. /\ Unread = buf \o stream
      /\ Len(Unread) = Len(buf) + Len(stream)
      /\ \A i \in DOMAIN buf : Unread[i] = buf[i]
  BY <1>1, ConcatCells, ConcatProperties DEF Unread
<1>4. /\ req = Idle
      /\ \A i \in 1..resp.fill : Unread[i].k = "h"
      /\ Unread[resp.fill + 1].k = "e"
      /\ resp.status # 200 => Len(Unread) = resp.fill + 1 + resp.len
  <2>1. Len(Unread) > 0
    BY <1>1, <1>2, <1>3
  <2>2. Unread # <<>>
    BY <2>1, EmptySeq
  <2> QED BY <1>0, <2>2 DEF Arriving
<1>5. resp.fill + 1 <= Len(buf)
  <2>1. ~(j \in 1..resp.fill)
    BY <1>2, <1>3, <1>4
  <2> QED BY <1>1, <1>2, <2>1
<1>6. Header(buf[1])
  <2>1. CASE resp.fill = 0
    BY <1>1, <1>3, <1>4, <1>5, <2>1 DEF Header
  <2>2. CASE resp.fill > 0
    BY <1>1, <1>3, <1>4, <1>5, <2>2 DEF Header
  <2> QED BY <1>1, <2>1, <2>2
<1>7. ParsedStatus # Unparsable
  <2>1. buf[1].r.status \in Statuses
    <3>1. buf[1] \in Cell
      BY <1>1, <1>2, ElementOfSeq
    <3> QED BY <3>1 DEF Cell, Response
  <2> QED BY <1>6, <2>1 DEF ParsedStatus, Unparsable, Header, Statuses
<1>8. buf[1].r = resp
  BY <1>0, <1>7, ParsedIsLast
<1> QED BY <1>0, <1>3, <1>4, <1>5, <1>6, <1>7, <1>8

\* The tunnel's own bytes come behind what is unread.
LEMMA PayloadArrives ==
  ASSUME IInv, SendPayload, pc \in {"read", "parse"}
  PROVE  /\ Unread \in Seq(Cell) /\ Len(Unread) \in Nat
         /\ Len(Unread') = Len(Unread) + 1
         /\ \A i \in 1..Len(Unread) : Unread'[i] = Unread[i]
<1> DEFINE c == [k |-> "p", r |-> NoResponse]
<1>1. stream' = Append(stream, c) /\ UNCHANGED <<pc, buf>>
  BY DEF SendPayload, client
<1>2. c \in Cell
  BY DEF Cell, NoResponse, Response, Statuses, Challenges
<1> HIDE DEF c
<1>3. buf \in Seq(Cell) /\ stream \in Seq(Cell) /\ buf \o stream \in Seq(Cell)
  BY Data, ConcatProperties
<1>4. Unread = buf \o stream
  BY DEF Unread
<1>5. Unread' = Append(Unread, c)
  <2>1. stream' = stream \o <<c>> /\ <<c>> \in Seq(Cell)
    BY <1>1, <1>2, <1>3, AppendIsConcat
  <2>2. buf \o (stream \o <<c>>) = (buf \o stream) \o <<c>>
    BY <1>3, <2>1, ConcatAssociative
  <2>3. (buf \o stream) \o <<c>> = Append(buf \o stream, c)
    BY <1>2, <1>3, AppendIsConcat
  <2> QED BY <1>1, <1>4, <2>1, <2>2, <2>3 DEF Unread
<1> QED BY <1>2, <1>3, <1>4, <1>5, AppendProperties, LenProperties

\* A new answer arrives on an empty connection.
LEMMA DeclaredAnswer ==
  ASSUME IInv, Declared, ~undeclared', Answer
  PROVE  Declared'
<1>1. PICK r \in Answers :
        /\ resp' = r /\ stream' = stream \o Wire(r)
        /\ req' \in {Idle, Tail(req)}
        /\ undeclared' = (undeclared \/ r.extra > 0)
  BY DEF Answer
<1>2. /\ r \in Response /\ r.fill \in Nat /\ r.len \in Nat /\ r.extra \in Nat
      /\ ~undeclared /\ r.extra = 0
  <2>1. r \in Response /\ r.fill \in Nat /\ r.len \in Nat /\ r.extra \in Nat
    BY AnswersType DEF Response
  <2>2. ~undeclared /\ ~(r.extra > 0)
    BY <1>1
  <2> QED BY <2>1, <2>2
<1>3. /\ ~misled /\ Arriving /\ Emptied /\ Led
  BY <1>2 DEF Declared, IInv
<1>4. req # Idle /\ misled' = misled /\ UNCHANGED <<pc, buf>>
  BY DEF Answer, client
<1>5. pc \in {"read", "parse", "failed"} /\ req' = Idle
  <2>1. /\ pc \in {"read", "parse", "failed"}
        /\ req \in {<<t>> : t \in Tokens}
    BY <1>3, <1>4 DEF Led, Layout
  <2>2. Tail(req) = Idle
    BY <2>1, OneRequest
  <2> QED BY <1>1, <2>1, <2>2
<1>6. CASE pc = "failed"
  BY <1>1, <1>2, <1>3, <1>4, <1>6 DEF Declared, Arriving, Emptied
<1>7. CASE pc \in {"read", "parse"}
  <2>1. buf \o stream = <<>> /\ buf \in Seq(Cell) /\ stream \in Seq(Cell)
    BY <1>3, <1>4, <1>7, Data DEF Arriving, Unread
  <2>2. buf = <<>> /\ stream = <<>>
    <3>1. Len(buf) + Len(stream) = 0 /\ Len(buf) \in Nat /\ Len(stream) \in Nat
      BY <2>1, ConcatProperties, EmptySeq, LenProperties
    <3>2. Len(buf) = 0 /\ Len(stream) = 0
      BY <3>1
    <3> QED BY <2>1, <3>2, EmptySeq
  <2>3. pc = "read"
    <3>1. ~HasBlankLine(buf)
      BY <2>2 DEF HasBlankLine
    <3> QED BY <1>7, <3>1 DEF IInv, TypeInv
  <2>4. Unread' = Wire(r)
    <3>1. Wire(r) \in Seq(Cell)
      BY <1>2, WireCells
    <3> QED BY <1>1, <1>4, <2>2, <2>3, <3>1, ConcatEmptySeq DEF Unread
  <2>5. /\ Len(Wire(r)) = r.fill + 1 + r.len
        /\ \A i \in 1..r.fill : Wire(r)[i].k = "h"
        /\ Wire(r)[r.fill + 1].k = "e"
    <3>1. /\ r.fill + 1 + r.len + r.extra = r.fill + 1 + r.len
          /\ \A i \in 1..r.fill : i \in 1..(r.fill + 1 + r.len + r.extra) /\ i <= r.fill
          /\ r.fill + 1 \in 1..(r.fill + 1 + r.len + r.extra)
      BY <1>2
    <3>2. /\ Len(Wire(r)) = r.fill + 1 + r.len + r.extra
          /\ \A i \in 1..(r.fill + 1 + r.len + r.extra) :
               /\ i <= r.fill => Wire(r)[i] = [k |-> "h", r |-> r]
               /\ i = r.fill + 1 => Wire(r)[i] = [k |-> "e", r |-> r]
      BY <1>2, WireCells
    <3> QED BY <3>1, <3>2
  <2>6. r.fill + 1 <= Len(Wire(r))
    BY <1>2, <2>5
  <2>7. Arriving'
    <3>1. Unread' # <<>>
      BY <1>2, <2>4, <2>6, EmptySeq
    <3> QED BY <1>1, <1>5, <2>4, <2>5, <2>6, <3>1 DEF Arriving
  <2>8. Emptied'
    BY <1>4, <2>2, <2>3 DEF Emptied, HasBlankLine
  <2> QED BY <1>1, <1>2, <1>3, <1>4, <2>7, <2>8 DEF Declared
<1> QED BY <1>5, <1>6, <1>7

\* Reading, parsing and draining take the answer from its first byte to its last.
LEMMA DeclaredRead ==
  ASSUME IInv, Declared, ~undeclared', ReadHeaders \/ ParseResponse \/ DrainBody
  PROVE  Declared'
<1>0. /\ ~undeclared /\ misled' = misled /\ UNCHANGED <<req, resp, px>>
  BY DEF ReadHeaders, ParseResponse, DrainBody, proxy
<1>1. ~misled /\ resp.extra = 0 /\ Arriving /\ Emptied
  BY <1>0 DEF Declared
<1>2. SUFFICES Arriving' /\ Emptied'
  BY <1>0, <1>1 DEF Declared
<1>3. CASE ReadHeaders
  <2>1. Unread = buf' \o stream' /\ Unread # <<>>
    BY <1>3, ReadKeeps
  <2>2. /\ pc = "read"
        /\ \/ pc' = "parse"
           \/ pc' = "read" /\ ~HasBlankLine(buf')
           \/ pc' = "failed"
    BY <1>3 DEF ReadHeaders, Fail
  <2>3. pc' \in {"read", "parse"} => Unread' = Unread
    BY <2>1 DEF Unread
  <2>4. Arriving'
    BY <1>0, <1>1, <2>2, <2>3 DEF Arriving
  <2>5. Emptied'
    BY <2>2 DEF Emptied, HasBlankLine
  <2> QED BY <2>4, <2>5
<1>4. CASE ParseResponse
  <2>1. pc = "parse" /\ UNCHANGED <<buf, stream>>
    BY <1>4 DEF ParseResponse
  <2>2. /\ ParsedStatus # Unparsable
        /\ buf[1].r = resp
        /\ resp.fill + 1 <= Len(buf)
        /\ resp.status # 200 => Len(buf) + Len(stream) = resp.fill + 1 + resp.len
    BY <1>0, <2>1, WholeHeader
  <2>3. need' = resp.len /\ pc' = IF resp.len > 0 THEN "drain" ELSE "decide"
    BY <1>4, <2>2 DEF ParseResponse, ContentLength
  <2>4. /\ resp.len \in Nat /\ resp.fill \in Nat
        /\ Len(buf) \in Nat /\ Len(stream) \in Nat /\ stream \in Seq(Cell)
    BY Data
  <2>5. resp.len = 0 /\ resp.status # 200 => stream = <<>>
    <3>1. resp.len = 0 /\ resp.status # 200 => Len(stream) = 0
      BY <2>2, <2>4
    <3> QED BY <2>4, <3>1, EmptySeq
  <2>6. Emptied'
    <3>1. CASE resp.len > 0
      BY <1>0, <2>1, <2>2, <2>3, <3>1 DEF Emptied
    <3>2. CASE resp.len = 0
      BY <1>0, <2>1, <2>3, <2>5, <3>2 DEF Emptied
    <3> QED BY <2>4, <3>1, <3>2
  <2> QED BY <2>3, <2>6 DEF Arriving
<1>5. CASE DrainBody
  <2>1. PICK n \in 1..Len(stream) :
          /\ n <= need
          /\ need' = need - n
          /\ stream' = SubSeq(stream, n + 1, Len(stream))
          /\ pc' = IF n = need THEN "decide" ELSE "drain"
    BY <1>5 DEF DrainBody
  <2>2. pc = "drain" /\ buf' = buf
    BY <1>5 DEF DrainBody
  <2>3. /\ stream \in Seq(Cell) /\ Len(stream) \in Nat /\ Len(buf) \in Nat /\ need \in Nat
        /\ resp.fill \in Nat
    BY Data
  <2>4. stream' \in Seq(Cell) /\ Len(stream') = Len(stream) - n
    <3>1. n \in 0..Len(stream)
      BY <2>3
    <3> QED BY <2>1, <2>3, <3>1, Split
  <2>5. CASE resp.status = 200
    BY <1>0, <2>1, <2>2, <2>5 DEF Arriving, Emptied
  <2>6. CASE resp.status # 200
    <3>1. /\ resp.fill + 1 <= Len(buf)
          /\ Len(buf) + Len(stream) = resp.fill + 1 + need
      BY <1>1, <2>2, <2>6 DEF Emptied
    <3>2. n = need => stream' = <<>>
      <4>1. n = need => Len(stream') = 0
        BY <2>1, <2>3, <2>4, <3>1
      <4> QED BY <2>4, <4>1, EmptySeq
    <3>3. /\ Len(buf) + Len(stream') = resp.fill + 1 + need'
          /\ n # need => need' > 0
      <4>1. n \in Nat /\ n <= need /\ need' = need - n
        BY <2>1, <2>3
      <4>2. Len(buf) + (Len(stream) - n) = resp.fill + 1 + (need - n)
        BY <2>3, <3>1, <4>1
      <4> QED BY <2>3, <2>4, <4>1, <4>2
    <3> QED BY <1>0, <2>1, <2>2, <3>1, <3>2, <3>3 DEF Arriving, Emptied
  <2> QED BY <2>5, <2>6
<1> QED BY <1>3, <1>4, <1>5

\* Declared bodies stay out of the way.
LEMMA DeclaredStep == IInv /\ Declared /\ [Next]_vars => Declared'
<1> SUFFICES ASSUME IInv, Declared, [Next]_vars, ~undeclared'
             PROVE  Declared'
  BY DEF Declared
<1>0. ~undeclared
  BY DEF Next, ClientStep, ProxyStep, Connect, SendConnect, ReadHeaders, ParseResponse, Misread,
         DrainBody, PeerClosed, Decide, StepSession, Splice, Answer, SendPayload,
         CloseConnection, vars, proxy
<1>1. ~misled /\ resp.extra = 0 /\ Arriving /\ Emptied
  BY <1>0 DEF Declared
<1>2. Led
  BY <1>1 DEF IInv
<1>3. ASSUME Misread
      PROVE  FALSE
  <2>1. pc = "parse" /\ buf[1].k \notin {"h", "e"}
    BY <1>1, <1>3 DEF Misread
  <2> QED BY <1>0, <2>1, WholeHeader DEF Header
<1>4. ASSUME Connect \/ PeerClosed \/ Decide
      PROVE  Declared'
  <2>1. /\ \/ pc = "connect" /\ pc' = "send"
           \/ pc = "decide" /\ pc' \in {"ok", "step"}
           \/ pc' = "failed"
        /\ UNCHANGED <<buf, stream, resp, misled>>
    BY <1>4 DEF Connect, PeerClosed, Decide, Fail, proxy
  <2> QED BY <1>1, <2>1 DEF Declared, Arriving, Emptied
<1>5. ASSUME SendConnect
      PROVE  Declared'
  <2>1. pc = "send" /\ stream = <<>> /\ px' # "tunnel" /\ UNCHANGED <<stream, resp, misled>>
    BY <1>1, <1>2, <1>5 DEF SendConnect, Emptied, Led, NoConnectIntoTunnel
  <2>2. (pc' = "read" /\ buf' = <<>>) \/ pc' = "failed"
    BY <1>5 DEF SendConnect, Fail
  <2>3. pc' = "read" => Unread' = <<>>
    BY <2>1, <2>2, ConcatEmptySeq, EmptySeq DEF Unread
  <2> QED BY <1>1, <2>1, <2>2, <2>3 DEF Declared, Arriving, Emptied, HasBlankLine
<1>6. ASSUME StepSession
      PROVE  Declared'
  <2>1. /\ pc = "step" /\ pc' \in {"send", "failed"}
        /\ UNCHANGED <<stream, resp, misled>>
    BY <1>6 DEF StepSession, Fail, proxy
  <2>2. resp.status # 200
    BY <1>2, <2>1 DEF Led, Switched, OnLastAnswer
  <2> QED BY <1>1, <2>1, <2>2 DEF Declared, Arriving, Emptied
<1>7. ASSUME Splice
      PROVE  Declared'
  <2>1. pc = "ok" /\ pc' = pc /\ UNCHANGED <<resp, misled>>
    BY <1>7 DEF Splice, proxy
  <2> QED BY <1>1, <2>1 DEF Declared, Arriving, Emptied
<1>8. ASSUME SendPayload
      PROVE  Declared'
  <2>1. px = "tunnel" /\ UNCHANGED <<pc, buf, need, req, resp, misled>>
    BY <1>8 DEF SendPayload, client
  <2>2. resp.status = 200 /\ pc \notin {"connect", "send", "step"}
    BY <1>1, <1>2, <2>1 DEF Led, Switched, NoConnectIntoTunnel
  <2>3. Emptied'
    BY <1>1, <2>1, <2>2 DEF Emptied
  <2>4. Arriving'
    <3> SUFFICES ASSUME pc \in {"read", "parse"}
                 PROVE  Arriving'
      BY <2>1 DEF Arriving
    <3>1. /\ Unread \in Seq(Cell) /\ Len(Unread) \in Nat
          /\ Len(Unread') = Len(Unread) + 1
          /\ \A i \in 1..Len(Unread) : Unread'[i] = Unread[i]
      BY <1>8, PayloadArrives
    <3>2. Unread # <<>>
      BY <1>1, <2>1 DEF Arriving
    <3>3. /\ req = Idle /\ resp.fill \in Nat /\ resp.fill + 1 <= Len(Unread)
          /\ \A i \in 1..resp.fill : Unread[i].k = "h"
          /\ Unread[resp.fill + 1].k = "e"
      BY <1>1, <3>2, Data DEF Arriving
    <3>4. /\ resp.fill + 1 <= Len(Unread')
          /\ \A i \in 1..resp.fill : Unread'[i].k = "h"
          /\ Unread'[resp.fill + 1].k = "e"
      <4>1. /\ resp.fill + 1 \in 1..Len(Unread)
            /\ \A i \in 1..resp.fill : i \in 1..Len(Unread)
        BY <3>1, <3>3
      <4>2. resp.fill + 1 <= Len(Unread')
        BY <3>1, <3>3
      <4> QED BY <3>1, <3>3, <4>1, <4>2
    <3>5. Unread' # <<>>
      BY <3>1, EmptySeq
    <3> QED BY <2>1, <2>2, <3>3, <3>4, <3>5 DEF Arriving
  <2> QED BY <1>1, <2>1, <2>3, <2>4 DEF Declared
<1>9. ASSUME CloseConnection \/ UNCHANGED vars
      PROVE  Declared'
  <2>1. UNCHANGED <<pc, buf, stream, need, req, resp, px, misled>>
    BY <1>9 DEF CloseConnection, vars, client, proxy
  <2> QED BY <1>1, <2>1 DEF Declared, Arriving, Emptied, Unread, HasBlankLine
<1>10. ASSUME ReadHeaders \/ ParseResponse \/ DrainBody \/ Answer
       PROVE  Declared'
  BY <1>10, DeclaredRead, DeclaredAnswer
<1> QED BY <1>3, <1>4, <1>5, <1>6, <1>7, <1>8, <1>9, <1>10 DEF Next, ClientStep, ProxyStep

\* Nothing is in flight before the first answer.
LEMMA DeclaredAlways == Spec => []Declared
<1>1. Init => Declared
  BY DEF Init, Declared, Arriving, Emptied, NoResponse
<1>2. IInv /\ Declared /\ [Next]_vars => Declared'
  BY DeclaredStep
<1> QED BY <1>1, <1>2, Invariance, PTL DEF Spec

\* As long as answers declare their bodies, page text is never taken for an
\* answer, whatever the sizes of headers, chunks and bodies and wherever reads end;
\* until that happens the status and challenge the loop acts on are those of the
\* answer to its last CONNECT.
THEOREM LastAnswerDecides == Spec => []ActsOnLastAnswer
<1>1. IInv /\ Declared => ActsOnLastAnswer
  BY DEF IInv, Led, Declared, ActsOnLastAnswer
<1> QED BY <1>1, Invariance, DeclaredAlways, PTL


-----------------------------------------------------------------------------
(***************************************************************************)
(* A proxy that follows the protocol.  Connects is a liveness property;    *)
(* what keeps it from failing is an invariant: how far the exchange has    *)
(* got at both ends, on top of what holds of declared bodies.              *)
(***************************************************************************)
\* The loop has rounds enough for the scheme: 4 suffice for Basic and NTLM, and
\* for Kerberos as long as GSSAPI produces no more tokens than that.
RoundsSuffice ==
  /\ "NTLM" \in Schemes => MaxRounds >= 2
  /\ "Kerberos" \in Schemes => MaxRounds >= KrbLegs

\* The token of a round, and the rounds the proxy has accepted.
Leg(n) ==
  CASE n = 0 -> "none"
    [] n > 0 /\ scheme = "Basic" -> "basic"
    [] n = 1 /\ scheme = "NTLM" -> "type1"
    [] n = 2 /\ scheme = "NTLM" -> "type3"
    [] OTHER -> "gss"

Reached == IF (pc \in {"connect", "send"} \/ req # Idle) /\ round > 0 THEN round - 1 ELSE round

Steady ==
  /\ pc # "failed" /\ why = "none" /\ ~closed /\ ~undeclared
  /\ round <= LegsNeeded
  /\ legs = Reached
  /\ tok = Leg(round)
  /\ scheme \in {"NTLM", "Kerberos"} => sess = round
  /\ req # Idle => pc = "read" /\ req = <<tok>>

\* What the proxy's answer to the last CONNECT is.
Replied ==
  pc \notin {"connect", "send"} /\ req = Idle =>
    /\ resp.status = IF round = LegsNeeded THEN 200 ELSE 407
    /\ resp.status = 407 => resp.chal = IF round = 0 THEN "bare" ELSE "token"
    /\ resp.fill < MaxHeader
    /\ resp.status = 200 => resp.len = 0

\* The answer awaited is on its way, and what is drained is a refusal's page.
Delivered ==
  /\ pc \in {"read", "parse"} /\ req = Idle => Unread # <<>>
  /\ pc = "drain" => resp.status # 200

Honest == ~faulty => Steady /\ Replied /\ Delivered

\* The call goes on: it does not fail, its next read finds bytes or the proxy
\* owes it an answer, and the session has a token for every challenge.  Only the
\* drain may wait for nothing: when read_http_headers has taken body bytes
\* together with the headers.
GoesOn ==
  ~faulty =>
    /\ pc # "failed"
    /\ pc = "read" => req # Idle \/ stream # <<>>
    /\ pc = "step" => StepOutcomes # {} /\ \A o \in StepOutcomes : o.out \in Tokens
    /\ pc = "drain" => stream # <<>> \/ Len(buf) > resp.fill + 1

\* Everything a well-behaved proxy may meet is well-typed.
LEMMA HonestTypes ==
  ASSUME IInv
  PROVE  /\ scheme \in Schemes
         /\ scheme \in {"Anonymous", "Basic", "NTLM", "Kerberos"}
         /\ round \in Nat /\ MaxRounds \in Nat /\ MaxRounds > 0 /\ MaxHeader \in Nat
         /\ KrbLegs \in Nat /\ KrbLegs > 0
         /\ LegsNeeded \in Nat
         /\ sess \in Nat /\ legs \in Nat
<1>1. scheme \in Schemes /\ round \in 0..MaxRounds /\ sess \in Nat /\ legs \in Nat
  BY DEF IInv, TypeInv, TypeOK
<1> QED BY <1>1, ConstantsAssumption DEF LegsNeeded

\* What both ends hold when the proxy has read a CONNECT of the exchange.
LEMMA AcceptedLegs ==
  ASSUME IInv, Steady, req # Idle
  PROVE  Accepted = round
<1>1. /\ Head(req) = Leg(round)
      /\ round \in Nat /\ round <= LegsNeeded
      /\ legs = IF round > 0 THEN round - 1 ELSE round
      /\ scheme \in {"Anonymous", "Basic", "NTLM", "Kerberos"}
      /\ LegsNeeded \in Nat
  <2>1. req = <<tok>> /\ tok = Leg(round)
    BY DEF Steady
  <2>2. Head(req) = tok
    BY <2>1
  <2> QED BY <2>1, <2>2, HonestTypes DEF Steady, Reached
<1>2. CASE round = 0
  BY <1>1, <1>2 DEF Leg, Accepted
<1>3. CASE round > 0 /\ scheme = "Basic"
  BY <1>1, <1>3 DEF Leg, Accepted
<1>4. CASE round > 0 /\ scheme = "NTLM"
  <2>1. round \in {1, 2}
    BY <1>1, <1>4 DEF LegsNeeded
  <2> QED BY <1>1, <1>4, <2>1 DEF Leg, Accepted
<1>5. CASE round > 0 /\ scheme = "Kerberos"
  BY <1>1, <1>5 DEF Leg, Accepted
<1>6. ~(round > 0 /\ scheme = "Anonymous")
  BY <1>1 DEF LegsNeeded
<1> QED BY <1>1, <1>2, <1>3, <1>4, <1>5, <1>6

\* The proxy's answer moves the exchange on.
LEMMA HonestAnswer ==
  ASSUME IInv, Declared, ~faulty, Honest, Answer
  PROVE  Honest'
<1>0. Steady /\ Replied /\ Delivered /\ ~misled
  BY DEF Honest, Steady, Declared
<1>1. PICK r \in Answers :
        /\ resp' = r /\ stream' = stream \o Wire(r)
        /\ req' \in {Idle, Tail(req)}
        /\ undeclared' = (undeclared \/ r.extra > 0)
  BY DEF Answer
<1>2. /\ req # Idle /\ legs' = Accepted
      /\ UNCHANGED <<faulty, pc, why, round, tok, sess, scheme, buf, closed>>
  BY DEF Answer, client
<1>3. pc = "read" /\ req = <<tok>> /\ req' = Idle
  <2>1. pc = "read" /\ req = <<tok>> /\ tok \in Tokens
    BY <1>0, <1>2, Data DEF Steady
  <2> QED BY <1>1, <2>1, OneRequest
<1>4. Accepted = round
  BY <1>0, <1>2, AcceptedLegs
<1>5. /\ r \in Response /\ r.fill \in Nat /\ r.len \in Nat /\ r.extra = 0 /\ r.fill < MaxHeader
      /\ r.status = IF round = LegsNeeded THEN 200 ELSE 407
      /\ r.status = 407 => r.chal = IF round = 0 THEN "bare" ELSE "token"
      /\ r.status = 200 => r.len = 0
  <2>1. r \in Response /\ r.fill \in Nat /\ r.len \in Nat
    BY AnswersType DEF Response
  <2>2. CASE round = LegsNeeded
    <3>1. r \in Shapes(200, "absent", ShortHeaders, {0}, {0})
      BY <1>0, <1>4, <2>2 DEF Answers
    <3> QED BY <2>1, <2>2, <3>1 DEF Shapes, ShortHeaders
  <2>3. CASE round # LegsNeeded
    <3>1. r \in Shapes(407, IF round = 0 THEN "bare" ELSE "token", ShortHeaders, Pages, {0})
      BY <1>0, <1>4, <2>3 DEF Answers
    <3> QED BY <2>1, <2>3, <3>1 DEF Shapes, ShortHeaders
  <2> QED BY <2>2, <2>3
<1>6. Delivered'
  <2>1. Wire(r) \in Seq(Cell) /\ Len(Wire(r)) > 0
    <3>1. Wire(r) \in Seq(Cell) /\ Len(Wire(r)) = r.fill + 1 + r.len + r.extra
      BY <1>5, WireCells
    <3> QED BY <1>5, <3>1
  <2>2. buf \in Seq(Cell) /\ stream \in Seq(Cell) /\ Len(buf) \in Nat /\ Len(stream) \in Nat
    BY Data
  <2>3. stream' \in Seq(Cell) /\ Len(stream') > 0
    BY <1>1, <2>1, <2>2, ConcatProperties
  <2>4. buf \o stream' # <<>>
    <3>1. Len(buf \o stream') = Len(buf) + Len(stream') /\ buf \o stream' \in Seq(Cell)
      BY <2>2, <2>3, ConcatProperties
    <3> QED BY <2>2, <2>3, <3>1, EmptySeq
  <2> QED BY <1>2, <1>3, <2>4 DEF Delivered, Unread
<1>7. Replied'
  <2>1. LegsNeeded' = LegsNeeded
    BY <1>2 DEF LegsNeeded
  <2> QED BY <1>1, <1>2, <1>5, <2>1 DEF Replied
<1>8. Steady'
  <2>1. LegsNeeded' = LegsNeeded /\ Leg(round)' = Leg(round)
    BY <1>2 DEF LegsNeeded, Leg
  <2>2. Reached' = round
    BY <1>2, <1>3 DEF Reached
  <2>3. ~undeclared'
    <3>1. ~(r.extra > 0)
      BY <1>5
    <3> QED BY <1>0, <1>1, <3>1 DEF Steady
  <2> QED BY <1>0, <1>2, <1>3, <1>4, <2>1, <2>2, <2>3 DEF Steady
<1> QED BY <1>6, <1>7, <1>8 DEF Honest

\* The headers fit the buffer, and are complete before they are too long.
LEMMA HonestRead ==
  ASSUME IInv, Declared, ~faulty, Honest, ReadHeaders
  PROVE  Honest'
<1>0. Steady /\ Replied /\ Delivered /\ Arriving
  BY DEF Honest, Steady, Declared
<1>1. /\ buf' \in Seq(Cell) /\ stream' \in Seq(Cell) /\ Len(buf') \in Nat
      /\ Unread = buf' \o stream'
      /\ Unread # <<>>
  BY ReadKeeps
<1>2. /\ pc = "read"
      /\ UNCHANGED <<faulty, scheme, sess, round, tok, req, resp, legs, closed, undeclared>>
  BY DEF ReadHeaders, proxy
<1>3. req = Idle
  BY <1>0, <1>1, <1>2 DEF Arriving
<1>4. ~HasBlankLine(buf') => Len(buf') <= MaxHeader
  <2> SUFFICES ASSUME Len(buf') > MaxHeader
               PROVE  HasBlankLine(buf')
    BY <1>1, HonestTypes
  <2>1. resp.fill \in Nat /\ resp.fill + 1 <= MaxHeader /\ MaxHeader \in Nat
    BY <1>0, <1>2, <1>3, HonestTypes, Data DEF Replied
  <2>2. resp.fill + 1 \in DOMAIN buf'
    BY <1>1, <2>1, LenProperties
  <2>3. (buf' \o stream')[resp.fill + 1] = buf'[resp.fill + 1]
    BY <1>1, <2>2, ConcatCells
  <2>4. buf'[resp.fill + 1].k = "e"
    BY <1>0, <1>1, <1>2, <2>3 DEF Arriving
  <2> QED BY <2>2, <2>4 DEF HasBlankLine
<1>5. pc' \in {"parse", "read"} /\ why' = why
  BY <1>1, <1>2, <1>4, HonestTypes DEF ReadHeaders
<1>6. Unread' = Unread
  BY <1>1, <1>5 DEF Unread
<1>7. Steady'
  <2>1. LegsNeeded' = LegsNeeded /\ Leg(round)' = Leg(round)
    BY <1>2 DEF LegsNeeded, Leg
  <2>2. Reached' = Reached
    BY <1>2, <1>5 DEF Reached
  <2> QED BY <1>0, <1>2, <1>3, <1>5, <2>1, <2>2 DEF Steady
<1>8. Replied'
  <2>1. LegsNeeded' = LegsNeeded
    BY <1>2 DEF LegsNeeded
  <2> QED BY <1>0, <1>2, <1>3, <1>5, <2>1 DEF Replied
<1>9. Delivered'
  BY <1>1, <1>5, <1>6 DEF Delivered
<1> QED BY <1>7, <1>8, <1>9 DEF Honest

\* The response parses, and a 200 has no body to drain.
LEMMA HonestParse ==
  ASSUME IInv, Declared, ~faulty, Honest, ParseResponse
  PROVE  Honest'
<1>0. Steady /\ Replied
  BY DEF Honest
<1>1. /\ pc = "parse"
      /\ UNCHANGED <<faulty, scheme, sess, round, tok, req, resp, legs, closed, undeclared>>
  BY DEF ParseResponse, proxy
<1>2. req = Idle /\ ParsedStatus # Unparsable /\ buf[1].r = resp
  BY <1>0, <1>1, WholeHeader DEF Steady
<1>3. why' = why /\ pc' = IF resp.len > 0 THEN "drain" ELSE "decide"
  BY <1>2 DEF ParseResponse, ContentLength
<1>4. Steady'
  <2>1. LegsNeeded' = LegsNeeded /\ Leg(round)' = Leg(round)
    BY <1>1 DEF LegsNeeded, Leg
  <2>2. Reached' = Reached
    BY <1>1, <1>3 DEF Reached
  <2> QED BY <1>0, <1>1, <1>2, <1>3, <2>1, <2>2 DEF Steady
<1>5. Replied'
  <2>1. LegsNeeded' = LegsNeeded
    BY <1>1 DEF LegsNeeded
  <2> QED BY <1>0, <1>1, <1>2, <1>3, <2>1 DEF Replied
<1>6. Delivered'
  <2>1. resp.status = 200 => resp.len = 0
    BY <1>0, <1>1, <1>2 DEF Replied
  <2> QED BY <1>1, <1>3, <2>1 DEF Delivered
<1> QED BY <1>4, <1>5, <1>6 DEF Honest

\* Draining a page does not move the exchange.
LEMMA HonestDrain ==
  ASSUME IInv, ~faulty, Honest, DrainBody
  PROVE  Honest'
<1>0. Steady /\ Replied /\ Delivered
  BY DEF Honest
<1>1. /\ pc = "drain" /\ pc' \in {"decide", "drain"}
      /\ UNCHANGED <<faulty, scheme, sess, why, round, tok, req, resp, legs, closed, undeclared>>
  BY DEF DrainBody, proxy
<1>2. LegsNeeded' = LegsNeeded /\ Leg(round)' = Leg(round)
  BY <1>1 DEF LegsNeeded, Leg
<1>3. Reached' = Reached
  BY <1>1 DEF Reached
<1>4. Steady'
  BY <1>0, <1>1, <1>2, <1>3 DEF Steady
<1>5. Replied'
  BY <1>0, <1>1, <1>2 DEF Replied
<1>6. Delivered'
  BY <1>0, <1>1 DEF Delivered
<1> QED BY <1>4, <1>5, <1>6 DEF Honest

\* The status the loop acts on says how far the exchange has got.
LEMMA HonestLoop ==
  ASSUME IInv, Declared, ~faulty, Honest, RoundsSuffice, pc \in {"decide", "step"}
  PROVE  /\ status = resp.status /\ chal = resp.chal /\ req = Idle
         /\ round <= LegsNeeded /\ legs = round
         /\ resp.status = IF round = LegsNeeded THEN 200 ELSE 407
         /\ round # LegsNeeded =>
              /\ scheme # "Anonymous" /\ round < MaxRounds
              /\ chal = IF round = 0 THEN "bare" ELSE "token"
<1>0. Steady /\ Replied
  BY DEF Honest
<1>1. status = resp.status /\ chal = resp.chal /\ req = Idle
  BY <1>0 DEF IInv, Steady, Declared, Led, OnLastAnswer
<1>2. round <= LegsNeeded /\ legs = round
  BY <1>0, <1>1 DEF Steady, Reached
<1>3. /\ resp.status = IF round = LegsNeeded THEN 200 ELSE 407
      /\ resp.status = 407 => resp.chal = IF round = 0 THEN "bare" ELSE "token"
  BY <1>0, <1>1 DEF Replied
<1>4. round # LegsNeeded => scheme # "Anonymous" /\ round < MaxRounds
  BY <1>2, HonestTypes DEF LegsNeeded, RoundsSuffice
<1> QED BY <1>1, <1>2, <1>3, <1>4

\* The session answers every challenge with the token of the next round.
LEMMA HonestSession ==
  ASSUME IInv, Declared, ~faulty, Honest, RoundsSuffice, pc = "step"
  PROVE  /\ round < LegsNeeded
         /\ StepOutcomes # {}
         /\ \A o \in StepOutcomes :
              /\ o.out = Leg(round + 1) /\ o.out \in Tokens
              /\ scheme \in {"NTLM", "Kerberos"} => o.next = round + 1
<1>0. Steady
  BY DEF Honest
<1>1. /\ status = resp.status /\ round <= LegsNeeded
      /\ resp.status = IF round = LegsNeeded THEN 200 ELSE 407
      /\ round # LegsNeeded => /\ scheme # "Anonymous"
                               /\ chal = IF round = 0 THEN "bare" ELSE "token"
  BY HonestLoop
<1>2. status = 407
  BY <1>0 DEF IInv, Steady, Declared, Led, Switched
<1>3. round < LegsNeeded /\ scheme # "Anonymous" /\ chal = IF round = 0 THEN "bare" ELSE "token"
  BY <1>1, <1>2, HonestTypes
<1>4. round \in Nat /\ KrbLegs \in Nat /\ scheme \in {"Anonymous", "Basic", "NTLM", "Kerberos"}
  BY HonestTypes
<1>5. CASE scheme = "Basic"
  <2>1. round = 0
    BY <1>3, <1>4, <1>5 DEF LegsNeeded
  <2>2. StepOutcomes = {[next |-> sess, out |-> "basic"]}
    BY <1>5 DEF StepOutcomes, BasicStep
  <2>3. Leg(round + 1) = "basic"
    BY <1>5, <2>1 DEF Leg
  <2> QED BY <1>3, <1>5, <2>2, <2>3 DEF Tokens
<1>6. CASE scheme = "NTLM"
  <2>1. sess = round /\ round \in {0, 1}
    BY <1>0, <1>3, <1>4, <1>6 DEF Steady, LegsNeeded
  <2>2. CASE round = 0
    <3>1. StepOutcomes = {[next |-> 1, out |-> "type1"]}
      BY <1>6, <2>1, <2>2 DEF StepOutcomes, NtlmStep, NtlmInitial, NtlmChallenge
    <3>2. Leg(round + 1) = "type1"
      BY <1>6, <2>2 DEF Leg
    <3> QED BY <1>3, <2>2, <3>1, <3>2 DEF Tokens
  <2>3. CASE round = 1
    <3>1. StepOutcomes = {[next |-> 2, out |-> "type3"]}
      BY <1>3, <1>6, <2>1, <2>3
         DEF StepOutcomes, NtlmStep, NtlmInitial, NtlmChallenge, NtlmComplete
    <3>2. Leg(round + 1) = "type3"
      BY <1>6, <2>3 DEF Leg
    <3> QED BY <1>3, <2>3, <3>1, <3>2 DEF Tokens
  <2> QED BY <2>1, <2>2, <2>3
<1>7. CASE scheme = "Kerberos"
  <2>1. sess = round /\ round < KrbLegs
    BY <1>0, <1>3, <1>4, <1>7 DEF Steady, LegsNeeded
  <2>2. StepOutcomes = {[next |-> sess + 1, out |-> "gss"]}
    BY <1>3, <1>7, <2>1 DEF StepOutcomes, KerberosStep
  <2> QED BY <1>3, <1>4, <1>7, <2>1, <2>2 DEF Leg, Tokens
<1> QED BY <1>3, <1>4, <1>5, <1>6, <1>7

\* Neither end of the exchange loses its place.
LEMMA HonestStep == RoundsSuffice /\ IInv /\ Declared /\ Honest /\ [Next]_vars => Honest'
<1> SUFFICES ASSUME RoundsSuffice, IInv, Declared, Honest, [Next]_vars, ~faulty'
             PROVE  Honest'
  BY DEF Honest
<1>0. ~faulty
  BY DEF Next, ClientStep, ProxyStep, Connect, SendConnect, ReadHeaders, ParseResponse, Misread,
         DrainBody, PeerClosed, Decide, StepSession, Splice, Answer, SendPayload,
         CloseConnection, vars
<1>1. Steady /\ Replied /\ Delivered /\ ~undeclared /\ ~misled
  BY <1>0 DEF Honest, Steady, Declared
<1>2. pc \in PCs /\ tok \in Tokens
  BY Data
<1>3. ASSUME UNCHANGED <<faulty, scheme, round>>
      PROVE  LegsNeeded' = LegsNeeded /\ Leg(round)' = Leg(round)
  BY <1>3 DEF LegsNeeded, Leg
<1>4. ASSUME Connect
      PROVE  Honest'
  <2>1. /\ pc = "connect" /\ pc' = "send"
        /\ UNCHANGED <<faulty, scheme, sess, why, round, tok, req, resp, legs, closed, undeclared>>
    BY <1>0, <1>4 DEF Connect, proxy
  <2>2. Reached' = Reached
    BY <2>1 DEF Reached
  <2>3. Steady'
    BY <1>1, <1>3, <2>1, <2>2 DEF Steady
  <2> QED BY <1>1, <2>1, <2>3 DEF Honest, Replied, Delivered
<1>5. ASSUME SendConnect
      PROVE  Honest'
  <2>1. /\ pc = "send" /\ ~closed /\ req = Idle /\ px # "tunnel"
    BY <1>1, <1>5 DEF SendConnect, Steady, IInv, Led, NoConnectIntoTunnel
  <2>2. /\ pc' = "read" /\ req' = Append(req, tok)
        /\ UNCHANGED <<faulty, scheme, sess, why, round, tok, resp, legs, closed, undeclared>>
    BY <1>5, <2>1 DEF SendConnect
  <2>3. req' = <<tok>> /\ req' # Idle
    BY <1>2, <2>1, <2>2, EmptySeq DEF Idle
  <2>4. Reached' = Reached
    BY <2>1, <2>2, <2>3 DEF Reached
  <2>5. Steady'
    BY <1>1, <1>3, <2>2, <2>3, <2>4 DEF Steady
  <2> QED BY <2>2, <2>3, <2>5 DEF Honest, Replied, Delivered
<1>6. ASSUME PeerClosed \/ CloseConnection
      PROVE  FALSE
  BY <1>0, <1>1, <1>6 DEF PeerClosed, CloseConnection, Steady
<1>7. ASSUME Decide
      PROVE  Honest'
  <2>1. /\ pc = "decide"
        /\ UNCHANGED <<faulty, scheme, sess, round, tok, req, resp, legs, closed, undeclared>>
    BY <1>7 DEF Decide, proxy
  <2>2. /\ status = resp.status /\ req = Idle
        /\ resp.status = IF round = LegsNeeded THEN 200 ELSE 407
        /\ round # LegsNeeded => scheme # "Anonymous" /\ round < MaxRounds
    BY <1>0, <2>1, HonestLoop
  <2>3. /\ why' = why
        /\ pc' \in {"ok", "step"}
    BY <1>7, <2>2 DEF Decide, Granted, Challenged, RoundsLeft
  <2>4. Reached' = Reached
    BY <2>1, <2>3 DEF Reached
  <2>5. Steady'
    BY <1>1, <1>3, <2>1, <2>2, <2>3, <2>4 DEF Steady
  <2>6. Replied'
    BY <1>1, <1>3, <2>1, <2>2, <2>3 DEF Replied
  <2> QED BY <2>3, <2>5, <2>6 DEF Honest, Delivered
<1>8. ASSUME StepSession
      PROVE  Honest'
  <2>1. /\ pc = "step"
        /\ UNCHANGED <<faulty, scheme, req, resp, legs, closed, undeclared>>
    BY <1>8 DEF StepSession, proxy
  <2>2. /\ round < LegsNeeded
        /\ \A o \in StepOutcomes :
             /\ o.out = Leg(round + 1) /\ o.out \in Tokens
             /\ scheme \in {"NTLM", "Kerberos"} => o.next = round + 1
    BY <1>0, <2>1, HonestSession
  <2>3. PICK o \in StepOutcomes :
          sess' = o.next /\ tok' = o.out /\ round' = round + 1 /\ pc' = "send" /\ why' = why
    BY <1>8, <2>2 DEF StepSession
  <2>4. /\ req = Idle /\ legs = round /\ status = resp.status
        /\ resp.status = IF round = LegsNeeded THEN 200 ELSE 407
    BY <1>0, <2>1, HonestLoop
  <2>5. round \in Nat /\ LegsNeeded \in Nat
    BY HonestTypes
  <2>6. LegsNeeded' = LegsNeeded /\ tok' = Leg(round)'
    <3>1. Leg(round)' = Leg(round + 1)
      BY <2>1, <2>3 DEF Leg
    <3>2. LegsNeeded' = LegsNeeded
      BY <2>1 DEF LegsNeeded
    <3> QED BY <2>2, <2>3, <3>1, <3>2
  <2>7. Reached' = round
    BY <2>1, <2>3, <2>5 DEF Reached
  <2>8. round' <= LegsNeeded
    BY <2>2, <2>3, <2>5
  <2>9. Steady'
    BY <1>1, <2>1, <2>2, <2>3, <2>4, <2>6, <2>7, <2>8 DEF Steady
  <2> QED BY <2>3, <2>9 DEF Honest, Replied, Delivered
<1>9. ASSUME Splice
      PROVE  Honest'
  <2>1. /\ pc = "ok"
        /\ UNCHANGED <<faulty, scheme, sess, pc, why, round, tok, req, resp, legs, closed, undeclared>>
    BY <1>9 DEF Splice, proxy
  <2>2. Reached' = Reached
    BY <2>1 DEF Reached
  <2>3. Steady' /\ Replied'
    BY <1>1, <1>3, <2>1, <2>2 DEF Steady, Replied
  <2> QED BY <2>1, <2>3 DEF Honest, Delivered
<1>10. ASSUME SendPayload
       PROVE  Honest'
  <2>1. /\ px = "tunnel"
        /\ UNCHANGED <<faulty, scheme, sess, pc, why, round, tok, req, resp, legs, closed, undeclared>>
    BY <1>10 DEF SendPayload, client
  <2>2. Reached' = Reached
    BY <2>1 DEF Reached
  <2>3. Steady' /\ Replied'
    BY <1>1, <1>3, <2>1, <2>2 DEF Steady, Replied
  <2>4. pc \in {"read", "parse"} => Unread' # <<>>
    <3> SUFFICES ASSUME pc \in {"read", "parse"}
                 PROVE  Unread' # <<>>
      OBVIOUS
    <3>1. Len(Unread) \in Nat /\ Len(Unread') = Len(Unread) + 1
      BY <1>10, PayloadArrives
    <3> QED BY <3>1, EmptySeq
  <2> QED BY <1>1, <2>1, <2>3, <2>4 DEF Honest, Delivered
<1>11. ASSUME UNCHANGED vars
       PROVE  Honest'
  <2>1. UNCHANGED <<faulty, scheme, sess, pc, why, round, tok, buf, stream, req, resp, legs, closed,
                    undeclared>>
    BY <1>11 DEF vars, client, proxy
  <2>2. Reached' = Reached /\ Unread' = Unread
    BY <2>1 DEF Reached, Unread
  <2> QED BY <1>1, <1>3, <2>1, <2>2 DEF Honest, Steady, Replied, Delivered
<1>12. ASSUME ReadHeaders \/ ParseResponse \/ DrainBody \/ Answer
       PROVE  Honest'
  BY <1>0, <1>12, HonestRead, HonestParse, HonestDrain, HonestAnswer
<1>13. ASSUME Misread
       PROVE  FALSE
  <2>1. pc = "parse" /\ buf[1].k \notin {"h", "e"}
    BY <1>1, <1>13 DEF Misread
  <2> QED BY <1>1, <2>1, WholeHeader DEF Header
<1> QED BY <1>4, <1>5, <1>6, <1>7, <1>8, <1>9, <1>10, <1>11, <1>12, <1>13
        DEF Next, ClientStep, ProxyStep

\* Against a proxy that follows its scheme and accepts the credentials the call
\* does not fail, and never waits for what cannot come, but in the drain of a
\* body that was read together with its headers: the safety half of Connects,
\* for every size of headers, chunks and pages.
THEOREM HonestProxySuffices == RoundsSuffice => (Spec => []GoesOn)
<1> SUFFICES ASSUME RoundsSuffice PROVE Spec => []GoesOn
  OBVIOUS
<1>1. Init => Honest
  <2> SUFFICES ASSUME Init PROVE Honest
    OBVIOUS
  <2>1. LegsNeeded \in Nat
    BY ConstantsAssumption DEF LegsNeeded
  <2>2. Steady
    BY <2>1 DEF Init, Steady, Reached, Leg
  <2> QED BY <2>2 DEF Init, Honest, Replied, Delivered
<1>2. IInv /\ Declared /\ Honest /\ [Next]_vars => Honest'
  BY HonestStep
<1>3. IInv /\ Declared /\ Honest => GoesOn
  <2> SUFFICES ASSUME IInv, Declared, Honest, ~faulty PROVE GoesOn
    BY DEF GoesOn
  <2>1. Steady /\ Replied /\ Delivered /\ Arriving /\ Emptied
    BY DEF Honest, Steady, Declared
  <2>2. /\ Len(buf) \in Nat /\ Len(stream) \in Nat /\ resp.fill \in Nat /\ need \in Nat
        /\ buf \in Seq(Cell) /\ stream \in Seq(Cell)
    BY Data
  <2>3. pc = "read" => req # Idle \/ stream # <<>>
    <3> SUFFICES ASSUME pc = "read", req = Idle, stream = <<>>
                 PROVE  FALSE
      OBVIOUS
    <3>1. Unread = buf
      BY <2>2, ConcatEmptySeq DEF Unread
    <3>2. resp.fill + 1 \in DOMAIN buf /\ buf[resp.fill + 1].k = "e"
      BY <2>1, <2>2, <3>1, LenProperties DEF Arriving, Delivered
    <3> QED BY <2>1, <3>2 DEF Emptied, HasBlankLine
  <2>4. pc = "step" => StepOutcomes # {} /\ \A o \in StepOutcomes : o.out \in Tokens
    BY HonestSession
  <2>5. pc = "drain" => stream # <<>> \/ Len(buf) > resp.fill + 1
    <3> SUFFICES ASSUME pc = "drain", stream = <<>>
                 PROVE  Len(buf) > resp.fill + 1
      OBVIOUS
    <3>1. Len(stream) = 0
      BY EmptySeq
    <3> QED BY <2>1, <2>2, <3>1 DEF Emptied, Delivered
  <2> QED BY <2>1, <2>3, <2>4, <2>5 DEF GoesOn, Steady
<1> QED BY <1>1, <1>2, <1>3, Invariance, DeclaredAlways, PTL DEF Spec
=============================================================================
