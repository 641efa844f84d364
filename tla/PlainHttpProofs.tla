--------------------------- MODULE PlainHttpProofs ---------------------------
(***************************************************************************)
(* Safety of the plain HTTP path for every set of configurations and any   *)
(* size of a response: where the connection goes, where the password goes, *)
(* and what of the server's response the client is given.                  *)
(***************************************************************************)
EXTENDS PlainHttp, SequenceTheorems, TLAPS

-----------------------------------------------------------------------------
(***************************************************************************)
(* What parse_raw_response makes of a response, and of a part of it.       *)
(***************************************************************************)
\* A response is its first head, with one blank line at the end, and the rest.
LEMMA Parts ==
  ASSUME NEW p \in Pages
  PROVE  /\ FirstHead(p) \in Seq(Cells) /\ Behind(p) \in Seq(Cells) /\ Wire(p) \in Seq(Cells)
         /\ Len(FirstHead(p)) \in Nat \ {0} /\ Len(Behind(p)) \in Nat
         /\ Len(Wire(p)) = Len(FirstHead(p)) + Len(Behind(p))
         /\ FirstHead(p)[Len(FirstHead(p))] = "blank"
         /\ \A i \in 1..(Len(FirstHead(p)) - 1) : FirstHead(p)[i] # "blank"
         /\ FirstHead(p)[1] \in {"status", "continue"}
<1>1. Body(p) \in Seq(Cells)
  <2>1. p.body \in Nat
    BY ConstantsAssumption DEF Pages
  <2>2. CASE p.chunked
    <3> DEFINE n == 2 * p.body + 1
               f(i) == IF i % 2 = 0 THEN "data" ELSE "size"
    <3>1. n \in Nat /\ \A i \in 1..n : f(i) \in Cells
      BY <2>1 DEF Cells
    <3>2. Body(p) = [i \in 1..n |-> f(i)]
      BY <2>2 DEF Body
    <3> HIDE DEF n, f
    <3> QED BY <3>1, <3>2, IsASeq
  <2>3. CASE ~p.chunked
    <3> DEFINE g(i) == "data"
    <3>1. \A i \in 1..p.body : g(i) \in Cells
      BY DEF Cells
    <3>2. Body(p) = [i \in 1..p.body |-> g(i)]
      BY <2>3 DEF Body
    <3> HIDE DEF g
    <3> QED BY <2>1, <3>1, <3>2, IsASeq
  <2> QED BY <2>2, <2>3
<1>2. Final \in Seq(Cells) /\ Continue \in Seq(Cells)
  BY DEF Final, Continue, Cells
<1>3. /\ Len(Final) = 3 /\ Final[1] = "status" /\ Final[2] = "header" /\ Final[3] = "blank"
      /\ Len(Continue) = 2 /\ Continue[1] = "continue" /\ Continue[2] = "blank"
  BY DEF Final, Continue
<1>4. Behind(p) \in Seq(Cells) /\ FirstHead(p) \in Seq(Cells)
  BY <1>1, <1>2, ConcatProperties DEF Behind, FirstHead
<1>5. Wire(p) \in Seq(Cells) /\ Len(Wire(p)) = Len(FirstHead(p)) + Len(Behind(p))
  BY <1>4, ConcatProperties DEF Wire
<1>6. /\ Len(FirstHead(p)) \in {2, 3}
      /\ FirstHead(p)[Len(FirstHead(p))] = "blank"
      /\ \A i \in 1..(Len(FirstHead(p)) - 1) : FirstHead(p)[i] # "blank"
      /\ FirstHead(p)[1] \in {"status", "continue"}
  <2>1. CASE p.interim
    <3>1. FirstHead(p) = Continue
      BY <2>1 DEF FirstHead
    <3>2. Len(FirstHead(p)) = 2 /\ \A i \in 1..(2 - 1) : i = 1
      BY <1>3, <3>1
    <3> QED BY <1>3, <3>1, <3>2
  <2>2. CASE ~p.interim
    <3>1. FirstHead(p) = Final
      BY <2>2 DEF FirstHead
    <3>2. Len(FirstHead(p)) = 3 /\ \A i \in 1..(3 - 1) : i \in {1, 2}
      BY <1>3, <3>1
    <3> QED BY <1>3, <3>1, <3>2
  <2> QED BY <2>1, <2>2
<1> QED BY <1>4, <1>5, <1>6, LenProperties

\* Nothing is a prefix of everything.
LEMMA EmptyPrefix ==
  ASSUME NEW b \in Seq(Cells)
  PROVE  SubSeq(b, 1, 0) = <<>> /\ Len(<<>>) = 0 /\ <<>> \in Seq(Cells)
<1>1. /\ SubSeq(b, 1, 0) \in Seq(Cells)
      /\ Len(SubSeq(b, 1, 0)) = IF 1 <= 0 THEN 0 - 1 + 1 ELSE 0
  BY SubSeqProperties
<1> QED BY <1>1, EmptySeq

\* Of every prefix of a response the status is the first head's and the body a
\* prefix of what follows that head.
LEMMA Parsed ==
  ASSUME page \in Pages, got \in 0..Len(Wire(page))
  PROVE  /\ ParsedStatus = IF got = 0 THEN "502" ELSE FirstHead(page)[1]
         /\ ParsedBody \in Seq(Cells)
         /\ Len(ParsedBody) <= Len(Behind(page))
         /\ ParsedBody = SubSeq(Behind(page), 1, Len(ParsedBody))
         /\ got = Len(Wire(page)) => ParsedBody = Behind(page)
<1> DEFINE w == Wire(page)
           f == FirstHead(page)
           b == Behind(page)
           h == Len(f)
           s == Received
<1>1. /\ f \in Seq(Cells) /\ b \in Seq(Cells) /\ w \in Seq(Cells)
      /\ h \in Nat \ {0} /\ Len(b) \in Nat /\ Len(w) = h + Len(b)
      /\ f[h] = "blank" /\ \A i \in 1..(h - 1) : f[i] # "blank"
  BY Parts
<1>2. /\ \A i \in 1..h : w[i] = f[i]
      /\ \A i \in 1..Len(b) : w[h + i] = b[i]
  <2>1. w = f \o b
    BY DEF Wire
  <2>2. \A i \in 1..(h + Len(b)) : w[i] = IF i <= h THEN f[i] ELSE b[i - h]
    BY <1>1, <2>1, ConcatProperties
  <2>3. ASSUME NEW i \in 1..Len(b) PROVE w[h + i] = b[i]
    <3>1. h + i \in 1..(h + Len(b)) /\ ~(h + i <= h) /\ (h + i) - h = i
      BY <1>1
    <3> QED BY <2>2, <3>1
  <2>4. \A i \in 1..h : i \in 1..(h + Len(b)) /\ i <= h
    BY <1>1
  <2> QED BY <2>2, <2>3, <2>4
<1>3. s \in Seq(Cells) /\ Len(s) = got /\ got \in Nat /\ \A i \in 1..got : s[i] = w[i]
  <2>1. got \in Nat /\ got <= Len(w) /\ Len(w) \in Nat
    BY <1>1
  <2>2. \A i \in 1..got : w[i] \in Cells
    BY <1>1, <2>1, ElementOfSeq
  <2>3. s = SubSeq(w, 1, got)
    BY DEF Received
  <2>4. /\ s \in Seq(Cells)
        /\ Len(s) = IF 1 <= got THEN got - 1 + 1 ELSE 0
        /\ \A i \in 1..(got - 1 + 1) : s[i] = w[1 + i - 1]
    BY <2>1, <2>2, <2>3, SubSeqProperties
  <2>5. \A i \in 1..got : 1 + i - 1 = i /\ i \in 1..(got - 1 + 1)
    BY <2>1
  <2> QED BY <2>1, <2>4, <2>5
<1> HIDE DEF w, f, b, h, s
<1>4. ParsedStatus = IF got = 0 THEN "502" ELSE f[1]
  <2>1. CASE got = 0
    <3>1. s = <<>>
      BY <1>3, <2>1, EmptySeq
    <3> QED BY <2>1, <3>1 DEF s, ParsedStatus
  <2>2. CASE got # 0
    <3>1. s # <<>> /\ s[1] = f[1]
      <4>1. 1 \in 1..got /\ 1 \in 1..h
        BY <1>1, <1>3, <2>2
      <4> QED BY <1>2, <1>3, <2>2, <4>1, EmptySeq
    <3> QED BY <2>2, <3>1 DEF s, ParsedStatus
  <2> QED BY <2>1, <2>2
<1>5. DOMAIN s = 1..got
  BY <1>3, LenProperties
<1>6. \A i \in 1..got : i < h => s[i] # "blank"
  <2> SUFFICES ASSUME NEW i \in 1..got, i < h
               PROVE  s[i] # "blank"
    OBVIOUS
  <2>1. i \in 1..(h - 1) /\ i \in 1..h
    BY <1>1, <1>3
  <2> QED BY <1>1, <1>2, <1>3, <2>1
<1>7. CASE got < h
  <2>1. Blanks(s) = {}
    <3>1. \A i \in 1..got : i < h
      BY <1>1, <1>3, <1>7
    <3> QED BY <1>5, <1>6, <3>1 DEF Blanks
  <2>2. ParsedBody = <<>>
    BY <2>1 DEF ParsedBody, s
  <2>3. SubSeq(b, 1, 0) = <<>>
    BY <1>1, EmptyPrefix
  <2>4. got # Len(w) /\ Len(<<>>) = 0 /\ <<>> \in Seq(Cells)
    BY <1>1, <1>3, <1>7, EmptySeq
  <2> QED BY <1>1, <1>4, <2>2, <2>3, <2>4 DEF w, f, b
<1>8. CASE h <= got
  <2>1. s[h] = "blank" /\ h \in 1..got
    <3>1. h \in 1..h /\ h \in 1..got
      BY <1>1, <1>3, <1>8
    <3> QED BY <1>1, <1>2, <1>3, <3>1
  <2>2. FirstBlank(s) = h
    <3>1. h \in Blanks(s)
      BY <1>5, <2>1 DEF Blanks
    <3>2. \A i \in Blanks(s) : i \in 1..got /\ h <= i
      <4>1. \A i \in Blanks(s) : i \in 1..got /\ ~(i < h)
        BY <1>5, <1>6 DEF Blanks
      <4> QED BY <1>1, <1>3, <4>1
    <3> DEFINE c == FirstBlank(s)
    <3>3. c \in Blanks(s) /\ \A j \in Blanks(s) : c <= j
      BY <3>1, <3>2 DEF FirstBlank
    <3> HIDE DEF c
    <3>4. c <= h /\ h <= c /\ c \in 1..got
      BY <3>1, <3>2, <3>3
    <3>5. c = h
      BY <1>1, <1>3, <3>4
    <3> QED BY <3>5 DEF c
  <2>3. ParsedBody = SubSeq(s, h + 1, got)
    <3>1. Blanks(s) # {}
      BY <1>5, <2>1 DEF Blanks
    <3> QED BY <1>3, <2>2, <3>1 DEF ParsedBody, s
  <2> DEFINE n == got - h
  <2>4. n \in 0..Len(b) /\ got = h + n
    BY <1>1, <1>3, <1>8 DEF w
  <2> HIDE DEF n
  <2>5. /\ ParsedBody \in Seq(Cells) /\ Len(ParsedBody) = n
        /\ \A i \in 1..n : ParsedBody[i] = b[i]
    <3>1. \A i \in (h + 1)..got : s[i] \in Cells
      <4>1. \A i \in (h + 1)..got : i \in 1..Len(s)
        BY <1>1, <1>3
      <4> QED BY <1>3, <4>1, ElementOfSeq
    <3>2. /\ ParsedBody \in Seq(Cells)
          /\ Len(ParsedBody) = IF h + 1 <= got THEN got - (h + 1) + 1 ELSE 0
          /\ \A i \in 1..(got - (h + 1) + 1) : ParsedBody[i] = s[(h + 1) + i - 1]
      <4>1. h + 1 \in Int /\ got \in Int
        BY <1>1, <1>3
      <4> QED BY <2>3, <3>1, <4>1, SubSeqProperties
    <3>3. Len(ParsedBody) = n
      BY <1>1, <2>4, <3>2
    <3>4. ASSUME NEW i \in 1..n
          PROVE  ParsedBody[i] = b[i]
      <4>1. /\ i \in 1..(got - (h + 1) + 1) /\ (h + 1) + i - 1 = h + i
            /\ h + i \in 1..got /\ i \in 1..Len(b)
        BY <1>1, <2>4
      <4> QED BY <1>2, <1>3, <3>2, <4>1
    <3> QED BY <3>2, <3>3, <3>4
  <2>6. ParsedBody = SubSeq(b, 1, n)
    <3>1. /\ SubSeq(b, 1, n) \in Seq(Cells)
          /\ Len(SubSeq(b, 1, n)) = IF 1 <= n THEN n - 1 + 1 ELSE 0
          /\ \A i \in 1..(n - 1 + 1) : SubSeq(b, 1, n)[i] = b[1 + i - 1]
      <4>1. \A i \in 1..n : b[i] \in Cells
        BY <1>1, <2>4, ElementOfSeq
      <4> QED BY <2>4, <4>1, SubSeqProperties
    <3>2. Len(SubSeq(b, 1, n)) = n
      BY <2>4, <3>1
    <3>3. \A i \in 1..n : SubSeq(b, 1, n)[i] = ParsedBody[i]
      <4>1. \A i \in 1..n : 1 + i - 1 = i /\ i \in 1..(n - 1 + 1)
        BY <2>4
      <4> QED BY <2>5, <3>1, <4>1
    <3> QED BY <2>5, <3>1, <3>2, <3>3, SeqEqual
  <2>7. got = Len(w) => ParsedBody = b
    <3> SUFFICES ASSUME got = Len(w)
                 PROVE  ParsedBody = b
      OBVIOUS
    <3>1. n = Len(b)
      BY <1>1, <2>4
    <3> QED BY <1>1, <2>6, <3>1, SubSeqFull
  <2>8. Len(ParsedBody) <= Len(b)
    BY <2>4, <2>5
  <2> QED BY <1>4, <2>5, <2>6, <2>7, <2>8 DEF w, f, b
<1> QED BY <1>1, <1>3, <1>7, <1>8

-----------------------------------------------------------------------------
(***************************************************************************)
(* The invariant.                                                          *)
(***************************************************************************)

\* Every route comes from the static configuration or from a PAC answer.
LEMMA RouteTypes ==
  /\ StaticRoute(cfg) \in Routes
  /\ \A a : PacRoute(cfg, a) \in Routes
<1>1. StaticRoute(cfg) \in Routes
  BY DEF StaticRoute, Routes
<1>2. ASSUME NEW a
      PROVE  PacRoute(cfg, a) \in Routes
  <2>1. CASE a = "error"
    BY <1>1, <2>1 DEF PacRoute
  <2>2. CASE a = "PROXY p"
    BY <2>2 DEF PacRoute, Routes
  <2>3. CASE a \notin {"error", "PROXY p"}
    BY <2>3 DEF PacRoute, Routes
  <2> QED BY <2>1, <2>2, <2>3
<1> QED BY <1>1, <1>2

\* What is dialled has passed the guard, and the connection goes there.
Routed ==
  /\ route # "unset" => ~Forbidden(cfg, target, route)
  /\ phase \in {"dialing", "writing", "reading"} => route \in Routes
  /\ phase \in {"received", "resolving", "dialing"} => peer = "none"
  /\ phase \in {"writing", "reading"} \/ peer # "none" => peer = route

\* Credentials go to the end the route names.
Authorized == auth # "none" => peer \in {"static", "pac"}

\* What has been read is part of what has been sent.
Progress == got <= sent

\* A response handed back is final: the server has no more to add.
Relayed ==
  /\ reply # "none" => phase = "done"
  /\ reply \in {"status", "continue"} => server \in {"closed", "reset"}

IInv ==
  /\ TypeOK
  /\ Routed
  /\ Authorized
  /\ Progress
  /\ Relayed
  /\ ResponseIsFaithful

\* Taking a route either refuses the request or starts to dial it.
LEMMA Taking ==
  ASSUME NEW r \in Routes, Take(r)
  PROVE  \/ /\ ~Forbidden(cfg, target, r)
            /\ phase' = "dialing" /\ route' = r
            /\ UNCHANGED <<answer, peer, auth>>
         \/ /\ phase' = "done" /\ reply' = "403" /\ replyBody' = <<>>
            /\ UNCHANGED outgoing
BY DEF Take, Guarded, Finish

\* The four ways a request is answered or dialled without a server's answer.
Refusal ==
  /\ phase' = "done" /\ reply' \in {"none", "400", "403", "502", "reset"} /\ replyBody' = <<>>
  /\ UNCHANGED <<request, outgoing, serving, got>>

Dialing ==
  /\ \E r \in Routes : ~Forbidden(cfg, target, r) /\ route' = r
  /\ phase \in {"received", "resolving"} /\ phase' = "dialing"
  /\ UNCHANGED <<request, answer, peer, auth, serving, got>>

\* What the handler does before it has a connection.
LEMMA BeforeConnection ==
  ASSUME NoHost \/ ResolveWithoutPac \/ AskPac \/ PacReturns \/ ClientLeaves
  PROVE  \/ Refusal
         \/ Dialing
         \/ /\ phase = "received" /\ phase' = "resolving"
            /\ UNCHANGED <<request, outgoing, serving, got, answer>>
<1>1. CASE NoHost \/ ClientLeaves
  BY <1>1 DEF NoHost, ClientLeaves, Finish, Refusal
<1>2. CASE AskPac
  BY <1>2 DEF AskPac
<1>3. ASSUME NEW r \in Routes, Take(r), phase \in {"received", "resolving"},
             UNCHANGED <<request, serving, got>>
      PROVE  Refusal \/ Dialing
  <2>1. CASE ~Forbidden(cfg, target, r) /\ phase' = "dialing" /\ route' = r
             /\ UNCHANGED <<answer, peer, auth>>
    BY <1>3, <2>1 DEF Dialing
  <2>2. CASE phase' = "done" /\ reply' = "403" /\ replyBody' = <<>> /\ UNCHANGED outgoing
    BY <1>3, <2>2 DEF Refusal
  <2> QED BY <1>3, <2>1, <2>2, Taking
<1>4. CASE ResolveWithoutPac
  <2>1. PICK r \in Routes : Take(r)
    BY <1>4, RouteTypes DEF ResolveWithoutPac, Routes
  <2> QED BY <1>3, <1>4, <2>1 DEF ResolveWithoutPac
<1>5. CASE PacReturns
  <2>1. PICK a \in PacAnswers :
          \/ Finish("reset", <<>>) /\ UNCHANGED outgoing
          \/ Take(PacRoute(cfg, a))
    BY <1>5 DEF PacReturns
  <2>2. phase = "resolving" /\ UNCHANGED <<request, serving, got>>
    BY <1>5 DEF PacReturns
  <2>3. CASE Finish("reset", <<>>) /\ UNCHANGED outgoing
    BY <2>2, <2>3 DEF Finish, Refusal
  <2>4. CASE Take(PacRoute(cfg, a))
    BY <1>3, <2>2, <2>4, RouteTypes
  <2> QED BY <2>1, <2>3, <2>4
<1> QED BY <1>1, <1>2, <1>4, <1>5

\* A request starts unrouted and unanswered.
LEMMA InitInv == Init => IInv
<1> SUFFICES ASSUME Init
             PROVE  IInv
  OBVIOUS
<1>1. Len(Wire(page)) \in Nat /\ Len(Behind(page)) \in Nat /\ Behind(page) \in Seq(Cells)
  BY Parts DEF Init
<1>2. TypeOK
  BY <1>1, EmptySeq DEF Init, TypeOK, Phases
<1>4. SubSeq(Behind(page), 1, 0) = <<>> /\ Len(<<>>) = 0
  BY <1>1, EmptyPrefix
<1>3. Routed /\ Authorized /\ Progress /\ Relayed /\ ResponseIsFaithful
  BY <1>4 DEF Init, Routed, Authorized, Progress, Relayed, ResponseIsFaithful
<1> QED BY <1>2, <1>3 DEF IInv

\* Every step of the handler, the server and the client keeps the invariant.
LEMMA StepInv == IInv /\ [Next]_vars => IInv'
<1> SUFFICES ASSUME IInv, [Next]_vars
             PROVE  IInv'
  OBVIOUS
<1> USE DEF request, answer, outgoing, serving
<1>0. /\ TypeOK /\ Routed /\ Authorized /\ Progress /\ Relayed /\ ResponseIsFaithful
      /\ MaxBody \in Nat
      /\ page \in Pages /\ sent \in Nat /\ got \in Nat
      /\ Len(Wire(page)) \in Nat /\ Len(Behind(page)) \in Nat
      /\ SubSeq(Behind(page), 1, 0) = <<>> /\ Len(<<>>) = 0 /\ <<>> \in Seq(Cells)
  <2>1. page \in Pages /\ sent \in 0..Len(Wire(page)) /\ got \in 0..Len(Wire(page))
    BY DEF IInv, TypeOK
  <2>2. /\ Behind(page) \in Seq(Cells)
        /\ Len(Wire(page)) \in Nat /\ Len(Behind(page)) \in Nat
    <3>1. /\ Len(FirstHead(page)) \in Nat \ {0} /\ Len(Behind(page)) \in Nat
          /\ Len(Wire(page)) = Len(FirstHead(page)) + Len(Behind(page))
          /\ Behind(page) \in Seq(Cells)
      BY <2>1, Parts
    <3> QED BY <3>1
  <2> QED BY <2>1, <2>2, EmptyPrefix, ConstantsAssumption DEF IInv
<1>1. ASSUME Refusal
      PROVE  IInv'
  <2>1. TypeOK'
    BY <1>0, <1>1 DEF TypeOK, Refusal, Phases
  <2>2. Routed' /\ Authorized'
    BY <1>0, <1>1 DEF Routed, Authorized, Refusal
  <2>3. Progress' /\ Relayed' /\ ResponseIsFaithful'
    BY <1>0, <1>1 DEF Progress, Relayed, ResponseIsFaithful, Refusal
  <2> QED BY <2>1, <2>2, <2>3 DEF IInv
<1>2. ASSUME Dialing
      PROVE  IInv'
  <2>1. TypeOK'
    BY <1>0, <1>2 DEF TypeOK, Dialing, Phases
  <2>2. peer = "none"
    BY <1>0, <1>2 DEF Routed, Dialing
  <2>3. Routed' /\ Authorized'
    BY <1>0, <1>2, <2>2 DEF Routed, Authorized, Dialing
  <2>4. Progress' /\ Relayed' /\ ResponseIsFaithful'
    BY <1>0, <1>2 DEF Progress, Relayed, ResponseIsFaithful, Dialing
  <2> QED BY <2>1, <2>3, <2>4 DEF IInv
<1>3. ASSUME NoHost \/ ResolveWithoutPac \/ AskPac \/ PacReturns \/ ClientLeaves
      PROVE  IInv'
  <2>1. CASE /\ phase = "received" /\ phase' = "resolving"
             /\ UNCHANGED <<request, outgoing, serving, got, answer>>
    <3>1. TypeOK'
      BY <1>0, <2>1 DEF TypeOK, Phases
    <3>2. Routed' /\ Authorized'
      BY <1>0, <2>1 DEF Routed, Authorized
    <3>3. Progress' /\ Relayed' /\ ResponseIsFaithful'
      BY <1>0, <2>1 DEF Progress, Relayed, ResponseIsFaithful
    <3> QED BY <3>1, <3>2, <3>3 DEF IInv
  <2> QED BY <1>1, <1>2, <1>3, <2>1, BeforeConnection
<1>4. ASSUME Dial
      PROVE  IInv'
  <2>1. CASE Refusal
    BY <1>1, <2>1
  <2>2. CASE /\ phase = "dialing" /\ phase' = "writing" /\ peer' = route
             /\ UNCHANGED <<request, route, auth, answer, serving, got>>
    <3>1. TypeOK'
      BY <1>0, <2>2 DEF TypeOK, Routed, Phases
    <3>2. auth = "none"
      BY <1>0, <2>2 DEF Authorized, Routed
    <3>3. Routed' /\ Authorized'
      BY <1>0, <2>2, <3>2 DEF Routed, Authorized
    <3>4. Progress' /\ Relayed' /\ ResponseIsFaithful'
      BY <1>0, <2>2 DEF Progress, Relayed, ResponseIsFaithful
    <3> QED BY <3>1, <3>3, <3>4 DEF IInv
  <2> QED BY <1>4, <2>1, <2>2 DEF Dial, Finish, Refusal
<1>5. ASSUME WriteRequest
      PROVE  IInv'
  <2>1. CASE Refusal
    BY <1>1, <2>1
  <2>2. CASE /\ phase = "writing" /\ phase' = "reading" /\ auth' = CredentialsFor
             /\ UNCHANGED <<request, route, peer, answer, serving, got>>
    <3>1. CredentialsFor \in {"none", "preferences", "empty"}
      BY DEF CredentialsFor, PlainHttpPassword
    <3>2. TypeOK'
      BY <1>0, <2>2, <3>1 DEF TypeOK, Phases
    <3>3. peer = route /\ route \in Routes
      BY <1>0, <2>2 DEF Routed
    <3>4. Routed' /\ Authorized'
      BY <1>0, <2>2, <3>3 DEF Routed, Authorized, CredentialsFor, Routes
    <3>5. Progress' /\ Relayed' /\ ResponseIsFaithful'
      BY <1>0, <2>2 DEF Progress, Relayed, ResponseIsFaithful
    <3> QED BY <3>2, <3>4, <3>5 DEF IInv
  <2> QED BY <1>5, <2>1, <2>2 DEF WriteRequest, Finish, Refusal
<1>6. ASSUME Read
      PROVE  IInv'
  <2>1. TypeOK'
    BY <1>0, <1>6 DEF TypeOK, Read
  <2>2. Routed' /\ Authorized'
    BY <1>0, <1>6 DEF Routed, Authorized, Read
  <2>3. Progress' /\ Relayed' /\ ResponseIsFaithful'
    BY <1>0, <1>6 DEF Progress, Relayed, ResponseIsFaithful, Read
  <2> QED BY <2>1, <2>2, <2>3 DEF IInv
<1>7. ASSUME EndOfResponse
      PROVE  IInv'
  <2>1. /\ phase' = "done" /\ reply' = ParsedStatus /\ replyBody' = ParsedBody
        /\ phase = "reading"
        /\ AtEof \/ server = "reset"
        /\ UNCHANGED <<request, outgoing, serving, got>>
    BY <1>7 DEF EndOfResponse, Finish
  <2>2. /\ ParsedStatus = IF got = 0 THEN "502" ELSE FirstHead(page)[1]
        /\ ParsedBody \in Seq(Cells)
        /\ Len(ParsedBody) <= Len(Behind(page))
        /\ ParsedBody = SubSeq(Behind(page), 1, Len(ParsedBody))
        /\ got = Len(Wire(page)) => ParsedBody = Behind(page)
        /\ FirstHead(page)[1] \in {"status", "continue"}
    BY <1>0, Parsed, Parts DEF TypeOK
  <2>3. page' = page /\ sent' = sent /\ got' = got /\ server' = server
    BY <2>1
  <2>4. TypeOK'
    BY <1>0, <2>1, <2>2 DEF TypeOK, Phases
  <2>5. Routed' /\ Authorized'
    BY <1>0, <2>1 DEF Routed, Authorized
  <2>6. Progress' /\ Relayed'
    BY <1>0, <2>1, <2>2 DEF Progress, Relayed, AtEof
  <2>7. reply' \in {"status", "continue"} => sent > 0 /\ reply' = FirstHead(page)[1]
    <3>1. reply' \in {"status", "continue"} => got # 0
      BY <2>1, <2>2
    <3> QED BY <1>0, <2>1, <2>2, <3>1 DEF Progress
  <2>8. server = "closed" /\ sent = Len(Wire(page)) => replyBody' = Behind(page)
    BY <2>1, <2>2 DEF AtEof
  <2>9. ResponseIsFaithful'
    BY <2>1, <2>2, <2>3, <2>7, <2>8 DEF ResponseIsFaithful
  <2> QED BY <2>4, <2>5, <2>6, <2>9 DEF IInv
<1>8. ASSUME SendCell
      PROVE  IInv'
  <2>1. TypeOK'
    BY <1>0, <1>8 DEF TypeOK, SendCell
  <2>2. Routed' /\ Authorized'
    BY <1>0, <1>8 DEF Routed, Authorized, SendCell
  <2>3. reply \notin {"status", "continue"}
    BY <1>0, <1>8 DEF Relayed, SendCell
  <2>4. Progress' /\ Relayed' /\ ResponseIsFaithful'
    BY <1>0, <1>8, <2>3 DEF Progress, Relayed, ResponseIsFaithful, SendCell
  <2> QED BY <2>1, <2>2, <2>4 DEF IInv
<1>9. ASSUME ServerCloses
       PROVE  IInv'
  <2>1. TypeOK'
    BY <1>0, <1>9 DEF TypeOK, ServerCloses
  <2>2. Routed' /\ Authorized'
    BY <1>0, <1>9 DEF Routed, Authorized, ServerCloses
  <2>3. Progress' /\ Relayed' /\ ResponseIsFaithful'
    BY <1>0, <1>9 DEF Progress, Relayed, ResponseIsFaithful, ServerCloses
  <2> QED BY <2>1, <2>2, <2>3 DEF IInv
<1>10. ASSUME UNCHANGED vars
       PROVE  IInv'
  <2>1. TypeOK'
    BY <1>0, <1>10 DEF TypeOK, vars
  <2>2. Routed' /\ Authorized'
    BY <1>0, <1>10 DEF Routed, Authorized, vars
  <2>3. Progress' /\ Relayed' /\ ResponseIsFaithful'
    BY <1>0, <1>10 DEF Progress, Relayed, ResponseIsFaithful, vars
  <2> QED BY <2>1, <2>2, <2>3 DEF IInv
<1> QED BY <1>3, <1>4, <1>5, <1>6, <1>7, <1>8, <1>9, <1>10 DEF Next, Handler, Server

\* The invariant holds throughout a plain request.
LEMMA Invariance == Spec => []IInv
BY InitInv, StepInv, PTL DEF Spec

-----------------------------------------------------------------------------
\* Every variable of the plain path keeps its type; the client is never given
\* more than the server sent behind its first head.
THEOREM TypeCorrect == Spec => []TypeOK
<1>1. IInv => TypeOK
  BY DEF IInv
<1> QED BY <1>1, Invariance, PTL

\* No plain request reaches a private address unless that is allowed, whichever
\* of the exceptions, the PAC file and the static configuration routed it.
THEOREM PrivateIsUnreachable == Spec => []NoPrivatePeer
<1>1. IInv => NoPrivatePeer
  BY DEF IInv, Routed, NoPrivatePeer, Forbidden
<1> QED BY <1>1, Invariance, PTL

\* The upstream password is written to the upstream proxy only.
THEOREM PasswordStaysWithProxy == Spec => []PasswordOnlyToProxy
<1>1. IInv => PasswordOnlyToProxy
  BY DEF IInv, Authorized, PasswordOnlyToProxy
<1> QED BY <1>1, Invariance, PTL

\* What parse_raw_response makes of any response, however it arrives and wherever
\* it ends: the first head's status, and a prefix of what follows that head, which
\* is all of it when the whole response was sent and closed in order.
THEOREM ResponsesAreFaithful == Spec => []ResponseIsFaithful
<1>1. IInv => ResponseIsFaithful
  BY DEF IInv
<1> QED BY <1>1, Invariance, PTL
=============================================================================
