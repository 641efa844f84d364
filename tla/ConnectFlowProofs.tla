-------------------------- MODULE ConnectFlowProofs --------------------------
(***************************************************************************)
(* Safety of the CONNECT service for every set of configurations, every    *)
(* bound on the handshake and any amount of data: what the responder       *)
(* decides is what the handler, another task, connects to, and an orderly  *)
(* close loses nothing but what was read with the 200 of an upstream proxy.*)
(***************************************************************************)
EXTENDS ConnectFlow, TLAPS

-----------------------------------------------------------------------------
(***************************************************************************)
(* Routes.                                                                 *)
(***************************************************************************)
\* A route the configuration allows for the request, given what the PAC file
\* said: the exceptions come first, then the PAC answer, then the static proxy,
\* and the guard has been passed.
SoundRoute(r, said) ==
  /\ r \in Routes
  /\ ~Forbidden(cfg, target, r)
  /\ ExceptionMatches(target) => r = "direct"
  /\ r = "static" /\ cfg.pac => said = "error"
  /\ r = "pac" => said = "PROXY p"
  /\ r = "direct" => \/ ExceptionMatches(target)
                     \/ said \in PacAnswers \ {"error", "PROXY p", "PROXY"}
                     \/ ~cfg.upstream

\* The static fallback is a proxy only if one is configured.
LEMMA StaticRoutes ==
  ASSUME NEW c
  PROVE  /\ StaticRoute(c) \in {"static", "direct"}
         /\ StaticRoute(c) = "direct" => ~c.upstream
BY DEF StaticRoute

\* What a PAC answer that does not panic is turned into.
LEMMA PacRoutes ==
  ASSUME NEW c, NEW a \in PacAnswers, ~PacPanics(a)
  PROVE  /\ PacRoute(c, a) \in Routes
         /\ PacRoute(c, a) = "static" => a = "error"
         /\ PacRoute(c, a) = "pac" => a = "PROXY p"
         /\ PacRoute(c, a) = "direct" =>
              a \in PacAnswers \ {"error", "PROXY p", "PROXY"} \/ ~c.upstream
<1>1. CASE a = "error"
  <2>1. PacRoute(c, a) = StaticRoute(c)
    BY <1>1 DEF PacRoute
  <2> QED BY <2>1, <1>1, StaticRoutes DEF Routes
<1>2. CASE a = "PROXY p"
  BY <1>2 DEF PacRoute, Routes
<1>3. CASE a # "error" /\ a # "PROXY p"
  <2>1. PacRoute(c, a) = "direct"
    BY <1>3 DEF PacRoute
  <2> QED BY <2>1, <1>3 DEF Routes, PacPanics
<1> QED BY <1>1, <1>2, <1>3

-----------------------------------------------------------------------------
(***************************************************************************)
(* The invariant.                                                          *)
(***************************************************************************)
\* Before the answer nothing is decided; a PAC file is asked only for a request
\* that no exception covers.
Undecided ==
  /\ phase \in {"received", "resolving"} =>
       reply = "none" /\ route = "unset" /\ pacSaid = "nothing" /\ attempts = 0
  /\ phase = "resolving" => cfg.pac /\ ~ExceptionMatches(target)

\* Only a request that was answered 200 has a route, a handshake or a peer.
Decided ==
  /\ reply = "200" => SoundRoute(route, pacSaid)
  /\ reply # "200" => route = "unset" /\ attempts = 0
  /\ reply # "200" => phase \in {"received", "resolving", "done"}

\* The handler goes where the responder decided.
Followed ==
  /\ phase = "dialing" => route = "direct"
  /\ phase = "handshake" => route # "direct"
  /\ peer # "none" => /\ reply = "200"
                      /\ peer = IF route = "direct" THEN "target" ELSE route
                      /\ phase \in {"spliced", "done", "broken"}

\* A direction of the tunnel is shut after all its bytes have been copied.
Shut ==
  /\ upShut => clientEof /\ upIn = 0
  /\ downShut => peerEof /\ downIn = 0

\* The bytes an end sends are waiting, copied or taken with the 200.
Bounded ==
  /\ upIn + upOut <= MaxData
  /\ downIn + downOut + taken <= MaxData

\* Only the handshake takes bytes, and a direct tunnel has none.
Taken == route \in {"direct", "unset"} => taken = 0

IInv ==
  /\ TypeOK
  /\ Undecided
  /\ Decided
  /\ Followed
  /\ Shut
  /\ Bounded
  /\ Taken
  /\ OrderlyCloseDelivers

-----------------------------------------------------------------------------
(***************************************************************************)
(* The steps.                                                              *)
(***************************************************************************)
\* A CONNECT request starts undecided.
LEMMA InitInv == Init => IInv
<1> SUFFICES ASSUME Init
             PROVE  IInv
  OBVIOUS
<1> USE DEF Init, Service!Init
<1>1. TypeOK
  <2>1. 0 \in 0..MaxAttempts /\ 0 \in 0..MaxData
    BY ConstantsAssumption
  <2> QED BY <2>1 DEF TypeOK, Phases
<1>2. Undecided /\ Decided /\ Followed
  BY DEF Undecided, Decided, Followed
<1>3. Shut /\ Bounded /\ Taken /\ OrderlyCloseDelivers
  BY ConstantsAssumption DEF Shut, Bounded, Taken, OrderlyCloseDelivers
<1> QED BY <1>1, <1>2, <1>3 DEF IInv

\* The decision steps: a 200 goes out only with a route the configuration allows.
LEMMA DecisionStep ==
  ASSUME TypeOK, Undecided, Decided, Followed, [Next]_vars
  PROVE  Undecided' /\ Decided' /\ Followed'
<1> USE DEF Undecided, Decided, Followed
<1>1. CASE MissingAuthority
  BY <1>1 DEF MissingAuthority, Finish, request, copied, pending, ends, handshake
<1>2. CASE ResolveWithoutPac
  <2>1. /\ phase = "received" /\ reply = "none" /\ route = "unset" /\ attempts = 0 /\ peer = "none"
        /\ pacSaid' = pacSaid /\ attempts' = attempts /\ peer' = peer
        /\ cfg' = cfg /\ target' = target
    BY <1>2 DEF ResolveWithoutPac, request, handshake
  <2>2. CASE Excepted /\ Respond("direct")
    <3>1. ~Forbidden(cfg, target, "direct") => SoundRoute("direct", pacSaid)
      BY <2>2 DEF Excepted, SoundRoute, Routes
    <3> QED BY <2>1, <2>2, <3>1 DEF Respond, Guarded, Finish, SoundRoute
  <2>3. CASE ~Excepted /\ ~cfg.pac /\ Respond(StaticRoute(cfg))
    <3> DEFINE r == StaticRoute(cfg)
    <3>1. r \in {"static", "direct"} /\ (r = "direct" => ~cfg.upstream)
      BY StaticRoutes
    <3> HIDE DEF r
    <3>2. ~Forbidden(cfg, target, r) => SoundRoute(r, pacSaid)
      BY <2>3, <3>1 DEF Excepted, SoundRoute, Routes
    <3> QED BY <2>1, <2>3, <3>2 DEF Respond, Guarded, Finish, SoundRoute, r
  <2> QED BY <1>2, <2>2, <2>3 DEF ResolveWithoutPac
<1>3. CASE AskPac
  BY <1>3 DEF AskPac, Excepted, request, decision, handshake
<1>4. CASE PacReturns
  <2>1. /\ phase = "resolving" /\ reply = "none" /\ route = "unset" /\ attempts = 0 /\ peer = "none"
        /\ cfg.pac /\ ~ExceptionMatches(target)
        /\ attempts' = attempts /\ peer' = peer /\ cfg' = cfg /\ target' = target
    BY <1>4 DEF PacReturns, request, handshake
  <2>2. PICK a \in PacAnswers :
          /\ pacSaid' = a
          /\ \/ PacPanics(a) /\ Finish("reset") /\ UNCHANGED route
             \/ ~PacPanics(a) /\ Respond(PacRoute(cfg, a))
    BY <1>4 DEF PacReturns
  <2>3. CASE PacPanics(a) /\ Finish("reset") /\ UNCHANGED route
    BY <2>1, <2>3 DEF Finish
  <2>4. CASE ~PacPanics(a) /\ Respond(PacRoute(cfg, a))
    <3> DEFINE r == PacRoute(cfg, a)
    <3>1. /\ r \in Routes
          /\ r = "static" => a = "error"
          /\ r = "pac" => a = "PROXY p"
          /\ r = "direct" => a \in PacAnswers \ {"error", "PROXY p", "PROXY"} \/ ~cfg.upstream
      BY <2>4, PacRoutes
    <3> HIDE DEF r
    <3>2. ~Forbidden(cfg, target, r) => SoundRoute(r, a)
      BY <2>1, <3>1 DEF SoundRoute
    <3> QED BY <2>1, <2>2, <2>4, <3>2 DEF Respond, Guarded, Finish, SoundRoute, r
  <2> QED BY <2>2, <2>3, <2>4
<1>5. CASE ClientLeaves
  BY <1>5 DEF ClientLeaves, Finish, request, handshake
<1>6. CASE StartHandler
  BY <1>6 DEF StartHandler, Handler, request, decision, handshake, SoundRoute
<1>7. CASE DialTarget
  BY <1>7 DEF DialTarget, AfterFailedDial, request, decision, handshake, SoundRoute
<1>8. CASE SendConnect
  BY <1>8 DEF SendConnect, Service!Attempt, request, decision, SoundRoute
<1>9. CASE ProxyGrants \/ ProxyMisleads
  BY <1>9 DEF ProxyGrants, ProxyMisleads, Service!Grant, Service!Mislead, request, decision, SoundRoute
<1>10. CASE Established
  BY <1>10 DEF Established, Service!Establish, request, decision, SoundRoute, Routes
<1>11. CASE HandshakeFails
  BY <1>11 DEF HandshakeFails, Service!GiveUp, request, decision, SoundRoute
<1>12. CASE Copy \/ ClientSends \/ ClientEnds \/ PeerSends \/ PeerEnds \/ TunnelBreaks \/ UNCHANGED vars
  <2>1. /\ UNCHANGED <<request, decision, peer, handshake>>
        /\ \/ UNCHANGED phase
           \/ phase = "spliced" /\ phase' \in {"done", "broken"}
    BY <1>12 DEF Copy, CopyUp, CopyDown, ShutUp, ShutDown, CloseTunnel, ClientSends, ClientEnds,
                 PeerSends, PeerEnds, TunnelBreaks, vars
  <2> QED BY <2>1 DEF request, decision, handshake, SoundRoute
<1> QED BY <1>1, <1>2, <1>3, <1>4, <1>5, <1>6, <1>7, <1>8, <1>9, <1>10, <1>11, <1>12
        DEF Next, Respondent, Upgraded, Environment

\* No step leaves the types, and what an end has sent stays within MaxData.
LEMMA TypeStep ==
  ASSUME TypeOK, Bounded, Decided, Followed, [Next]_vars
  PROVE  TypeOK' /\ Bounded'
<1> USE ConstantsAssumption DEF TypeOK, Bounded
<1>1. CASE Respondent \/ ClientLeaves
  <2>1. /\ UNCHANGED <<request, peer, handshake, copied, pending, ends>>
        /\ phase' \in Phases /\ pacSaid' \in PacAnswers \cup {"nothing"}
    BY <1>1 DEF Respondent, MissingAuthority, ResolveWithoutPac, AskPac, PacReturns, ClientLeaves,
                Respond, Finish, Phases, decision
  <2>2. reply' \in {"none", "200", "400", "403", "reset"}
    BY <1>1 DEF Respondent, MissingAuthority, ResolveWithoutPac, AskPac, PacReturns, ClientLeaves,
                Respond, Finish, decision
  <2>3. route' \in Routes \cup {"unset"}
    <3>1. CASE ResolveWithoutPac
      BY <3>1, StaticRoutes DEF ResolveWithoutPac, Respond, Routes
    <3>2. CASE PacReturns
      <4>1. PICK a \in PacAnswers :
              \/ UNCHANGED route
              \/ ~PacPanics(a) /\ Respond(PacRoute(cfg, a))
        BY <3>2 DEF PacReturns
      <4>2. ~PacPanics(a) => PacRoute(cfg, a) \in Routes
        BY PacRoutes
      <4> QED BY <4>1, <4>2 DEF Respond
    <3>3. CASE MissingAuthority \/ AskPac \/ ClientLeaves
      BY <3>3 DEF MissingAuthority, AskPac, ClientLeaves, decision
    <3> QED BY <1>1, <3>1, <3>2, <3>3 DEF Respondent
  <2> QED BY <2>1, <2>2, <2>3 DEF request, handshake, copied, pending, ends
<1>2. CASE \/ StartHandler \/ DialTarget \/ HandshakeFails \/ Established
           \/ SendConnect \/ ProxyGrants \/ ProxyMisleads
  <2>1. UNCHANGED <<request, decision, copied, ends>> /\ phase' \in Phases
    BY <1>2 DEF StartHandler, DialTarget, HandshakeFails, Established, SendConnect, ProxyGrants,
                ProxyMisleads, Handler, AfterFailedDial, Phases
  <2>2. /\ verdict' \in {"pending", "established", "failed"}
        /\ granted' \in BOOLEAN
        /\ attempts' \in 0..MaxAttempts
        /\ misled' \in BOOLEAN
    <3>1. CASE StartHandler \/ DialTarget
      BY <3>1 DEF StartHandler, DialTarget, handshake
    <3>2. CASE SendConnect
      BY <3>2 DEF SendConnect, Service!Attempt
    <3>3. CASE ProxyGrants \/ ProxyMisleads
      BY <3>3 DEF ProxyGrants, ProxyMisleads, Service!Grant, Service!Mislead
    <3>4. CASE Established \/ HandshakeFails
      BY <3>4 DEF Established, HandshakeFails, Service!Establish, Service!GiveUp
    <3> QED BY <1>2, <3>1, <3>2, <3>3, <3>4
  <2>3. peer' \in {"none", "target", "static", "pac"}
    <3>1. CASE Established
      BY <3>1 DEF Established, Decided, Followed, SoundRoute, Routes
    <3>2. CASE StartHandler \/ DialTarget \/ HandshakeFails \/ SendConnect \/ ProxyGrants \/ ProxyMisleads
      BY <3>2 DEF StartHandler, DialTarget, HandshakeFails, SendConnect, ProxyGrants, ProxyMisleads
    <3> QED BY <1>2, <3>1, <3>2
  <2>4. {upIn', upOut', downIn', downOut', taken'} \subseteq 0..MaxData /\ Bounded'
    <3>1. CASE Established
      <4>1. PICK n \in 0..downIn : downIn' = downIn - n /\ taken' = taken + n
        BY <3>1 DEF Established
      <4>2. downIn' \in Nat /\ taken' \in Nat /\ downIn' + taken' = downIn + taken
        BY <4>1
      <4> QED BY <3>1, <4>2 DEF Established, copied
    <3>2. CASE StartHandler \/ DialTarget \/ HandshakeFails \/ SendConnect \/ ProxyGrants \/ ProxyMisleads
      BY <3>2 DEF StartHandler, DialTarget, HandshakeFails, SendConnect, ProxyGrants, ProxyMisleads,
                  copied, pending
    <3> QED BY <1>2, <3>1, <3>2
  <2> QED BY <2>1, <2>2, <2>3, <2>4 DEF request, decision, copied, ends
<1>3. CASE Copy \/ ClientSends \/ ClientEnds \/ PeerSends \/ PeerEnds \/ TunnelBreaks
  <2>1. UNCHANGED <<request, decision, peer, handshake>> /\ phase' \in Phases
    BY <1>3 DEF Copy, CopyUp, CopyDown, ShutUp, ShutDown, CloseTunnel, ClientSends, ClientEnds,
                PeerSends, PeerEnds, TunnelBreaks, Phases
  <2>2. {clientEof', peerEof', upShut', downShut'} \subseteq BOOLEAN
    BY <1>3 DEF Copy, CopyUp, CopyDown, ShutUp, ShutDown, CloseTunnel, ClientSends, ClientEnds,
                PeerSends, PeerEnds, TunnelBreaks, ends, copied
  <2>3. {upIn', upOut', downIn', downOut', taken'} \subseteq 0..MaxData /\ Bounded'
    BY <1>3 DEF Copy, CopyUp, CopyDown, ShutUp, ShutDown, CloseTunnel, ClientSends, ClientEnds,
                PeerSends, PeerEnds, TunnelBreaks, pending, copied
  <2> QED BY <2>1, <2>2, <2>3 DEF request, decision, handshake
<1>4. CASE UNCHANGED vars
  BY <1>4 DEF vars, request, decision, handshake, copied, pending, ends
<1> QED BY <1>1, <1>2, <1>3, <1>4 DEF Next, Respondent, Upgraded, Environment

\* Bytes that arrive after a direction was shut would be lost; none arrive, for
\* a direction is shut only at an end of stream with nothing left to copy.
LEMMA TunnelStep ==
  ASSUME TypeOK, Undecided, Decided, Followed, Shut, Taken, OrderlyCloseDelivers, [Next]_vars
  PROVE  Shut' /\ Taken' /\ OrderlyCloseDelivers'
<1> USE DEF Shut, Taken, OrderlyCloseDelivers
<1>1. CASE Respondent \/ ClientLeaves
  <2>1. phase \in {"received", "resolving"} /\ UNCHANGED <<peer, copied, pending, ends>>
    BY <1>1 DEF Respondent, MissingAuthority, ResolveWithoutPac, AskPac, PacReturns, ClientLeaves
  <2>2. taken = 0
    BY <2>1 DEF Undecided
  <2> QED BY <2>1, <2>2 DEF Followed, copied, pending, ends
<1>2. CASE StartHandler \/ DialTarget \/ HandshakeFails \/ SendConnect \/ ProxyGrants \/ ProxyMisleads
  <2>1. UNCHANGED <<decision, copied, pending, ends>>
    BY <1>2 DEF StartHandler, DialTarget, HandshakeFails, SendConnect, ProxyGrants, ProxyMisleads
  <2>2. \/ phase' # "done"
        \/ UNCHANGED <<phase, peer>>
        \/ phase \in {"upgraded", "dialing", "handshake"} /\ UNCHANGED peer
    BY <1>2 DEF StartHandler, DialTarget, HandshakeFails, SendConnect, ProxyGrants, ProxyMisleads
  <2> QED BY <2>1, <2>2 DEF Followed, decision, copied, pending, ends
<1>3. CASE Established
  <2>1. /\ phase = "handshake" /\ phase' = "spliced"
        /\ UNCHANGED <<upIn, copied, ends, decision>>
    BY <1>3 DEF Established
  <2>2. ~downShut \/ downIn = 0
    OBVIOUS
  <2>3. downIn = 0 => downIn' = 0
    <3>1. PICK n \in 0..downIn : downIn' = downIn - n
      BY <1>3 DEF Established
    <3>2. downIn \in Nat
      BY DEF TypeOK
    <3>3. downIn' \in Nat /\ downIn' <= downIn
      BY <3>1, <3>2
    <3> QED BY <3>2, <3>3
  <2>4. route \notin {"direct", "unset"}
    BY <2>1 DEF Followed, Decided, SoundRoute, Routes
  <2> QED BY <2>1, <2>2, <2>3, <2>4 DEF copied, ends, decision
<1>4. CASE CloseTunnel
  <2>1. /\ phase = "spliced" /\ upShut /\ downShut
        /\ UNCHANGED <<peer, decision, copied, pending, ends>>
    BY <1>4 DEF CloseTunnel, BothShut
  <2>2. peer = "target" => route = "direct"
    BY DEF Followed, Decided, SoundRoute, Routes
  <2> QED BY <2>1, <2>2 DEF decision, copied, pending, ends
<1>5. CASE CopyUp \/ CopyDown \/ ShutUp \/ ShutDown
  BY <1>5 DEF CopyUp, CopyDown, ShutUp, ShutDown, Drained, decision, pending, ends, TypeOK
<1>6. CASE ClientSends \/ ClientEnds \/ PeerSends \/ PeerEnds
  BY <1>6 DEF ClientSends, ClientEnds, PeerSends, PeerEnds, Connected, decision, copied, pending,
              ends, TypeOK
<1>7. CASE TunnelBreaks \/ UNCHANGED vars
  BY <1>7 DEF TunnelBreaks, vars, decision, copied, pending, ends
<1> QED BY <1>1, <1>2, <1>3, <1>4, <1>5, <1>6, <1>7 DEF Next, Respondent, Upgraded, Copy, Environment

\* The invariant holds of every behaviour.
THEOREM Invariance == Spec => []IInv
<1>1. Init => IInv
  BY InitInv
<1>2. IInv /\ [Next]_vars => IInv'
  BY DecisionStep, TypeStep, TunnelStep DEF IInv
<1> QED BY <1>1, <1>2, PTL DEF Spec

-----------------------------------------------------------------------------
(***************************************************************************)
(* What it gives.                                                          *)
(***************************************************************************)
\* Every variable of the CONNECT service keeps its type.
THEOREM TypeCorrect == Spec => []TypeOK
<1>1. IInv => TypeOK
  BY DEF IInv
<1> QED BY <1>1, Invariance, PTL

\* No tunnel to a private address comes of the responder's decision, whatever
\* the PAC file says and however late the handler connects.
THEOREM PrivateIsUnreachable == Spec => []NoPrivatePeer
<1>1. IInv => NoPrivatePeer
  BY DEF IInv, TypeOK, Decided, Followed, SoundRoute, Forbidden, Routes, NoPrivatePeer
<1> QED BY <1>1, Invariance, PTL

\* The tunnel ends where the exceptions, the PAC file and the static proxy, in
\* that order, say.
THEOREM RoutePriorityHolds == Spec => []RoutePriority
<1>1. IInv => RoutePriority
  <2> SUFFICES ASSUME IInv, peer # "none"
               PROVE  RoutePriority
    BY DEF RoutePriority
  <2>1. SoundRoute(route, pacSaid) /\ peer = IF route = "direct" THEN "target" ELSE route
    BY DEF IInv, Decided, Followed
  <2> QED BY <2>1 DEF SoundRoute, Routes, RoutePriority
<1> QED BY <1>1, Invariance, PTL

\* A request answered 400 or 403 is over: no route, no handshake, no upgrade.
THEOREM RefusalIsFinal == Spec => []RefusedIsNotUpgraded
<1>1. IInv => RefusedIsNotUpgraded
  BY DEF IInv, Undecided, Decided, RefusedIsNotUpgraded
<1> QED BY <1>1, Invariance, PTL

\* A tunnel that ends without an error has delivered what both ends sent,
\* however their bytes and their ends of stream interleave, but for what the
\* handshake with an upstream proxy had already read.
THEOREM OnlyEarlyBytesAreLost == Spec => []OrderlyCloseDelivers
<1>1. IInv => OrderlyCloseDelivers
  BY DEF IInv
<1> QED BY <1>1, Invariance, PTL
=============================================================================
