--------------------------- MODULE PacEngineProofs ---------------------------
(***************************************************************************)
(* Safety of the PAC worker pool for every number of callers and workers   *)
(* and every channel capacity.                                             *)
(***************************************************************************)
EXTENDS PacEngine, SequenceTheorems, FiniteSetTheorems, TLAPS

-----------------------------------------------------------------------------
(***************************************************************************)
(* What the operations on channels and on the list of blocked senders do   *)
(* to the callers they hold.                                               *)
(***************************************************************************)
\* A request added at the end.
LEMMA AppendElements ==
  ASSUME NEW S, NEW s \in Seq(S), NEW e \in S
  PROVE  /\ Append(s, e) \in Seq(S)
         /\ Elements(Append(s, e)) = Elements(s) \cup {e}
         /\ NoRepeats(s) /\ e \notin Elements(s) => NoRepeats(Append(s, e))
<1>1. /\ Append(s, e) \in Seq(S)
      /\ DOMAIN Append(s, e) = 1..(Len(s) + 1)
      /\ DOMAIN s = 1..Len(s)
      /\ Len(s) \in Nat
  BY AppendProperties, LenProperties
<1>2. /\ \A i \in 1..Len(s) : Append(s, e)[i] = s[i]
      /\ Append(s, e)[Len(s) + 1] = e
  BY AppendProperties
<1>3. Elements(Append(s, e)) = Elements(s) \cup {e}
  BY <1>1, <1>2 DEF Elements
<1>4. ASSUME NoRepeats(s), e \notin Elements(s)
      PROVE  NoRepeats(Append(s, e))
  BY <1>1, <1>2, <1>4 DEF Elements, NoRepeats
<1> QED BY <1>1, <1>3, <1>4

\* The first request removed.
LEMMA TailElements ==
  ASSUME NEW S, NEW s \in Seq(S), s # <<>>
  PROVE  /\ Head(s) \in S
         /\ Tail(s) \in Seq(S)
         /\ Head(s) \in Elements(s)
         /\ Elements(s) = Elements(Tail(s)) \cup {Head(s)}
         /\ NoRepeats(s) => NoRepeats(Tail(s)) /\ Head(s) \notin Elements(Tail(s))
<1>1. /\ Head(s) \in S
      /\ Tail(s) \in Seq(S)
      /\ Len(Tail(s)) = Len(s) - 1
      /\ \A i \in 1..Len(Tail(s)) : Tail(s)[i] = s[i + 1]
  BY HeadTailProperties
<1>2. /\ DOMAIN s = 1..Len(s)
      /\ DOMAIN Tail(s) = 1..(Len(s) - 1)
      /\ Len(s) \in Nat \ {0}
      /\ Head(s) = s[1]
  BY <1>1, LenProperties, EmptySeq
<1>3. Elements(s) = Elements(Tail(s)) \cup {s[1]}
  <2>1. ASSUME NEW i \in 1..Len(s), i # 1
        PROVE  i - 1 \in 1..(Len(s) - 1) /\ Tail(s)[i - 1] = s[i]
    <3>1. i - 1 \in 1..(Len(s) - 1) /\ (i - 1) + 1 = i
      BY <1>2, <2>1
    <3>2. Tail(s)[i - 1] = s[(i - 1) + 1]
      BY <1>1, <3>1
    <3> QED BY <3>1, <3>2
  <2>2. Elements(s) \subseteq Elements(Tail(s)) \cup {s[1]}
    <3>1. ASSUME NEW i \in 1..Len(s)
          PROVE  s[i] \in Elements(Tail(s)) \cup {s[1]}
      <4>1. CASE i = 1
        BY <4>1
      <4>2. CASE i # 1
        BY <1>2, <2>1, <4>2 DEF Elements
      <4> QED BY <4>1, <4>2
    <3> QED BY <1>2, <3>1 DEF Elements
  <2>3. Elements(Tail(s)) \cup {s[1]} \subseteq Elements(s)
    BY <1>1, <1>2 DEF Elements
  <2> QED BY <2>2, <2>3
<1>4. ASSUME NoRepeats(s)
      PROVE  NoRepeats(Tail(s)) /\ Head(s) \notin Elements(Tail(s))
  BY <1>1, <1>2, <1>4 DEF NoRepeats, Elements
<1> QED BY <1>1, <1>2, <1>3, <1>4

\* A sender that gives up.
LEMMA LeaveElements ==
  ASSUME NEW S, NEW s \in Seq(S), NEW c \in Elements(s)
  PROVE  /\ Leave(s, c) \in Seq(S)
         /\ Elements(Leave(s, c)) \subseteq Elements(s)
         /\ Elements(s) \subseteq Elements(Leave(s, c)) \cup {c}
         /\ NoRepeats(s) => c \notin Elements(Leave(s, c)) /\ NoRepeats(Leave(s, c))
<1> DEFINE i == CHOOSE j \in DOMAIN s : s[j] = c
           l == SubSeq(s, 1, i - 1)
           r == SubSeq(s, i + 1, Len(s))
<1>1. /\ DOMAIN s = 1..Len(s)
      /\ Len(s) \in Nat
      /\ \A j \in 1..Len(s) : s[j] \in S
  BY LenProperties, ElementOfSeq
<1>2. i \in 1..Len(s) /\ s[i] = c
  BY <1>1 DEF Elements
<1>3. Leave(s, c) = l \o r
  BY DEF Leave
<1> HIDE DEF i
<1>4. /\ l \in Seq(S)
      /\ Len(l) = i - 1
      /\ \A j \in 1..(i - 1) : l[j] = s[j]
  BY <1>1, <1>2, SubSeqProperties
<1>5. /\ r \in Seq(S)
      /\ Len(r) = Len(s) - i
      /\ \A j \in 1..(Len(s) - i) : r[j] = s[j + i]
  <2>1. /\ i + 1 \in Int
        /\ Len(s) \in Int
        /\ \A j \in (i + 1)..Len(s) : s[j] \in S
    BY <1>1, <1>2
  <2>2. /\ r \in Seq(S)
        /\ Len(r) = IF i + 1 <= Len(s) THEN Len(s) - (i + 1) + 1 ELSE 0
        /\ \A j \in 1..(Len(s) - (i + 1) + 1) : r[j] = s[(i + 1) + j - 1]
    BY <2>1, SubSeqProperties
  <2> HIDE DEF r
  <2>3. Len(s) - (i + 1) + 1 = Len(s) - i
    BY <1>1, <1>2
  <2>4. ASSUME NEW j \in 1..(Len(s) - i)
        PROVE  r[j] = s[j + i]
    <3>1. r[j] = s[(i + 1) + j - 1]
      BY <2>2, <2>3
    <3>2. (i + 1) + j - 1 = j + i
      BY <1>1, <1>2
    <3> QED BY <3>1, <3>2
  <2>5. Len(r) = Len(s) - i
    <3>1. i \in Int /\ Len(s) \in Int /\ i <= Len(s)
      BY <1>1, <1>2
    <3>2. Len(r) = IF i + 1 <= Len(s) THEN Len(s) - (i + 1) + 1 ELSE 0
      BY <2>2
    <3> QED BY <3>1, <3>2
  <2> QED BY <2>2, <2>4, <2>5
<1> HIDE DEF l, r
<1>6. /\ l \o r \in Seq(S)
      /\ Len(l \o r) = Len(s) - 1
      /\ \A j \in 1..(Len(s) - 1) : (l \o r)[j] = IF j < i THEN s[j] ELSE s[j + 1]
  <2>1. /\ l \o r \in Seq(S)
        /\ Len(l \o r) = Len(l) + Len(r)
        /\ \A j \in 1..(Len(l) + Len(r)) :
             (l \o r)[j] = IF j <= Len(l) THEN l[j] ELSE r[j - Len(l)]
    BY <1>4, <1>5, ConcatProperties
  <2>2. Len(l) + Len(r) = Len(s) - 1
    BY <1>1, <1>2, <1>4, <1>5
  <2>3. ASSUME NEW j \in 1..(Len(s) - 1)
        PROVE  (l \o r)[j] = IF j < i THEN s[j] ELSE s[j + 1]
    <3>1. CASE j < i
      BY <1>1, <1>2, <1>4, <2>1, <2>2, <3>1
    <3>2. CASE ~(j < i)
      <4>1. j - Len(l) \in 1..(Len(s) - i) /\ (j - Len(l)) + i = j + 1
        BY <1>1, <1>2, <1>4, <3>2
      <4>2. (l \o r)[j] = r[j - Len(l)]
        BY <1>1, <1>2, <1>4, <2>1, <2>2, <3>2
      <4>3. r[j - Len(l)] = s[(j - Len(l)) + i]
        BY <1>5, <4>1
      <4> QED BY <3>2, <4>1, <4>2, <4>3
    <3> QED BY <3>1, <3>2
  <2> QED BY <2>1, <2>2, <2>3
<1>7. DOMAIN (l \o r) = 1..(Len(s) - 1)
  BY <1>6, LenProperties
<1>8. ASSUME NEW j \in 1..(Len(s) - 1)
      PROVE  \E k \in 1..Len(s) : k # i /\ (l \o r)[j] = s[k] /\ k = IF j < i THEN j ELSE j + 1
  BY <1>1, <1>2, <1>6
<1> DEFINE t == l \o r
<1>9. /\ DOMAIN t = 1..(Len(s) - 1)
       /\ \A j \in 1..(Len(s) - 1) :
            /\ \E k \in 1..Len(s) : k # i /\ t[j] = s[k] /\ k = IF j < i THEN j ELSE j + 1
            /\ t[j] = IF j < i THEN s[j] ELSE s[j + 1]
  BY <1>6, <1>7, <1>8
<1> HIDE DEF t
<1>10. Elements(t) \subseteq Elements(s)
  <2>1. \A j \in DOMAIN t : \E k \in DOMAIN s : t[j] = s[k]
    BY <1>1, <1>9
  <2> QED BY <2>1 DEF Elements
<1>11. ASSUME NoRepeats(s)
       PROVE  c \notin Elements(t) /\ NoRepeats(t)
  <2>1. \A k, m \in 1..Len(s) : s[k] = s[m] => k = m
    BY <1>1, <1>11 DEF NoRepeats
  <2>2. ASSUME NEW j \in DOMAIN t
        PROVE  t[j] # c
    <3>1. PICK k \in 1..Len(s) : k # i /\ t[j] = s[k]
      BY <1>9
    <3> QED BY <1>2, <2>1, <3>1
  <2>3. ASSUME NEW j \in DOMAIN t, NEW n \in DOMAIN t, t[j] = t[n]
        PROVE  j = n
    <3>1. PICK k \in 1..Len(s) : t[j] = s[k] /\ k = IF j < i THEN j ELSE j + 1
      BY <1>9
    <3>2. PICK m \in 1..Len(s) : t[n] = s[m] /\ m = IF n < i THEN n ELSE n + 1
      BY <1>9
    <3>3. k = m
      BY <2>1, <2>3, <3>1, <3>2
    <3> QED BY <1>1, <1>2, <1>9, <3>1, <3>2, <3>3
  <2> QED BY <2>2, <2>3 DEF Elements, NoRepeats
<1>12. Elements(s) \subseteq Elements(t) \cup {c}
  <2>1. ASSUME NEW k \in DOMAIN s, s[k] # c
        PROVE  s[k] \in Elements(t)
    <3>1. CASE k < i
      <4>1. k \in 1..(Len(s) - 1) /\ t[k] = s[k]
        BY <1>1, <1>2, <1>9, <3>1
      <4> QED BY <1>9, <4>1 DEF Elements
    <3>2. CASE ~(k < i)
      <4>1. k # i /\ k \in Int /\ i \in Int
        BY <1>1, <1>2, <2>1
      <4>2. k - 1 \in 1..(Len(s) - 1) /\ ~(k - 1 < i) /\ (k - 1) + 1 = k
        BY <1>1, <1>2, <3>2, <4>1
      <4>3. t[k - 1] = s[k]
        BY <1>9, <4>2
      <4> QED BY <1>9, <4>2, <4>3 DEF Elements
    <3> QED BY <3>1, <3>2
  <2> QED BY <2>1 DEF Elements
<1> QED BY <1>3, <1>6, <1>10, <1>11, <1>12 DEF t

-----------------------------------------------------------------------------
(***************************************************************************)
(* Types.                                                                  *)
(***************************************************************************)
\* The worker fetch_add selects is one of the pool, whatever the counter holds.
LEMMA WorkersType == /\ Workers \subseteq Int
                     /\ 0 \in Workers
                     /\ \A n \in Nat : n % NumWorkers \in Workers
<1>1. NumWorkers \in Nat \ {0}
  BY ConstantsAssumption
<1>2. ASSUME NEW n \in Nat
      PROVE  n % NumWorkers \in 0..(NumWorkers - 1)
  BY <1>1
<1> QED BY <1>1, <1>2 DEF Workers

\* PacEngine::new leaves well-typed state.
LEMMA TypeInit == Init => TypeOK
<1>1. <<>> \in Seq(Callers)
  BY EmptySeq
<1> QED BY <1>1, ConstantsAssumption, WorkersType DEF Init, TypeOK, PCs

\* Every step of find_proxy and of a worker keeps the types.
LEMMA TypeStep == TypeOK /\ [Next]_vars => TypeOK'
<1> SUFFICES ASSUME TypeOK, [Next]_vars
             PROVE  TypeOK'
  OBVIOUS
<1> USE DEF TypeOK
<1>1. ASSUME NEW c \in Callers, PickWorker(c)
      PROVE  TypeOK'
  <2>1. next \in Nat /\ next' \in 0..(CounterMod - 1)
    BY <1>1, ConstantsAssumption DEF PickWorker, FetchAdd
  <2>2. target' \in [Callers -> Workers]
    BY <1>1, <2>1, WorkersType DEF PickWorker
  <2> QED BY <1>1, <2>1, <2>2 DEF PickWorker, PCs
<1>2. ASSUME NEW c \in Callers, Send(c)
      PROVE  TypeOK'
  <2>1. \A w \in Workers : Append(blocked[w], c) \in Seq(Callers)
    BY AppendElements
  <2> QED BY <1>2, <2>1 DEF Send, PCs
<1>3. ASSUME NEW c \in Callers, Receive(c) \/ SendFails(c) \/ AnswerDropped(c)
      PROVE  TypeOK'
  <2>1. /\ pc' = [pc EXCEPT ![c] = "done"]
        /\ UNCHANGED <<next, kind, target, answer, state, script, blocked, queue, current, deadline>>
    BY <1>3 DEF Receive, SendFails, AnswerDropped, Return
  <2>2. PICK r \in Answers \cup Failures : result' = [result EXCEPT ![c] = r]
    <3>1. CASE Receive(c)
      BY <3>1 DEF Receive, Return
    <3>2. CASE SendFails(c) \/ AnswerDropped(c)
      BY <3>2 DEF SendFails, AnswerDropped, Return, Failures
    <3> QED BY <1>3, <3>1, <3>2
  <2>3. pc' \in [Callers -> PCs] /\ result' \in [Callers -> Answers \cup Failures \cup {"pending"}]
    BY <2>1, <2>2 DEF PCs
  <2> QED BY <2>1, <2>3
<1>4. ASSUME NEW c \in Callers, Cancel(c)
      PROVE  TypeOK'
  <2>1. blocked' \in [Workers -> Seq(Callers)]
    <3> SUFFICES ASSUME NEW w \in Workers, c \in Elements(blocked[w])
                 PROVE  Leave(blocked[w], c) \in Seq(Callers)
      BY <1>4 DEF Cancel
    <3> QED BY LeaveElements
  <2> QED BY <1>4, <2>1 DEF Cancel, PCs
<1>5. ASSUME NEW w \in Workers, Admit(w)
      PROVE  TypeOK'
  <2>1. /\ Head(blocked[w]) \in Callers
        /\ Tail(blocked[w]) \in Seq(Callers)
    BY <1>5, TailElements DEF Admit
  <2>2. Append(queue[w], Head(blocked[w])) \in Seq(Callers)
    BY <2>1, AppendElements
  <2> QED BY <1>5, <2>1, <2>2 DEF Admit, PCs
<1>6. ASSUME NEW w \in Workers, StartWorker(w)
      PROVE  TypeOK'
  BY <1>6 DEF StartWorker, callers
<1>7. ASSUME NEW w \in Workers, TakeRequest(w)
      PROVE  TypeOK'
  <2>1. /\ Head(queue[w]) \in Callers
        /\ Tail(queue[w]) \in Seq(Callers)
    BY <1>7, TailElements DEF TakeRequest
  <2> QED BY <1>7, <2>1 DEF TakeRequest, Remaining, Arm, callers
<1>8. ASSUME NEW w \in Workers, DeadlinePasses(w)
      PROVE  TypeOK'
  BY <1>8 DEF DeadlinePasses, callers
<1>9. ASSUME NEW w \in Workers, FinishCall(w)
      PROVE  TypeOK'
  <2>1. Outcomes(w) \subseteq Answers
    BY DEF Outcomes, Answers
  <2> QED BY <1>9, <2>1 DEF FinishCall
<1>10. ASSUME NEW w \in Workers, WorkerDies(w)
       PROVE  TypeOK'
  BY <1>10, EmptySeq DEF WorkerDies, callers
<1>11. CASE UNCHANGED vars
  BY <1>11 DEF vars, callers
<1> QED BY <1>1, <1>2, <1>3, <1>4, <1>5, <1>6, <1>7, <1>8, <1>9, <1>10, <1>11
        DEF Next, CallerStep, WorkerStep

\* Every variable keeps the type its code gives it, in particular the wrapping
\* counter and the channels of requests.
THEOREM TypeCorrect == Spec => []TypeOK
BY TypeInit, TypeStep, PTL DEF Spec

-----------------------------------------------------------------------------
(***************************************************************************)
(* Safety.  The properties of the pool are not inductive: that a request   *)
(* is not lost depends on where the requests of senders, channels and      *)
(* workers may be, and that it is evaluated once on which callers may be   *)
(* there.                                                                  *)
(***************************************************************************)
\* The callers whose request a channel or a worker may hold.  One that has
\* been cancelled leaves its request behind.
Handed == {"waiting", "done", "cancelled"}

\* A future that has not sent has no answer, one that has not picked a worker
\* no result.
Fresh ==
  \A c \in Callers :
    /\ pc[c] = "start" => result[c] = "pending"
    /\ pc[c] \notin Handed => answer[c] = "empty"

\* Where the request of a caller is, by its program counter.
Placement ==
  \A w \in Workers :
    /\ state[w] # "evaluating" => current[w] = None
    /\ state[w] = "dead" => blocked[w] = <<>>
    /\ NoRepeats(blocked[w])
    /\ \A c \in Callers :
         /\ c \in Elements(blocked[w]) => pc[c] = "sending" /\ target[c] = w
         /\ c \in Elements(queue[w]) \cup {current[w]} => pc[c] \in Handed

IInv ==
  /\ TypeOK
  /\ Fresh
  /\ Placement
  /\ OneEvaluation
  /\ NoLostRequest
  /\ OwnAnswer
  /\ FailureMeansDeadWorker

\* The invariant holds throughout: requests are neither lost nor duplicated on
\* their way from send() over the channel to the oneshot answer.
LEMMA Invariance == Spec => []IInv
<1>1. Init => IInv
  <2> SUFFICES ASSUME Init
               PROVE  IInv
    OBVIOUS
  <2>1. TypeOK
    BY TypeInit
  <2>2. Elements(<<>>) = {} /\ NoRepeats(<<>>)
    BY DEF Elements, NoRepeats
  <2>3. Fresh /\ NoLostRequest /\ OwnAnswer /\ FailureMeansDeadWorker
    BY DEF Init, Fresh, Handed, NoLostRequest, OwnAnswer, FailureMeansDeadWorker, Failures
  <2>4. Placement /\ OneEvaluation
    BY <2>2, ConstantsAssumption DEF Init, Placement, OneEvaluation
  <2> QED BY <2>1, <2>3, <2>4 DEF IInv
<1>2. IInv /\ [Next]_vars => IInv'
  <2> SUFFICES ASSUME IInv, [Next]_vars, TypeOK'
               PROVE  IInv'
    BY TypeStep DEF IInv
  <2> USE DEF IInv, Handed
  <2>1. ASSUME NEW c \in Callers, PickWorker(c)
        PROVE  IInv'
    <3>1. /\ pc[c] = "start"
          /\ pc' = [pc EXCEPT ![c] = "picked"]
          /\ \A d \in Callers \ {c} : target'[d] = target[d]
          /\ UNCHANGED <<kind, answer, result, state, blocked, queue, current>>
      BY <2>1 DEF PickWorker, TypeOK
    <3>2. Fresh'
      BY <3>1 DEF Fresh, TypeOK
    <3>3. OwnAnswer'
      BY <3>1 DEF OwnAnswer
    <3>4. FailureMeansDeadWorker'
      BY <3>1 DEF Fresh, FailureMeansDeadWorker, Failures
    <3>5. Placement'
      BY <3>1 DEF Placement, TypeOK
    <3>6. OneEvaluation'
      BY <3>1 DEF OneEvaluation, Placement
    <3>7. NoLostRequest'
      BY <3>1 DEF NoLostRequest, TypeOK
    <3> QED BY <3>2, <3>3, <3>4, <3>5, <3>6, <3>7
  <2>2. ASSUME NEW c \in Callers, Send(c)
        PROVE  IInv'
    <3>1. Fresh' /\ OwnAnswer' /\ FailureMeansDeadWorker'
      <4>1. /\ pc[c] = "picked"
            /\ pc' = [pc EXCEPT ![c] = "sending"]
            /\ UNCHANGED <<kind, target, answer, result, state>>
        BY <2>2 DEF Send
      <4>2. Fresh'
        BY <4>1 DEF Fresh, TypeOK
      <4> QED BY <4>1, <4>2 DEF OwnAnswer, FailureMeansDeadWorker
    <3>2. \A w \in Workers :
            /\ Elements(Append(blocked[w], c)) = Elements(blocked[w]) \cup {c}
            /\ NoRepeats(blocked[w]) /\ c \notin Elements(blocked[w])
                 => NoRepeats(Append(blocked[w], c))
      BY AppendElements DEF TypeOK
    <3>3. Placement'
      BY <2>2, <3>2 DEF Send, Closed, Placement, TypeOK
    <3>4. OneEvaluation' /\ NoLostRequest'
      BY <2>2 DEF Send, OneEvaluation, NoLostRequest, TypeOK
    <3> QED BY <3>1, <3>3, <3>4
  <2>3. ASSUME NEW c \in Callers, Receive(c) \/ SendFails(c) \/ AnswerDropped(c)
        PROVE  IInv'
    <3>1. /\ pc' = [pc EXCEPT ![c] = "done"]
          /\ UNCHANGED <<kind, target, answer, state, blocked, queue, current>>
      BY <2>3 DEF Receive, SendFails, AnswerDropped, Return
    <3>2. PICK r \in Answers \cup Failures :
               /\ result' = [result EXCEPT ![c] = r]
               /\ \/ r = answer[c] /\ pc[c] = "waiting" /\ r \in Answers
                  \/ r \in Failures /\ state[target[c]] = "dead"
      <4>1. CASE Receive(c)
        BY <4>1 DEF Receive, Return, TypeOK
      <4>2. CASE SendFails(c) \/ AnswerDropped(c)
        BY <4>2 DEF SendFails, AnswerDropped, Return, Closed, Failures
      <4> QED BY <2>3, <4>1, <4>2
    <3>3. Fresh'
      BY <3>1, <3>2 DEF Fresh, TypeOK
    <3>4. OwnAnswer'
      <4>1. \A d \in Callers : result'[d] = "value" => "value" \in {answer[d], result[d]}
        BY <3>2 DEF TypeOK, Failures
      <4> QED BY <3>1, <4>1 DEF OwnAnswer
    <3>5. FailureMeansDeadWorker'
      BY <3>1, <3>2 DEF FailureMeansDeadWorker, TypeOK, Answers, Failures
    <3>6. Placement'
      <4>1. ASSUME NEW w \in Workers
            PROVE  c \notin Elements(blocked[w])
        <5>1. Elements(<<>>) = {}
          BY DEF Elements
        <5>2. CASE pc[c] = "waiting"
          BY <5>2 DEF Placement
        <5>3. CASE state[target[c]] = "dead"
          BY <5>1, <5>3 DEF Placement
        <5> QED BY <3>2, <5>2, <5>3
      <4> QED BY <3>1, <4>1 DEF Placement, TypeOK
    <3>7. OneEvaluation' /\ NoLostRequest'
      BY <3>1 DEF OneEvaluation, NoLostRequest, TypeOK
    <3> QED BY <3>3, <3>4, <3>5, <3>6, <3>7
  <2>4. ASSUME NEW c \in Callers, Cancel(c)
        PROVE  IInv'
    <3>1. Fresh' /\ OwnAnswer' /\ FailureMeansDeadWorker'
      <4>1. /\ pc[c] # "start"
            /\ pc' = [pc EXCEPT ![c] = "cancelled"]
            /\ UNCHANGED <<kind, target, answer, result, state>>
        BY <2>4 DEF Cancel
      <4>2. Fresh'
        BY <4>1 DEF Fresh, TypeOK
      <4> QED BY <4>1, <4>2 DEF OwnAnswer, FailureMeansDeadWorker
    <3>2. \A w \in Workers :
            /\ Elements(blocked'[w]) \subseteq Elements(blocked[w]) \ {c}
            /\ NoRepeats(blocked'[w])
            /\ state[w] = "dead" => blocked'[w] = <<>>
      <4>1. Elements(<<>>) = {}
        BY DEF Elements
      <4> QED BY <2>4, <4>1, LeaveElements DEF Cancel, Placement, TypeOK
    <3>3. Placement'
      BY <2>4, <3>2 DEF Cancel, Placement, TypeOK
    <3>4. OneEvaluation' /\ NoLostRequest'
      BY <2>4 DEF Cancel, OneEvaluation, NoLostRequest, TypeOK
    <3> QED BY <3>1, <3>3, <3>4
  <2>5. ASSUME NEW w \in Workers, Admit(w)
        PROVE  IInv'
    <3> DEFINE h == Head(blocked[w])
    <3>1. /\ h \in Callers
          /\ h \in Elements(blocked[w])
          /\ Elements(Tail(blocked[w])) = Elements(blocked[w]) \ {h}
          /\ NoRepeats(Tail(blocked[w]))
      BY <2>5, TailElements DEF Admit, Placement, TypeOK
    <3>2. /\ pc[h] = "sending"
          /\ target[h] = w
          /\ answer[h] = "empty"
          /\ \A v \in Workers : h \notin Elements(queue[v]) /\ h # current[v]
      BY <3>1 DEF Placement, Fresh
    <3>3. /\ Elements(Append(queue[w], h)) = Elements(queue[w]) \cup {h}
          /\ NoRepeats(Append(queue[w], h))
      <4>1. queue[w] \in Seq(Callers) /\ h \in Callers
        BY <3>1 DEF TypeOK
      <4>2. NoRepeats(queue[w]) /\ h \notin Elements(queue[w])
        BY <3>1, <3>2 DEF OneEvaluation
      <4> HIDE DEF h, IInv
      <4> QED BY <4>1, <4>2, AppendElements
    <3>4. /\ blocked' = [blocked EXCEPT ![w] = Tail(blocked[w])]
          /\ queue' = [queue EXCEPT ![w] = Append(queue[w], h)]
          /\ pc' = [pc EXCEPT ![h] = "waiting"]
          /\ UNCHANGED <<target, answer, result, state, current, kind>>
      BY <2>5 DEF Admit
    <3> HIDE DEF h
    <3>5. Fresh' /\ OwnAnswer' /\ FailureMeansDeadWorker'
      <4>1. Fresh'
        BY <3>2, <3>4 DEF Fresh, TypeOK
      <4> QED BY <3>4, <4>1 DEF OwnAnswer, FailureMeansDeadWorker
    <3>7. /\ \A v \in Workers : queue'[v] = IF v = w THEN Append(queue[w], h) ELSE queue[v]
          /\ \A v \in Workers : blocked'[v] = IF v = w THEN Tail(blocked[w]) ELSE blocked[v]
          /\ \A d \in Callers : pc'[d] = IF d = h THEN "waiting" ELSE pc[d]
      BY <3>1, <3>4 DEF TypeOK
    <3>6. Placement'
      <4>1. ASSUME NEW v \in Workers
            PROVE  /\ state[v] = "dead" => blocked'[v] = <<>>
                   /\ NoRepeats(blocked'[v])
        <5>1. CASE v = w
          BY <2>5, <3>1, <3>7, <5>1 DEF Admit
        <5>2. CASE v # w
          BY <3>7, <5>2 DEF Placement
        <5> QED BY <5>1, <5>2
      <4>2. ASSUME NEW v \in Workers, NEW d \in Callers
            PROVE  /\ d \in Elements(blocked'[v]) => pc'[d] = "sending" /\ target[d] = v
                   /\ d \in Elements(queue'[v]) \cup {current[v]} => pc'[d] \in Handed
        <5>1. CASE d = h
          BY <3>1, <3>2, <3>7, <5>1 DEF Placement
        <5>2. CASE d # h
          BY <3>1, <3>3, <3>7, <5>2 DEF Placement
        <5> QED BY <5>1, <5>2
      <4> QED BY <3>4, <4>1, <4>2 DEF Placement
    <3>8. OneEvaluation'
      <4>1. ASSUME NEW v \in Workers, NEW d \in Callers
            PROVE  /\ d \in Elements(queue'[v]) \cup {current[v]} => target[d] = v /\ answer[d] = "empty"
                   /\ d \in Elements(queue'[v]) => current[v] # d
                   /\ NoRepeats(queue'[v])
        <5>1. CASE v = w
          BY <3>2, <3>3, <3>7, <5>1 DEF OneEvaluation
        <5>2. CASE v # w
          BY <3>7, <5>2 DEF OneEvaluation
        <5> QED BY <5>1, <5>2
      <4> QED BY <3>4, <4>1 DEF OneEvaluation
    <3>9. NoLostRequest'
      <4>1. ASSUME NEW d \in Callers, pc'[d] = "waiting"
            PROVE  \/ d \in Elements(queue'[target[d]])
                   \/ current[target[d]] = d
                   \/ answer[d] # "empty"
                   \/ state[target[d]] = "dead"
        <5>1. target[d] \in Workers
          BY DEF TypeOK
        <5>2. CASE d = h
          BY <3>2, <3>3, <3>7, <5>2
        <5>3. CASE d # h
          BY <3>3, <3>7, <4>1, <5>1, <5>3 DEF NoLostRequest
        <5> QED BY <5>2, <5>3
      <4> QED BY <3>4, <4>1 DEF NoLostRequest
    <3> QED BY <3>5, <3>6, <3>8, <3>9
  <2>6. ASSUME NEW w \in Workers, StartWorker(w)
        PROVE  IInv'
    <3>1. /\ \A v \in Workers : state'[v] = IF v = w THEN "idle" ELSE state[v]
          /\ state[w] = "starting"
          /\ UNCHANGED <<pc, target, answer, result, kind, blocked, queue, current>>
      BY <2>6 DEF StartWorker, callers, TypeOK
    <3>2. Fresh' /\ OwnAnswer'
      BY <3>1 DEF Fresh, OwnAnswer
    <3>3. FailureMeansDeadWorker' /\ NoLostRequest'
      BY <3>1 DEF FailureMeansDeadWorker, NoLostRequest, TypeOK
    <3>4. Placement' /\ OneEvaluation'
      BY <3>1 DEF Placement, OneEvaluation
    <3> QED BY <3>2, <3>3, <3>4
  <2>7. ASSUME NEW w \in Workers, TakeRequest(w)
        PROVE  IInv'
    <3> DEFINE h == Head(queue[w])
    <3>1. /\ h \in Callers
          /\ Elements(queue[w]) = Elements(Tail(queue[w])) \cup {h}
          /\ NoRepeats(Tail(queue[w]))
          /\ h \notin Elements(Tail(queue[w]))
      BY <2>7, TailElements DEF TakeRequest, OneEvaluation, TypeOK
    <3>2. /\ state' = [state EXCEPT ![w] = "evaluating"]
          /\ queue' = [queue EXCEPT ![w] = Tail(queue[w])]
          /\ current' = [current EXCEPT ![w] = h]
          /\ current[w] = None
          /\ state[w] = "idle"
          /\ UNCHANGED <<pc, target, answer, result, kind, blocked>>
      BY <2>7 DEF TakeRequest, Remaining, callers, Placement
    <3> HIDE DEF h
    <3>3. Fresh' /\ OwnAnswer' /\ FailureMeansDeadWorker'
      BY <3>2 DEF Fresh, OwnAnswer, FailureMeansDeadWorker, TypeOK
    <3>4. Placement'
      BY <3>1, <3>2 DEF Placement, TypeOK
    <3>5. \A v \in Workers :
            /\ queue'[v] = IF v = w THEN Tail(queue[w]) ELSE queue[v]
            /\ current'[v] = IF v = w THEN h ELSE current[v]
            /\ state'[v] = IF v = w THEN "evaluating" ELSE state[v]
      BY <3>2 DEF TypeOK
    <3>6. OneEvaluation'
      <4>1. ASSUME NEW v \in Workers, NEW d \in Callers
            PROVE  /\ d \in Elements(queue'[v]) \cup {current'[v]} => target[d] = v /\ answer[d] = "empty"
                   /\ d \in Elements(queue'[v]) => current'[v] # d
                   /\ NoRepeats(queue'[v])
        <5>1. CASE v = w
          BY <3>1, <3>5, <5>1 DEF OneEvaluation
        <5>2. CASE v # w
          BY <3>5, <5>2 DEF OneEvaluation
        <5> QED BY <5>1, <5>2
      <4> QED BY <3>2, <4>1 DEF OneEvaluation
    <3>7. NoLostRequest'
      <4>1. ASSUME NEW d \in Callers, pc[d] = "waiting"
            PROVE  \/ d \in Elements(queue'[target[d]])
                   \/ current'[target[d]] = d
                   \/ answer[d] # "empty"
                   \/ state'[target[d]] = "dead"
        <5>1. target[d] \in Workers
          BY DEF TypeOK
        <5>2. \/ d \in Elements(queue[target[d]])
              \/ current[target[d]] = d
              \/ answer[d] # "empty"
              \/ state[target[d]] = "dead"
          BY <4>1 DEF NoLostRequest
        <5>3. CASE target[d] = w
          BY <3>1, <3>2, <3>5, <5>2, <5>3, ConstantsAssumption
        <5>4. CASE target[d] # w
          BY <3>5, <5>1, <5>2, <5>4
        <5> QED BY <5>3, <5>4
      <4> QED BY <3>2, <4>1 DEF NoLostRequest
    <3> QED BY <3>3, <3>4, <3>6, <3>7
  <2>8. ASSUME NEW w \in Workers, DeadlinePasses(w)
        PROVE  IInv'
    BY <2>8 DEF DeadlinePasses, callers, Fresh, Placement, OneEvaluation, NoLostRequest,
                OwnAnswer, FailureMeansDeadWorker
  <2>9. ASSUME NEW w \in Workers, FinishCall(w)
        PROVE  IInv'
    <3>1. PICK o \in Outcomes(w) : answer' = [answer EXCEPT ![current[w]] = o]
      BY <2>9 DEF FinishCall, Addressee
    <3>2. /\ o \in Answers
          /\ o = "value" => kind[current[w]] = "value"
      BY <3>1 DEF Outcomes, Answers
    <3>3. /\ state' = [state EXCEPT ![w] = "idle"]
          /\ current' = [current EXCEPT ![w] = None]
          /\ state[w] = "evaluating"
          /\ UNCHANGED <<pc, target, result, kind, blocked, queue>>
      BY <2>9 DEF FinishCall
    <3>4. Fresh' /\ OwnAnswer' /\ FailureMeansDeadWorker'
      BY <3>1, <3>2, <3>3 DEF Fresh, Placement, OwnAnswer, FailureMeansDeadWorker, TypeOK, Answers
    <3>5. Placement'
      BY <3>1, <3>3, ConstantsAssumption DEF Placement, TypeOK
    <3>6. OneEvaluation' /\ NoLostRequest'
      BY <3>1, <3>2, <3>3, ConstantsAssumption
         DEF OneEvaluation, NoLostRequest, TypeOK, Answers
    <3> QED BY <3>4, <3>5, <3>6
  <2>10. ASSUME NEW w \in Workers, WorkerDies(w)
         PROVE  IInv'
    <3>1. Elements(<<>>) = {} /\ NoRepeats(<<>>)
      BY DEF Elements, NoRepeats
    <3>2. Fresh' /\ OwnAnswer' /\ FailureMeansDeadWorker'
      BY <2>10 DEF WorkerDies, callers, Fresh, OwnAnswer, FailureMeansDeadWorker, TypeOK
    <3>3. Placement'
      BY <2>10, <3>1, ConstantsAssumption DEF WorkerDies, callers, Placement, TypeOK
    <3>4. /\ \A v \in Workers :
               /\ queue'[v] = IF v = w THEN <<>> ELSE queue[v]
               /\ current'[v] = IF v = w THEN None ELSE current[v]
               /\ state'[v] = IF v = w THEN "dead" ELSE state[v]
          /\ UNCHANGED <<pc, target, answer>>
      BY <2>10 DEF WorkerDies, callers, TypeOK
    <3>5. OneEvaluation'
      <4>1. ASSUME NEW v \in Workers, NEW d \in Callers
            PROVE  /\ d \in Elements(queue'[v]) \cup {current'[v]} => target[d] = v /\ answer[d] = "empty"
                   /\ d \in Elements(queue'[v]) => current'[v] # d
                   /\ NoRepeats(queue'[v])
        <5>1. CASE v = w
          BY <3>1, <3>4, <5>1, ConstantsAssumption
        <5>2. CASE v # w
          BY <3>4, <5>2 DEF OneEvaluation
        <5> QED BY <5>1, <5>2
      <4> QED BY <3>4, <4>1 DEF OneEvaluation
    <3>6. NoLostRequest'
      <4>1. ASSUME NEW d \in Callers
            PROVE  target[d] = w \/ (target[d] \in Workers /\ target[d] # w)
        BY DEF TypeOK
      <4> QED BY <3>4, <4>1 DEF NoLostRequest, TypeOK
    <3> QED BY <3>2, <3>3, <3>5, <3>6
  <2>11. CASE UNCHANGED vars
    BY <2>11 DEF vars, callers, Fresh, Placement, OneEvaluation, NoLostRequest, OwnAnswer,
                 FailureMeansDeadWorker
  <2> QED BY <2>1, <2>2, <2>3, <2>4, <2>5, <2>6, <2>7, <2>8, <2>9, <2>10, <2>11
          DEF Next, CallerStep, WorkerStep
<1> QED BY <1>1, <1>2, PTL DEF Spec

\* A find_proxy call gets the outcome of its own script run and no other's,
\* whatever is queued, cancelled or cut off by the deadline.
THEOREM AnswersAreOwn == Spec => []OwnAnswer
<1>1. IInv => OwnAnswer
  BY DEF IInv
<1> QED BY <1>1, Invariance, PTL

\* A find_proxy call that awaits its oneshot is queued, being evaluated or
\* answered, unless its worker is dead.
THEOREM NothingLost == Spec => []NoLostRequest
<1>1. IInv => NoLostRequest
  BY DEF IInv
<1> QED BY <1>1, Invariance, PTL

\* A request is in one place only, once, and never evaluated after its answer.
THEOREM EvaluatedOnce == Spec => []OneEvaluation
<1>1. IInv => OneEvaluation
  BY DEF IInv
<1> QED BY <1>1, Invariance, PTL

\* find_proxy reports a failure of its own only when the worker it picked is dead.
THEOREM FailureIsDeath == Spec => []FailureMeansDeadWorker
<1>1. IInv => FailureMeansDeadWorker
  BY DEF IInv
<1> QED BY <1>1, Invariance, PTL

-----------------------------------------------------------------------------
(***************************************************************************)
(* Round robin.                                                            *)
(***************************************************************************)
\* The quotient and the remainder are the only ones.
LEMMA ModUnique ==
  ASSUME NEW m \in Nat, m > 0, NEW q \in Nat, NEW r \in Nat, r < m
  PROVE  (q * m + r) % m = r
OBVIOUS

LEMMA ModRange ==
  ASSUME NEW a \in Nat, NEW m \in Nat, m > 0
  PROVE  a % m \in Nat /\ a % m < m /\ a \div m \in Nat /\ a = (a \div m) * m + (a % m)
<1>1. a % m \in 0..(m - 1)
  OBVIOUS
<1>2. a = (a \div m) * m + (a % m)
  OBVIOUS
<1>3. a \div m \in Nat
  OBVIOUS
<1> QED BY <1>1, <1>2, <1>3

\* A remainder counts up and wraps.
LEMMA ModStep ==
  ASSUME NEW a \in Nat, NEW m \in Nat, m > 0
  PROVE  (a + 1) % m = IF (a % m) + 1 = m THEN 0 ELSE (a % m) + 1
<1> DEFINE q == a \div m
           r == a % m
<1>1. q \in Nat /\ r \in Nat /\ r < m /\ a = q * m + r
  BY ModRange
<1> HIDE DEF q, r
<1>2. CASE r + 1 = m
  <2>1. a + 1 = (q + 1) * m + 0
    BY <1>1, <1>2
  <2>2. ((q + 1) * m + 0) % m = 0
    BY <1>1, ModUnique
  <2> QED BY <1>2, <2>1, <2>2 DEF r
<1>3. CASE r + 1 # m
  <2>1. a + 1 = q * m + (r + 1) /\ r + 1 < m /\ r + 1 \in Nat
    BY <1>1, <1>3
  <2>2. (q * m + (r + 1)) % m = r + 1
    BY <1>1, <2>1, ModUnique
  <2> QED BY <1>3, <2>1, <2>2 DEF r
<1> QED BY <1>2, <1>3

\* A counter that wraps at a multiple of the number of workers selects as one
\* that does not wrap.
LEMMA ModOfMod ==
  ASSUME NEW a \in Nat, NEW m \in Nat, m > 0, NEW d \in Nat, d > 0, m % d = 0
  PROVE  (a % m) % d = a % d
<1> DEFINE q == a \div m
           r == a % m
           k == m \div d
           e == r \div d
           s == r % d
<1>1. q \in Nat /\ r \in Nat /\ r < m /\ a = q * m + r
  BY ModRange
<1>2. k \in Nat /\ m = k * d
  <2>1. m \div d \in Nat /\ m = (m \div d) * d + (m % d)
    BY ModRange
  <2> QED BY <2>1
<1>3. e \in Nat /\ s \in Nat /\ s < d /\ r = e * d + s
  BY <1>1, ModRange
<1> HIDE DEF q, k, e
<1>4. a = (q * k + e) * d + s
  <2>1. q * m = (q * k) * d
    BY <1>1, <1>2
  <2>2. (q * k + e) * d = (q * k) * d + e * d
    BY <1>1, <1>2, <1>3
  <2> QED BY <1>1, <1>2, <1>3, <2>1, <2>2
<1>5. q * k + e \in Nat
  BY <1>1, <1>2, <1>3
<1> HIDE DEF r
<1> HIDE DEF s
<1>6. a % d = s
  BY <1>3, <1>4, <1>5, ModUnique
<1> QED BY <1>6 DEF s, r

\* The counter wraps at a multiple of the number of workers, as 2^64 does for
\* pools of 1, 2 and 4; or there are not as many calls.
EvenWrap == CounterMod % NumWorkers = 0 \/ Cardinality(Callers) <= CounterMod

\* The calls that have picked a worker: next_worker counts them, and the workers
\* before the one whose turn it is have one more than the others.
Made == {c \in Callers : pc[c] # "start"}
Turn == Cardinality(Made) % NumWorkers
Spread == \E q \in Nat : \A w \in Workers : Load(w) = q + (IF w < Turn THEN 1 ELSE 0)
TurnInv ==
  /\ next = Cardinality(Made) % CounterMod
  /\ Spread

LEMMA PoolSize == /\ NumWorkers \in Nat /\ NumWorkers > 0
                  /\ CounterMod \in Nat /\ CounterMod > 0
                  /\ IsFiniteSet(Callers) /\ Cardinality(Callers) \in Nat
BY ConstantsAssumption, FS_CardinalityType

\* Sets of calls can be counted.
LEMMA Countable ==
  ASSUME NEW S \in SUBSET Callers
  PROVE  /\ IsFiniteSet(S) /\ Cardinality(S) \in Nat
         /\ Cardinality(S) <= Cardinality(Callers)
         /\ \A c \in Callers : c \notin S =>
              /\ Cardinality(S \cup {c}) = Cardinality(S) + 1
              /\ Cardinality(S) < Cardinality(Callers)
<1>1. IsFiniteSet(S) /\ Cardinality(S) <= Cardinality(Callers)
  BY PoolSize, FS_Subset
<1>2. Cardinality(S) \in Nat
  BY <1>1, FS_CardinalityType
<1>3. ASSUME NEW c \in Callers, c \notin S
      PROVE  /\ Cardinality(S \cup {c}) = Cardinality(S) + 1
             /\ Cardinality(S) < Cardinality(Callers)
  <2>1. Cardinality(S \cup {c}) = Cardinality(S) + 1
    BY <1>1, <1>3, FS_AddElement
  <2>2. S \cup {c} \in SUBSET Callers
    OBVIOUS
  <2>3. Cardinality(S \cup {c}) <= Cardinality(Callers)
    BY <2>2, PoolSize, FS_Subset
  <2> QED BY <1>2, <2>1, <2>3, PoolSize
<1> QED BY <1>1, <1>2, <1>3

\* Whose turn it is, is what fetch_add returns, modulo the number of workers.
LEMMA TurnIsNext ==
  ASSUME EvenWrap, TurnInv, NEW c \in Callers, pc[c] = "start"
  PROVE  next % NumWorkers = Turn
<1>1. /\ Cardinality(Made) \in Nat
      /\ Cardinality(Made) < Cardinality(Callers)
  <2>1. Made \in SUBSET Callers /\ c \notin Made
    BY DEF Made
  <2> QED BY <2>1, Countable
<1>2. CASE CounterMod % NumWorkers = 0
  BY <1>1, <1>2, PoolSize, ModOfMod DEF TurnInv, Turn
<1>3. CASE Cardinality(Callers) <= CounterMod
  <2>1. Cardinality(Made) < CounterMod
    BY <1>1, <1>3, PoolSize
  <2>2. Cardinality(Made) % CounterMod = Cardinality(Made)
    BY <1>1, <2>1, PoolSize, ModUnique
  <2> QED BY <2>2 DEF TurnInv, Turn
<1> QED BY <1>2, <1>3 DEF EvenWrap

\* A call that picks a worker adds one to its load, and to no other's.
LEMMA PickLoads ==
  ASSUME TypeOK, NEW c \in Callers, PickWorker(c)
  PROVE  /\ Cardinality(Made) \in Nat /\ Cardinality(Made)' = Cardinality(Made) + 1
         /\ \A w \in Workers :
              /\ Load(w) \in Nat
              /\ Load(w)' = Load(w) + (IF w = next % NumWorkers THEN 1 ELSE 0)
<1> DEFINE At(w) == {d \in Callers : pc[d] # "start" /\ target[d] = w}
<1>1. /\ pc[c] = "start"
      /\ \A d \in Callers : pc'[d] = IF d = c THEN "picked" ELSE pc[d]
      /\ \A d \in Callers : target'[d] = IF d = c THEN next % NumWorkers ELSE target[d]
  BY DEF PickWorker, TypeOK
<1>2. Made' = Made \cup {c} /\ c \notin Made /\ Made \in SUBSET Callers
  BY <1>1 DEF Made
<1>3. /\ Cardinality(Made) \in Nat
      /\ Cardinality(Made)' = Cardinality(Made) + 1
  BY <1>2, Countable
<1>4. ASSUME NEW w \in Workers
      PROVE  /\ Load(w) \in Nat
             /\ Load(w)' = Load(w) + (IF w = next % NumWorkers THEN 1 ELSE 0)
  <2>1. At(w) \in SUBSET Callers /\ c \notin At(w) /\ Load(w) = Cardinality(At(w))
    BY <1>1 DEF Load
  <2>2. At(w)' = IF w = next % NumWorkers THEN At(w) \cup {c} ELSE At(w)
    BY <1>1
  <2>3. Load(w)' = Cardinality(At(w)')
    BY DEF Load
  <2> HIDE DEF At
  <2>4. Cardinality(At(w)) \in Nat /\ Cardinality(At(w) \cup {c}) = Cardinality(At(w)) + 1
    BY <2>1, Countable
  <2> QED BY <2>1, <2>2, <2>3, <2>4
<1> QED BY <1>3, <1>4

LEMMA TurnStep ==
  ASSUME EvenWrap, TypeOK, Placement, TurnInv, [Next]_vars
  PROVE  TurnInv'
<1>1. ASSUME NEW c \in Callers, PickWorker(c)
      PROVE  TurnInv'
  <2> DEFINE k == Cardinality(Made)
  <2>1. k \in Nat /\ k' = k + 1
    BY <1>1, PickLoads
  <2>2. \A w \in Workers :
          /\ Load(w) \in Nat
          /\ Load(w)' = Load(w) + (IF w = next % NumWorkers THEN 1 ELSE 0)
    BY <1>1, PickLoads
  <2>3. next % NumWorkers = Turn
    BY <1>1, TurnIsNext DEF PickWorker
  <2>4. next' = k' % CounterMod
    <3>1. next' = (next + 1) % CounterMod /\ next = k % CounterMod
      BY <1>1 DEF PickWorker, FetchAdd, TurnInv
    <3>2. (k + 1) % CounterMod = IF (k % CounterMod) + 1 = CounterMod THEN 0 ELSE (k % CounterMod) + 1
      BY <2>1, PoolSize, ModStep
    <3>3. k % CounterMod \in Nat /\ k % CounterMod < CounterMod
      BY <2>1, PoolSize, ModRange
    <3> HIDE DEF k
    <3>4. CASE next + 1 = CounterMod
      <4>1. (0 + 1 * CounterMod) % CounterMod = 0
        BY PoolSize, ModUnique
      <4>2. CounterMod % CounterMod = 0
        BY <4>1, PoolSize
      <4>3. next' = 0
        BY <3>1, <3>4, <4>2
      <4>4. (k + 1) % CounterMod = 0
        BY <3>1, <3>2, <3>4
      <4> QED BY <2>1, <4>3, <4>4
    <3>5. CASE next + 1 # CounterMod
      <4>1. next + 1 \in Nat /\ next + 1 < CounterMod
        BY <3>1, <3>3, <3>5, PoolSize
      <4>2. (0 * CounterMod + (next + 1)) % CounterMod = next + 1
        BY <4>1, PoolSize, ModUnique
      <4>3. (next + 1) % CounterMod = next + 1
        BY <4>1, <4>2, PoolSize
      <4>4. next' = next + 1
        BY <3>1, <4>3
      <4>5. (k + 1) % CounterMod = next + 1
        BY <3>1, <3>2, <3>5
      <4>6. k' % CounterMod = (k + 1) % CounterMod
        BY <2>1
      <4> QED BY <4>4, <4>5, <4>6, Zenon
    <3> QED BY <3>4, <3>5
  <2>5. Turn \in Nat /\ Turn < NumWorkers
    BY <2>1, PoolSize, ModRange DEF Turn
  <2>6. Turn' = IF Turn + 1 = NumWorkers THEN 0 ELSE Turn + 1
    <3>1. Turn = k % NumWorkers /\ Turn' = k' % NumWorkers
      BY DEF Turn
    <3>2. (k + 1) % NumWorkers = IF (k % NumWorkers) + 1 = NumWorkers THEN 0
                                 ELSE (k % NumWorkers) + 1
      BY <2>1, PoolSize, ModStep
    <3> HIDE DEF k
    <3>3. k' % NumWorkers = (k + 1) % NumWorkers
      BY <2>1
    <3> QED BY <3>1, <3>2, <3>3, Zenon
  <2>7. Spread'
    <3>1. PICK q \in Nat : \A w \in Workers : Load(w) = q + (IF w < Turn THEN 1 ELSE 0)
      BY DEF TurnInv, Spread
    <3>2. \A w \in Workers : w \in Int /\ w >= 0 /\ w < NumWorkers
      BY PoolSize DEF Workers
    <3>3. \A w \in Workers : Load(w)' = q + (IF w < Turn + 1 THEN 1 ELSE 0)
      BY <2>2, <2>3, <2>5, <3>1, <3>2
    <3>4. CASE Turn + 1 = NumWorkers
      <4>1. \A w \in Workers : Load(w)' = (q + 1) + (IF w < Turn' THEN 1 ELSE 0)
        BY <2>6, <3>2, <3>3, <3>4
      <4> QED BY <3>1, <4>1 DEF Spread
    <3>5. CASE Turn + 1 # NumWorkers
      <4>1. \A w \in Workers : Load(w)' = q + (IF w < Turn' THEN 1 ELSE 0)
        BY <2>6, <3>3, <3>5
      <4> QED BY <3>1, <4>1 DEF Spread
    <3> QED BY <3>4, <3>5
  <2> QED BY <2>4, <2>7 DEF TurnInv
<1>2. ASSUME UNCHANGED <<next, target>>,
             \A c \in Callers : pc'[c] # "start" <=> pc[c] # "start"
      PROVE  TurnInv'
  <2>1. Made' = Made
    BY <1>2 DEF Made
  <2>2. \A w \in Workers : Load(w)' = Load(w)
    BY <1>2 DEF Load
  <2> QED BY <1>2, <2>1, <2>2 DEF TurnInv, Spread, Turn
<1>3. ASSUME NEW c \in Callers, Send(c) \/ Receive(c) \/ SendFails(c) \/ AnswerDropped(c) \/ Cancel(c)
      PROVE  TurnInv'
  <2>1. /\ UNCHANGED <<next, target>>
        /\ pc[c] # "start"
        /\ \E p \in {"sending", "done", "cancelled"} : pc' = [pc EXCEPT ![c] = p]
    BY <1>3 DEF Send, Receive, SendFails, AnswerDropped, Cancel, Return
  <2> QED BY <1>2, <2>1 DEF TypeOK
<1>4. ASSUME NEW w \in Workers, Admit(w)
      PROVE  TurnInv'
  <2>1. Head(blocked[w]) \in Elements(blocked[w])
    BY <1>4, TailElements DEF Admit, TypeOK
  <2> QED BY <1>2, <1>4, <2>1 DEF Admit, Placement, TypeOK
<1>5. ASSUME NEW w \in Workers, StartWorker(w) \/ TakeRequest(w) \/ DeadlinePasses(w) \/ FinishCall(w) \/ WorkerDies(w)
      PROVE  TurnInv'
  <2>1. UNCHANGED <<next, pc, target>>
    BY <1>5 DEF StartWorker, TakeRequest, DeadlinePasses, FinishCall, WorkerDies, callers
  <2> QED BY <1>2, <2>1
<1>6. CASE UNCHANGED vars
  BY <1>2, <1>6 DEF vars, callers
<1> QED BY <1>1, <1>3, <1>4, <1>5, <1>6 DEF Next, CallerStep, WorkerStep

\* Before the first call every load is zero.
LEMMA TurnStarts == Init => TurnInv
<1> SUFFICES ASSUME Init PROVE TurnInv
  OBVIOUS
<1>1. Cardinality({}) = 0
  BY FS_EmptySet
<1>2. Made = {}
  BY DEF Made, Init
<1>3. Cardinality(Made) % CounterMod = 0 /\ Turn = 0
  <2>1. \A m \in Nat : m > 0 => (0 * m + 0) % m = 0
    BY ModUnique
  <2>2. \A m \in Nat : m > 0 => 0 % m = 0
    BY <2>1
  <2> QED BY <1>1, <1>2, <2>2, PoolSize DEF Turn
<1>4. \A w \in Workers : Load(w) = 0 + (IF w < Turn THEN 1 ELSE 0)
  <2>1. \A w \in Workers : ~(w < Turn)
    BY <1>3 DEF Workers
  <2>2. \A w \in Workers : {c \in Callers : pc[c] # "start" /\ target[c] = w} = {}
    BY DEF Init
  <2> QED BY <1>1, <2>1, <2>2 DEF Load
<1> QED BY <1>3, <1>4 DEF TurnInv, Spread, Init

\* Round robin keeps the loads of the workers at most one call apart, whatever
\* the interleaving of fetch_add, as long as the counter wraps evenly.
THEOREM CallsAreSpread == EvenWrap => (Spec => []Balanced)
<1> SUFFICES ASSUME EvenWrap PROVE Spec => []Balanced
  OBVIOUS
<1>1. IInv /\ TurnInv /\ [Next]_vars => TurnInv'
  BY TurnStep DEF IInv
<1>2. TurnInv => Balanced
  <2> SUFFICES ASSUME TurnInv PROVE Balanced
    OBVIOUS
  <2>1. PICK q \in Nat : \A w \in Workers : Load(w) = q + (IF w < Turn THEN 1 ELSE 0)
    BY DEF TurnInv, Spread
  <2>2. \A w \in Workers : Load(w) \in {q, q + 1}
    BY <2>1
  <2> QED BY <2>1, <2>2 DEF Balanced
<1> QED BY <1>1, <1>2, TurnStarts, Invariance, PTL DEF Spec

-----------------------------------------------------------------------------
(***************************************************************************)
(* Nobody is stranded.  EveryCallReturns needs fairness; what it needs of  *)
(* the states is that whoever waits waits for somebody who can move.       *)
(***************************************************************************)
\* A worker thread that is alive and has something to do.
WorkerMoves(w) ==
  \/ state[w] = "starting"
  \/ state[w] = "idle" /\ queue[w] # <<>>
  \/ state[w] = "evaluating" /\ (deadline[w] = "ahead" \/ Outcomes(w) # {})

\* A caller whose worker is alive is next for the channel's free capacity, is
\* answered, or waits for a worker that has something to do.
CanReturn ==
  \A c \in Callers : state[target[c]] # "dead" =>
    /\ pc[c] = "sending" =>
         (HasRoom(target[c]) /\ c \in Elements(blocked[target[c]])) \/ WorkerMoves(target[c])
    /\ pc[c] = "waiting" => answer[c] # "empty" \/ WorkerMoves(target[c])

\* The stages of a request on its way, and a worker's deadline.
Stages ==
  /\ \A w \in Workers :
       /\ Len(queue[w]) <= QueueCap
       /\ state[w] = "evaluating" => current[w] # None /\ deadline[w] # "none"
  /\ \A c \in Callers : pc[c] = "sending" =>
       c \in Elements(blocked[target[c]]) \/ state[target[c]] = "dead"

LEMMA StagesStep == IInv /\ Stages /\ [Next]_vars => Stages'
<1> SUFFICES ASSUME IInv, Stages, [Next]_vars
             PROVE  Stages'
  OBVIOUS
<1>0. TypeOK /\ QueueCap \in Nat \ {0}
  BY ConstantsAssumption DEF IInv
<1> DEFINE Channel(w) == /\ Len(queue[w]) <= QueueCap
                         /\ state[w] = "evaluating" => current[w] # None /\ deadline[w] # "none"
           InLine(c) == pc[c] = "sending" =>
                          c \in Elements(blocked[target[c]]) \/ state[target[c]] = "dead"
<1>1. /\ \A w \in Workers : Channel(w)
      /\ \A c \in Callers : InLine(c)
  BY DEF Stages
<1>2. ASSUME NEW c \in Callers, PickWorker(c)
      PROVE  Stages'
  <2>1. /\ UNCHANGED <<state, blocked, queue, current, deadline>>
        /\ \A d \in Callers : /\ pc'[d] = IF d = c THEN "picked" ELSE pc[d]
                              /\ d # c => target'[d] = target[d]
    BY <1>0, <1>2 DEF PickWorker, TypeOK
  <2> QED BY <1>1, <2>1 DEF Stages
<1>3. ASSUME NEW c \in Callers, Send(c)
      PROVE  Stages'
  <2>1. /\ UNCHANGED <<target, state, queue, current, deadline>>
        /\ \A d \in Callers : pc'[d] = IF d = c THEN "sending" ELSE pc[d]
        /\ \A w \in Workers :
             blocked'[w] = IF w = target[c] THEN Append(blocked[w], c) ELSE blocked[w]
    BY <1>0, <1>3 DEF Send, TypeOK
  <2>2. \A w \in Workers : Elements(Append(blocked[w], c)) = Elements(blocked[w]) \cup {c}
    BY <1>0, AppendElements DEF TypeOK
  <2>3. \A d \in Callers : target[d] \in Workers
    BY <1>0 DEF TypeOK
  <2>4. \A d \in Callers : InLine(d)'
    BY <1>1, <2>1, <2>2, <2>3
  <2> QED BY <1>1, <2>1, <2>4 DEF Stages
<1>4. ASSUME NEW c \in Callers, Receive(c) \/ SendFails(c) \/ AnswerDropped(c)
      PROVE  Stages'
  <2>1. /\ UNCHANGED <<target, state, blocked, queue, current, deadline>>
        /\ \A d \in Callers : pc'[d] = IF d = c THEN "done" ELSE pc[d]
    BY <1>0, <1>4 DEF Receive, SendFails, AnswerDropped, Return, TypeOK
  <2> QED BY <1>1, <2>1 DEF Stages
<1>5. ASSUME NEW c \in Callers, Cancel(c)
      PROVE  Stages'
  <2>1. /\ UNCHANGED <<target, state, queue, current, deadline>>
        /\ \A d \in Callers : pc'[d] = IF d = c THEN "cancelled" ELSE pc[d]
        /\ \A w \in Workers : blocked'[w] = IF c \in Elements(blocked[w]) THEN Leave(blocked[w], c)
                                                                         ELSE blocked[w]
    BY <1>0, <1>5 DEF Cancel, TypeOK
  <2>2. \A w \in Workers : Elements(blocked[w]) \subseteq Elements(blocked'[w]) \cup {c}
    BY <1>0, <2>1, LeaveElements DEF TypeOK
  <2>3. \A d \in Callers : target[d] \in Workers
    BY <1>0 DEF TypeOK
  <2>4. \A d \in Callers : InLine(d)'
    BY <1>1, <2>1, <2>2, <2>3
  <2> QED BY <1>1, <2>1, <2>4 DEF Stages
<1>6. ASSUME NEW w \in Workers, Admit(w)
      PROVE  Stages'
  <2> DEFINE h == Head(blocked[w])
  <2>1. /\ h \in Callers
        /\ Elements(blocked[w]) = Elements(Tail(blocked[w])) \cup {h}
    BY <1>0, <1>6, TailElements DEF Admit, TypeOK
  <2>2. /\ UNCHANGED <<target, state, current, deadline>>
        /\ \A d \in Callers : pc'[d] = IF d = h THEN "waiting" ELSE pc[d]
        /\ \A v \in Workers : /\ blocked'[v] = IF v = w THEN Tail(blocked[v]) ELSE blocked[v]
                              /\ queue'[v] = IF v = w THEN Append(queue[v], h) ELSE queue[v]
        /\ Len(queue[w]) < QueueCap
    BY <1>0, <1>6, <2>1 DEF Admit, HasRoom, TypeOK
  <2> HIDE DEF h
  <2>3. Len(Append(queue[w], h)) = Len(queue[w]) + 1 /\ Len(queue[w]) \in Nat
    BY <1>0, <2>1, AppendProperties, LenProperties DEF TypeOK
  <2>4. \A v \in Workers : Channel(v)'
    <3>1. Len(queue'[w]) <= QueueCap
      <4>1. queue'[w] = Append(queue[w], h)
        BY <2>2
      <4> QED BY <1>0, <2>2, <2>3, <4>1
    <3>2. \A v \in Workers : Len(queue'[v]) <= QueueCap
      BY <1>1, <2>2, <3>1
    <3> QED BY <1>1, <2>2, <3>2
  <2>5. \A d \in Callers : target[d] \in Workers
    BY <1>0 DEF TypeOK
  <2>6. \A d \in Callers : InLine(d)'
    BY <1>1, <2>1, <2>2, <2>5
  <2> QED BY <2>4, <2>6 DEF Stages
<1>7. ASSUME NEW w \in Workers, StartWorker(w) \/ FinishCall(w) \/ DeadlinePasses(w)
      PROVE  Stages'
  <2>1. /\ UNCHANGED <<pc, target, blocked, queue>>
        /\ \A v \in Workers \ {w} : state'[v] = state[v] /\ current'[v] = current[v]
                                                       /\ deadline'[v] = deadline[v]
        /\ \/ state'[w] # "evaluating"
           \/ state'[w] = state[w] /\ current'[w] = current[w] /\ deadline'[w] = "passed"
        /\ \A v \in Workers : state[v] = "dead" => state'[v] = "dead"
    <3>1. CASE StartWorker(w)
      BY <1>0, <3>1 DEF StartWorker, callers, TypeOK
    <3>2. CASE FinishCall(w)
      BY <1>0, <3>2 DEF FinishCall, TypeOK
    <3>3. CASE DeadlinePasses(w)
      BY <1>0, <3>3 DEF DeadlinePasses, callers, TypeOK
    <3> QED BY <1>7, <3>1, <3>2, <3>3
  <2>2. \A v \in Workers : Channel(v)'
    BY <1>1, <2>1
  <2>3. \A d \in Callers : target[d] \in Workers
    BY <1>0 DEF TypeOK
  <2>4. \A d \in Callers : InLine(d)'
    BY <1>1, <2>1, <2>3
  <2> QED BY <2>2, <2>4 DEF Stages
<1>8. ASSUME NEW w \in Workers, TakeRequest(w)
      PROVE  Stages'
  <2>1. Head(queue[w]) \in Callers
    BY <1>0, <1>8, TailElements DEF TakeRequest, TypeOK
  <2>2. Len(Tail(queue[w])) <= Len(queue[w]) /\ Len(Tail(queue[w])) \in Nat /\ Len(queue[w]) \in Nat
    BY <1>0, <1>8, HeadTailProperties, LenProperties DEF TakeRequest, TypeOK
  <2>3. /\ UNCHANGED <<pc, target, blocked>>
        /\ \A v \in Workers \ {w} : UNCHANGED <<state[v], queue[v], current[v], deadline[v]>>
        /\ state'[w] = "evaluating" /\ state[w] = "idle"
        /\ queue'[w] = Tail(queue[w])
        /\ current'[w] = Head(queue[w])
        /\ deadline'[w] = "ahead"
    BY <1>0, <1>8 DEF TakeRequest, Remaining, Arm, callers, TypeOK
  <2>4. \A v \in Workers : Channel(v)'
    <3>1. Len(queue'[w]) <= QueueCap
      <4>1. Len(queue[w]) <= QueueCap /\ queue'[w] = Tail(queue[w])
        BY <1>1, <2>3
      <4> QED BY <1>0, <2>2, <4>1
    <3>2. current'[w] # None /\ deadline'[w] # "none"
      BY <2>1, <2>3, ConstantsAssumption
    <3> QED BY <1>1, <2>3, <3>1, <3>2
  <2>5. \A d \in Callers : target[d] \in Workers
    BY <1>0 DEF TypeOK
  <2>6. \A d \in Callers : InLine(d)'
    BY <1>1, <2>3, <2>5
  <2> QED BY <2>4, <2>6 DEF Stages
<1>9. ASSUME NEW w \in Workers, WorkerDies(w)
      PROVE  Stages'
  <2>1. /\ UNCHANGED <<pc, target>>
        /\ \A v \in Workers \ {w} : UNCHANGED <<state[v], blocked[v], queue[v], current[v], deadline[v]>>
        /\ state'[w] = "dead" /\ queue'[w] = <<>>
    BY <1>0, <1>9 DEF WorkerDies, callers, TypeOK
  <2>2. Len(<<>>) = 0
    BY EmptySeq
  <2>3. \A v \in Workers : Channel(v)'
    BY <1>0, <1>1, <2>1, <2>2
  <2>4. \A d \in Callers : target[d] \in Workers
    BY <1>0 DEF TypeOK
  <2>5. \A d \in Callers : InLine(d)'
    BY <1>1, <2>1, <2>4
  <2> QED BY <2>3, <2>5 DEF Stages
<1>10. CASE UNCHANGED vars
  BY <1>10 DEF vars, callers, Stages
<1> QED BY <1>2, <1>3, <1>4, <1>5, <1>6, <1>7, <1>8, <1>9, <1>10
        DEF Next, CallerStep, WorkerStep

LEMMA StagesStart == Init => Stages
<1>1. Len(<<>>) = 0 /\ QueueCap \in Nat
  BY EmptySeq, ConstantsAssumption
<1> QED BY <1>1 DEF Init, Stages

\* Nobody waits for a worker that waits for nobody: a full channel is being
\* drained, a script that never ends has a deadline, and a request that is not
\* answered is where its worker finds it.
THEOREM NobodyIsStranded == Spec => []CanReturn
<1>1. Init => Stages
  BY StagesStart
<1>2. IInv /\ Stages => CanReturn
  <2> SUFFICES ASSUME IInv, Stages, NEW c \in Callers, state[target[c]] # "dead"
               PROVE  /\ pc[c] = "sending" =>
                           \/ HasRoom(target[c]) /\ c \in Elements(blocked[target[c]])
                           \/ WorkerMoves(target[c])
                      /\ pc[c] = "waiting" => answer[c] # "empty" \/ WorkerMoves(target[c])
    BY DEF CanReturn
  <2> DEFINE w == target[c]
  <2>1. /\ w \in Workers
        /\ state[w] \in {"starting", "idle", "evaluating"}
        /\ deadline[w] \in {"none", "ahead", "passed"}
        /\ Len(queue[w]) \in Nat /\ QueueCap \in Nat \ {0}
    BY LenProperties, ConstantsAssumption DEF IInv, TypeOK
  <2> HIDE DEF w
  <2>2. state[w] = "evaluating" => WorkerMoves(w)
    <3>1. state[w] = "evaluating" => deadline[w] \in {"ahead", "passed"}
      BY <2>1 DEF Stages
    <3>2. deadline[w] = "passed" => Outcomes(w) # {}
      BY DEF Outcomes
    <3> QED BY <3>1, <3>2 DEF WorkerMoves
  <2>3. queue[w] # <<>> => WorkerMoves(w)
    BY <2>1, <2>2 DEF WorkerMoves
  <2>4. pc[c] = "sending" => (HasRoom(w) /\ c \in Elements(blocked[w])) \/ WorkerMoves(w)
    <3> SUFFICES ASSUME pc[c] = "sending", ~HasRoom(w)
                 PROVE  WorkerMoves(w)
      BY DEF Stages, w
    <3>1. Len(queue[w]) # 0
      BY <2>1 DEF HasRoom
    <3>2. queue[w] # <<>>
      BY <3>1, EmptySeq
    <3> QED BY <2>3, <3>2
  <2>5. pc[c] = "waiting" => answer[c] # "empty" \/ WorkerMoves(w)
    <3> SUFFICES ASSUME pc[c] = "waiting", answer[c] = "empty"
                 PROVE  WorkerMoves(w)
      OBVIOUS
    <3>1. c \in Elements(queue[w]) \/ current[w] = c
      BY DEF IInv, NoLostRequest, w
    <3>2. CASE c \in Elements(queue[w])
      <4>1. queue[w] # <<>>
        BY <3>2 DEF Elements
      <4> QED BY <2>3, <4>1
    <3>3. CASE current[w] = c
      <4>1. current[w] # None
        BY <3>3, ConstantsAssumption
      <4>2. state[w] = "evaluating"
        BY <2>1, <4>1 DEF IInv, Placement
      <4> QED BY <2>2, <4>2
    <3> QED BY <3>1, <3>2, <3>3
  <2> QED BY <2>4, <2>5 DEF w
<1> QED BY <1>1, <1>2, StagesStep, Invariance, PTL DEF Spec

-----------------------------------------------------------------------------
(***************************************************************************)
(* The pool as one line for each worker.                                   *)
(***************************************************************************)
\* A sequence is its first element and the rest.
LEMMA FirstAndRest ==
  ASSUME NEW S, NEW s \in Seq(S), s # <<>>
  PROVE  s = <<Head(s)>> \o Tail(s) /\ Head(s) \in S /\ Tail(s) \in Seq(S)
<1>1. Len(s) \in Nat \ {0} /\ Head(s) = s[1]
  BY EmptySeq
<1>2. 1 \in 1..Len(s) /\ Len(s) \in 1..Len(s) /\ 1 + 1 = 2
  BY <1>1
<1>3. SubSeq(s, 1, Len(s)) = <<s[1]>> \o SubSeq(s, 1 + 1, Len(s))
  BY <1>2, SubSeqRecursiveFirst
<1>4. SubSeq(s, 1, Len(s)) = s /\ Tail(s) = SubSeq(s, 2, Len(s))
  BY SubSeqFull, TailIsSubSeq
<1> QED BY <1>1, <1>2, <1>3, <1>4, HeadTailProperties

\* Who joins those waiting for capacity is last in the line.
LEMMA LastInLine ==
  ASSUME NEW S, NEW s \in Seq(S), NEW t \in Seq(S), NEW e \in S
  PROVE  s \o Append(t, e) = Append(s \o t, e)
<1>1. <<e>> \in Seq(S) /\ s \o t \in Seq(S)
  BY ConcatProperties
<1>2. Append(t, e) = t \o <<e>> /\ Append(s \o t, e) = (s \o t) \o <<e>>
  BY <1>1, AppendIsConcat
<1> QED BY <1>1, <1>2, ConcatAssociative

\* The request under evaluation is the first in the line.
LEMMA FirstInLine ==
  ASSUME NEW S, NEW s \in Seq(S), NEW t \in Seq(S), NEW e \in S
  PROVE  /\ (<<e>> \o s) \o t # <<>>
         /\ Head((<<e>> \o s) \o t) = e
         /\ Tail((<<e>> \o s) \o t) = s \o t
<1>1. /\ <<e>> \in Seq(S) /\ s \o t \in Seq(S)
      /\ Len(<<e>>) = 1 /\ <<e>>[1] = e
  BY ConcatProperties
<1>2. (<<e>> \o s) \o t = <<e>> \o (s \o t)
  BY <1>1, ConcatAssociative
<1> DEFINE r == s \o t
           l == <<e>> \o r
<1>3. /\ l \in Seq(S) /\ Len(l) = 1 + Len(r) /\ Len(r) \in Nat
      /\ \A i \in 1..(1 + Len(r)) : l[i] = IF i <= 1 THEN e ELSE r[i - 1]
  BY <1>1, ConcatProperties, LenProperties
<1>4. r \in Seq(S)
  BY <1>1
<1> HIDE DEF l, r
<1>5. l # <<>> /\ Head(l) = e
  BY <1>3
<1>6. Tail(l) = r
  <2>1. /\ Tail(l) \in Seq(S) /\ Len(Tail(l)) = Len(l) - 1
        /\ \A i \in 1..Len(Tail(l)) : Tail(l)[i] = l[i + 1]
    BY <1>3, <1>5, HeadTailProperties
  <2>2. Len(Tail(l)) = Len(r)
    BY <1>3, <2>1
  <2>3. ASSUME NEW i \in 1..Len(r)
        PROVE  Tail(l)[i] = r[i]
    <3>1. i + 1 \in 1..(1 + Len(r)) /\ ~(i + 1 <= 1) /\ (i + 1) - 1 = i
      BY <1>3
    <3> QED BY <1>3, <2>1, <2>2, <3>1
  <2> QED BY <1>4, <2>1, <2>2, <2>3, SeqEqual
<1> QED BY <1>2, <1>5, <1>6 DEF l, r

\* A sender that gives up leaves the line from its place in it.
LEMMA LeaveLine ==
  ASSUME NEW S, NEW s \in Seq(S), NEW t \in Seq(S), NEW c \in Elements(t)
  PROVE  \E i \in DOMAIN (s \o t) :
           /\ (s \o t)[i] = c
           /\ s \o Leave(t, c) = SubSeq(s \o t, 1, i - 1) \o SubSeq(s \o t, i + 1, Len(s \o t))
<1> DEFINE k == CHOOSE j \in DOMAIN t : t[j] = c
           l == SubSeq(t, 1, k - 1)
           r == SubSeq(t, k + 1, Len(t))
           u == s \o t
           n == Len(s)
           m == Len(t)
<1>1. /\ DOMAIN t = 1..m
      /\ n \in Nat /\ m \in Nat
      /\ \A j \in 1..m : t[j] \in S
  BY LenProperties, ElementOfSeq
<1>2. k \in 1..m /\ t[k] = c
  BY <1>1 DEF Elements
<1>3. Leave(t, c) = l \o r
  BY DEF Leave
<1>4. /\ u \in Seq(S) /\ Len(u) = n + m /\ DOMAIN u = 1..(n + m)
      /\ \A j \in 1..(n + m) : u[j] = IF j <= n THEN s[j] ELSE t[j - n]
  BY ConcatProperties, LenProperties
<1> HIDE DEF k, u, n, m
<1>5. /\ l \in Seq(S) /\ Len(l) = k - 1
      /\ \A j \in 1..(k - 1) : l[j] = t[j]
  BY <1>1, <1>2, SubSeqProperties
<1>6. /\ k - 1 \in Int /\ k + 1 \in Int /\ m \in Int /\ (n + k) - 1 \in Int /\ n + k + 1 \in Int
      /\ n + k \in 1..(n + m) /\ n + m \in Int
  BY <1>1, <1>2
<1>7. \A j \in 1..(n + m) : u[j] \in S
  BY <1>4, ElementOfSeq
<1>8. SubSeq(u, 1, (n + k) - 1) = s \o l
  <2> DEFINE a == SubSeq(u, 1, (n + k) - 1)
             b == s \o l
  <2>1. /\ a \in Seq(S) /\ Len(a) = (n + k) - 1
        /\ \A j \in 1..((n + k) - 1) : a[j] = u[j]
    BY <1>1, <1>2, <1>6, <1>7, SubSeqProperties
  <2>2. /\ b \in Seq(S) /\ Len(b) = n + (k - 1)
        /\ \A j \in 1..(n + (k - 1)) : b[j] = IF j <= n THEN s[j] ELSE l[j - n]
    BY <1>5, ConcatProperties DEF n
  <2> HIDE DEF a, b
  <2>3. ASSUME NEW j \in 1..((n + k) - 1)
        PROVE  a[j] = b[j]
    <3>1. j \in 1..(n + m) /\ j \in 1..(n + (k - 1))
      BY <1>1, <1>2
    <3>2. CASE j <= n
      BY <1>4, <2>1, <2>2, <3>1, <3>2
    <3>3. CASE ~(j <= n)
      <4>1. j - n \in 1..(k - 1)
        BY <1>1, <1>2, <3>3
      <4> QED BY <1>4, <1>5, <2>1, <2>2, <3>1, <3>3, <4>1
    <3> QED BY <3>2, <3>3
  <2>4. Len(a) = Len(b)
    BY <1>1, <1>2, <2>1, <2>2
  <2> QED BY <2>1, <2>2, <2>3, <2>4, SeqEqual DEF a, b
<1>9. SubSeq(u, n + k + 1, n + m) = r
  <2>1. CASE k = m
    <3>1. n + m < n + k + 1 /\ m < k + 1
      BY <1>1, <1>2, <2>1
    <3>2. SubSeq(u, n + k + 1, n + m) = <<>>
      BY <1>6, <3>1, SubSeqEmpty
    <3>3. SubSeq(t, k + 1, m) = <<>>
      BY <1>6, <3>1, SubSeqEmpty
    <3> QED BY <3>2, <3>3 DEF m
  <2>2. CASE k # m
    <3> DEFINE p == n + k + 1
               q == n + m
    <3>1. /\ p \in (n + 1)..(n + m) /\ q \in (n + 1)..(n + m)
          /\ p - n = k + 1 /\ q - n = m
      BY <1>1, <1>2, <2>2
    <3> HIDE DEF p, q
    <3>2. SubSeq(s \o t, p, q) = SubSeq(t, p - n, q - n)
      BY <3>1, SubSeqOfConcat2 DEF n, m
    <3> QED BY <3>1, <3>2 DEF u, m, p, q
  <2> QED BY <2>1, <2>2
<1>10. r \in Seq(S)
  <2>1. \A j \in (k + 1)..m : t[j] \in S
    BY <1>1, <1>2
  <2> QED BY <1>6, <2>1, SubSeqProperties DEF m
<1>11. u[n + k] = c
  <2>1. ~(n + k <= n) /\ (n + k) - n = k
    BY <1>1, <1>2
  <2> QED BY <1>2, <1>4, <1>6, <2>1
<1> HIDE DEF l, r
<1>12. (s \o l) \o r = s \o (l \o r)
  <2>1. s \in Seq(S) /\ l \in Seq(S) /\ r \in Seq(S)
    BY <1>5, <1>10
  <2> HIDE <1>1, <1>2, <1>3, <1>4, <1>5, <1>6, <1>8, <1>9, <1>10, <1>11
  <2> QED BY <2>1, ConcatAssociative
<1>13. s \o Leave(t, c) = SubSeq(u, 1, (n + k) - 1) \o SubSeq(u, n + k + 1, Len(u))
  BY <1>3, <1>4, <1>8, <1>9, <1>12
<1>14. n + k \in DOMAIN u
  BY <1>4, <1>6
<1> QED BY <1>11, <1>13, <1>14 DEF u

\* A call is told nothing before find_proxy returns.
Untold == \A c \in Callers : pc[c] # "done" => result[c] = "pending"

LEMMA UntoldStep == IInv /\ Untold /\ [Next]_vars => Untold'
<1> SUFFICES ASSUME IInv, TypeOK, Untold, [Next]_vars
             PROVE  Untold'
  BY DEF IInv
<1>1. CASE UNCHANGED <<pc, result>>
  BY <1>1 DEF Untold
<1>2. ASSUME NEW c \in Callers, result' = result,
             pc[c] # "done", \E p \in PCs : pc' = [pc EXCEPT ![c] = p]
      PROVE  Untold'
  BY <1>2 DEF Untold, TypeOK
<1>3. ASSUME NEW c \in Callers, \E r : Return(c, r)
      PROVE  Untold'
  BY <1>3 DEF Untold, Return, TypeOK
<1>4. ASSUME NEW w \in Workers, Admit(w)
      PROVE  Untold'
  <2>1. blocked[w] \in Seq(Callers) /\ blocked[w] # <<>>
    BY <1>4 DEF Admit, TypeOK
  <2>2. Head(blocked[w]) \in Callers /\ Head(blocked[w]) \in Elements(blocked[w])
    BY <2>1, TailElements
  <2>3. pc[Head(blocked[w])] = "sending"
    BY <2>2 DEF IInv, Placement
  <2> QED BY <1>4, <2>2, <2>3 DEF Admit, Untold, TypeOK
<1> QED BY <1>1, <1>2, <1>3, <1>4
        DEF Next, CallerStep, WorkerStep, PickWorker, Send, Receive, SendFails, AnswerDropped, Cancel,
            StartWorker, TakeRequest, DeadlinePasses, FinishCall, WorkerDies, PCs, callers, vars

-----------------------------------------------------------------------------
\* What PacService is mapped to.
Front(w) == IF current[w] = None THEN <<>> ELSE <<current[w]>>
At == [c \in Callers |-> IF pc[c] = "start" THEN None ELSE target[c]]
Lines == [w \in Workers |-> Line(w)]
Dead == {w \in Workers : state[w] = "dead"}
Tolds == [c \in Callers |-> Told(c)]

\* The parts of a line, and a step that leaves them alone.
LEMMA LineParts ==
  ASSUME TypeOK, NEW w \in Workers
  PROVE  /\ Front(w) \in Seq(Callers) /\ queue[w] \in Seq(Callers) /\ blocked[w] \in Seq(Callers)
         /\ Front(w) \o queue[w] \in Seq(Callers)
         /\ Line(w) = (Front(w) \o queue[w]) \o blocked[w]
<1>1. Front(w) \in Seq(Callers)
  <2>1. CASE current[w] = None
    BY <2>1, EmptySeq DEF Front
  <2>2. CASE current[w] # None
    <3>1. current[w] \in Callers
      BY <2>2 DEF TypeOK
    <3> QED BY <2>2, <3>1 DEF Front
  <2> QED BY <2>1, <2>2
<1>2. queue[w] \in Seq(Callers) /\ blocked[w] \in Seq(Callers)
  BY DEF TypeOK
<1> QED BY <1>1, <1>2, ConcatProperties DEF Line, Front

\* Who is in a line is being evaluated, in the channel, or waits for capacity.
LEMMA ConcatElements ==
  ASSUME NEW S, NEW s \in Seq(S), NEW t \in Seq(S)
  PROVE  Elements(s \o t) \subseteq Elements(s) \cup Elements(t)
<1>1. /\ DOMAIN s = 1..Len(s) /\ DOMAIN t = 1..Len(t) /\ DOMAIN (s \o t) = 1..(Len(s) + Len(t))
      /\ Len(s) \in Nat /\ Len(t) \in Nat
      /\ \A i \in 1..(Len(s) + Len(t)) : (s \o t)[i] = IF i <= Len(s) THEN s[i] ELSE t[i - Len(s)]
  BY ConcatProperties, LenProperties
<1>2. ASSUME NEW i \in 1..(Len(s) + Len(t))
      PROVE  (s \o t)[i] \in Elements(s) \cup Elements(t)
  <2>1. CASE i <= Len(s)
    BY <1>1, <2>1 DEF Elements
  <2>2. CASE ~(i <= Len(s))
    <3>1. i - Len(s) \in DOMAIN t /\ (s \o t)[i] = t[i - Len(s)]
      BY <1>1, <2>2
    <3> QED BY <3>1 DEF Elements
  <2> QED BY <2>1, <2>2
<1> QED BY <1>1, <1>2 DEF Elements

LEMMA LineElements ==
  ASSUME TypeOK, NEW w \in Workers
  PROVE  Elements(Line(w)) \subseteq Elements(Front(w)) \cup Elements(queue[w]) \cup Elements(blocked[w])
<1>1. Elements(Line(w)) \subseteq Elements(Front(w) \o queue[w]) \cup Elements(blocked[w])
  BY LineParts, ConcatElements
<1>2. Elements(Front(w) \o queue[w]) \subseteq Elements(Front(w)) \cup Elements(queue[w])
  BY LineParts, ConcatElements
<1> QED BY <1>1, <1>2

LEMMA SameLines ==
  ASSUME UNCHANGED <<blocked, queue, current>>
  PROVE  Lines' = Lines
BY DEF Lines, Line

LEMMA SameDead ==
  ASSUME TypeOK, \A w \in Workers : state'[w] = "dead" <=> state[w] = "dead"
  PROVE  Dead' = Dead
BY DEF Dead

LEMMA SameTolds ==
  ASSUME UNCHANGED result, \A c \in Callers : pc'[c] = "cancelled" <=> pc[c] = "cancelled"
  PROVE  Tolds' = Tolds
BY DEF Tolds, Told

LEMMA SameAt ==
  ASSUME UNCHANGED target, \A c \in Callers : pc'[c] = "start" <=> pc[c] = "start"
  PROVE  At' = At
BY DEF At

\* find_proxy's steps as PacService's.
LEMMA ChooseStep ==
  ASSUME IInv, Untold, NEW c \in Callers, PickWorker(c)
  PROVE  Service!Choose(c)
<1>1. TypeOK /\ None \notin Workers
  BY ConstantsAssumption DEF IInv
<1>2. /\ pc[c] = "start" /\ pc' = [pc EXCEPT ![c] = "picked"]
      /\ target' = [target EXCEPT ![c] = next % NumWorkers]
      /\ UNCHANGED <<kind, answer, result, state, blocked, queue, current>>
  BY DEF PickWorker
<1>3. next % NumWorkers \in Workers
  BY <1>1, WorkersType DEF TypeOK
<1>4. At[c] = None /\ At' = [At EXCEPT ![c] = next % NumWorkers]
  BY <1>1, <1>2 DEF At, TypeOK
<1>5. Lines' = Lines /\ Dead' = Dead /\ Tolds' = Tolds
  <2>1. \A d \in Callers : pc'[d] = "cancelled" <=> pc[d] = "cancelled"
    BY <1>1, <1>2 DEF TypeOK
  <2> QED BY <1>1, <1>2, <2>1, SameLines, SameDead, SameTolds
<1> QED BY <1>2, <1>3, <1>4, <1>5 DEF Service!Choose, At, Lines, Dead, Tolds

LEMMA JoinStep ==
  ASSUME IInv, Untold, NEW c \in Callers, Send(c)
  PROVE  Service!Join(c)
<1>1. TypeOK /\ None \notin Callers \cup Workers
  BY ConstantsAssumption DEF IInv
<1>0. PICK w \in Workers : w = target[c]
  BY <1>1 DEF TypeOK
<1>2. /\ pc[c] = "picked" /\ pc' = [pc EXCEPT ![c] = "sending"]
      /\ state[w] # "dead"
      /\ blocked' = [blocked EXCEPT ![w] = Append(@, c)]
      /\ UNCHANGED <<kind, target, answer, result, state, queue, current>>
  BY <1>0 DEF Send, Closed
<1>3. Tolds[c] = "pending" /\ answer[c] = "empty" /\ At[c] = w /\ At[c] \in Workers \ Dead
  BY <1>0, <1>1, <1>2 DEF Tolds, Told, Untold, Failures, At, Dead, IInv, Fresh, Handed
<1>4. At' = At /\ Dead' = Dead /\ Tolds' = Tolds
  <2>1. \A d \in Callers : /\ pc'[d] = "cancelled" <=> pc[d] = "cancelled"
                           /\ pc'[d] = "start" <=> pc[d] = "start"
    BY <1>1, <1>2 DEF TypeOK
  <2> QED BY <1>1, <1>2, <2>1, SameAt, SameDead, SameTolds
<1>5. Line(w)' = Append(Line(w), c)
  <2>1. /\ Front(w) \o queue[w] \in Seq(Callers) /\ blocked[w] \in Seq(Callers)
        /\ Line(w) = (Front(w) \o queue[w]) \o blocked[w]
    BY <1>1, LineParts
  <2>2. Line(w)' = (Front(w) \o queue[w]) \o Append(blocked[w], c)
    BY <1>1, <1>2 DEF Line, Front, TypeOK
  <2>3. (Front(w) \o queue[w]) \o Append(blocked[w], c) = Append((Front(w) \o queue[w]) \o blocked[w], c)
    <3> DEFINE f == Front(w) \o queue[w]
               b == blocked[w]
    <3>1. f \in Seq(Callers) /\ b \in Seq(Callers)
      BY <2>1
    <3> HIDE DEF f, b
    <3>2. f \o Append(b, c) = Append(f \o b, c)
      BY <3>1, LastInLine
    <3> QED BY <3>2 DEF f, b
  <2> QED BY <2>1, <2>2, <2>3
<1>6. \A v \in Workers : v # w => Line(v)' = Line(v)
  BY <1>1, <1>2 DEF Line, TypeOK
<1>7. Lines' = [Lines EXCEPT ![At[c]] = Append(@, c)]
  BY <1>1, <1>3, <1>5, <1>6 DEF Lines
<1>8. c \notin Elements(Line(w))
  <2>1. c \notin Elements(Front(w)) \cup Elements(queue[w]) \cup Elements(blocked[w])
    BY <1>1, <1>2 DEF IInv, Placement, Handed, Front, Elements
  <2> QED BY <1>1, <2>1, LineElements
<1>9. \A i \in DOMAIN Lines[At[c]] : Lines[At[c]][i] # c
  BY <1>1, <1>3, <1>8 DEF Lines, Elements
<1> QED BY <1>2, <1>3, <1>4, <1>7, <1>9 DEF Service!Join, Service!Waits, At, Lines, Dead, Tolds

LEMMA TellStep ==
  ASSUME IInv, Untold, NEW c \in Callers, Receive(c)
  PROVE  Service!Tell(c)
<1>1. TypeOK
  BY DEF IInv
<1>2. /\ pc[c] = "waiting" /\ answer[c] # "empty" /\ answer[c] \notin Failures
      /\ pc' = [pc EXCEPT ![c] = "done"] /\ result' = [result EXCEPT ![c] = answer[c]]
      /\ UNCHANGED <<kind, target, answer, state, blocked, queue, current>>
  BY <1>1 DEF Receive, Return, TypeOK, Answers, Failures
<1>3. Tolds[c] = "pending" /\ Tolds' = [Tolds EXCEPT ![c] = answer[c]]
  BY <1>1, <1>2 DEF Tolds, Told, Untold, Failures, TypeOK
<1>4. At' = At /\ Lines' = Lines /\ Dead' = Dead
  <2>1. \A d \in Callers : pc'[d] = "start" <=> pc[d] = "start"
    BY <1>1, <1>2 DEF TypeOK
  <2> QED BY <1>1, <1>2, <2>1, SameAt, SameLines, SameDead
<1> QED BY <1>2, <1>3, <1>4 DEF Service!Tell, At, Lines, Dead, Tolds

LEMMA FailStep ==
  ASSUME IInv, Untold, NEW c \in Callers, SendFails(c) \/ AnswerDropped(c)
  PROVE  Service!Fail(c)
<1>1. TypeOK
  BY DEF IInv
<1>2. /\ pc[c] \in {"picked", "sending", "waiting"} /\ answer[c] = "empty" /\ state[target[c]] = "dead"
      /\ pc' = [pc EXCEPT ![c] = "done"]
      /\ \E r \in Failures : result' = [result EXCEPT ![c] = r]
      /\ UNCHANGED <<kind, target, answer, state, blocked, queue, current>>
  <2>1. CASE SendFails(c)
    BY <2>1 DEF SendFails, Closed, Return, Failures, IInv, Fresh, Handed
  <2>2. CASE AnswerDropped(c)
    BY <2>2 DEF AnswerDropped, Return, Failures
  <2> QED BY <2>1, <2>2
<1>3. Tolds[c] = "pending" /\ Tolds' = [Tolds EXCEPT ![c] = "failure"]
  BY <1>1, <1>2 DEF Tolds, Told, Untold, Failures, TypeOK
<1>4. At[c] \in Dead
  BY <1>1, <1>2 DEF At, Dead, TypeOK
<1>5. At' = At /\ Lines' = Lines /\ Dead' = Dead
  <2>1. \A d \in Callers : pc'[d] = "start" <=> pc[d] = "start"
    BY <1>1, <1>2 DEF TypeOK
  <2> QED BY <1>1, <1>2, <2>1, SameAt, SameLines, SameDead
<1> QED BY <1>2, <1>3, <1>4, <1>5 DEF Service!Fail, At, Lines, Dead, Tolds

LEMMA LeaveStep ==
  ASSUME IInv, Untold, NEW c \in Callers, Cancel(c)
  PROVE  Service!Leave(c)
<1>1. TypeOK /\ None \notin Workers
  BY ConstantsAssumption DEF IInv
<1>2. PICK w \in Workers : w = target[c]
  BY <1>1 DEF TypeOK
<1>3. /\ pc[c] \in {"picked", "sending", "waiting"} /\ pc' = [pc EXCEPT ![c] = "cancelled"]
      /\ UNCHANGED <<kind, target, answer, result, state, queue, current>>
      /\ \A v \in Workers : blocked'[v] = IF c \in Elements(blocked[v]) THEN Leave(blocked[v], c)
                                                                       ELSE blocked[v]
  BY DEF Cancel
<1>4. Tolds[c] = "pending" /\ Tolds' = [Tolds EXCEPT ![c] = "left"]
  BY <1>1, <1>3 DEF Tolds, Told, Untold, Failures, TypeOK
<1>5. At[c] = w /\ At[c] # None /\ At' = At /\ Dead' = Dead
  <2>1. \A d \in Callers : pc'[d] = "start" <=> pc[d] = "start"
    BY <1>1, <1>3 DEF TypeOK
  <2>2. At[c] = w
    BY <1>2, <1>3 DEF At
  <2> QED BY <1>1, <1>3, <2>1, <2>2, SameAt, SameDead
<1>6. \A v \in Workers : v # w => blocked'[v] = blocked[v]
  BY <1>2, <1>3 DEF IInv, Placement
<1>7. \A v \in Workers : v # w => Line(v)' = Line(v)
  BY <1>3, <1>6 DEF Line
<1>8. Line(w)' = (Front(w) \o queue[w]) \o blocked'[w]
  BY <1>3 DEF Line, Front
<1>9. \/ Lines' = Lines
      \/ \E i \in DOMAIN Lines[w] :
           /\ Lines[w][i] = c
           /\ Lines' = [Lines EXCEPT ![w] = SubSeq(@, 1, i - 1) \o SubSeq(@, i + 1, Len(@))]
  <2>1. CASE c \notin Elements(blocked[w])
    <3>1. Line(w)' = Line(w)
      BY <1>1, <1>3, <1>8, <2>1, LineParts
    <3> QED BY <1>7, <3>1 DEF Lines
  <2>2. CASE c \in Elements(blocked[w])
    <3> DEFINE f == Front(w) \o queue[w]
               b == blocked[w]
    <3>1. f \in Seq(Callers) /\ b \in Seq(Callers) /\ c \in Elements(b) /\ Line(w) = f \o b
      BY <1>1, <2>2, LineParts
    <3>2. Line(w)' = f \o Leave(b, c)
      BY <1>3, <1>8, <2>2
    <3> HIDE DEF f, b
    <3>3. PICK i \in DOMAIN (f \o b) :
            /\ (f \o b)[i] = c
            /\ f \o Leave(b, c) = SubSeq(f \o b, 1, i - 1) \o SubSeq(f \o b, i + 1, Len(f \o b))
      BY <3>1, LeaveLine
    <3>4. Lines[w] = f \o b
      BY <3>1 DEF Lines
    <3>5. i \in DOMAIN Lines[w] /\ Lines[w][i] = c
      BY <3>3, <3>4
    <3>6. Line(w)' = SubSeq(Lines[w], 1, i - 1) \o SubSeq(Lines[w], i + 1, Len(Lines[w]))
      BY <3>2, <3>3, <3>4
    <3> DEFINE new == SubSeq(Lines[w], 1, i - 1) \o SubSeq(Lines[w], i + 1, Len(Lines[w]))
    <3>7. Lines' = [Lines EXCEPT ![w] = new]
      <4>1. Line(w)' = new
        BY <3>6
      <4> HIDE DEF new
      <4> QED BY <1>7, <4>1 DEF Lines
    <3> QED BY <3>5, <3>7
  <2> QED BY <2>1, <2>2
<1> QED BY <1>3, <1>4, <1>5, <1>9 DEF Service!Leave, At, Lines, Dead, Tolds

\* A worker's steps: the outcome of a script run serves the first in the line,
\* and a death empties it; what moves requests about moves nobody in it.
LEMMA ServeStep ==
  ASSUME IInv, Stages, NEW w \in Workers, FinishCall(w)
  PROVE  Service!Serve(w)
<1>1. TypeOK
  BY DEF IInv
<1>2. PICK o \in Outcomes(w) : answer' = [answer EXCEPT ![current[w]] = o]
  BY DEF FinishCall, Addressee
<1>3. /\ state[w] = "evaluating" /\ state' = [state EXCEPT ![w] = "idle"]
      /\ current' = [current EXCEPT ![w] = None]
      /\ UNCHANGED <<kind, pc, target, result, blocked, queue>>
  BY DEF FinishCall
<1>4. current[w] \in Callers /\ current[w] # None
  BY <1>1, <1>3 DEF TypeOK, Stages
<1>5. o \in Service!Outcomes(current[w])
  BY <1>2 DEF Outcomes, Service!Outcomes
<1>6. At' = At /\ Tolds' = Tolds /\ Dead' = Dead
  <2>1. \A v \in Workers : state'[v] = "dead" <=> state[v] = "dead"
    BY <1>1, <1>3 DEF TypeOK
  <2> QED BY <1>1, <1>3, <2>1, SameAt, SameTolds, SameDead
<1>7. PICK c \in Callers : c = current[w]
  BY <1>4
<1>8. Line(w) = (<<c>> \o queue[w]) \o blocked[w]
  BY <1>4, <1>7 DEF Line
<1>9. Line(w)' = queue[w] \o blocked[w]
  <2>1. Line(w)' = (<<>> \o queue[w]) \o blocked[w]
    BY <1>1, <1>3 DEF Line, TypeOK
  <2>2. <<>> \o queue[w] = queue[w]
    BY <1>1, LineParts, ConcatEmptySeq
  <2> QED BY <2>1, <2>2
<1>10. Line(w) # <<>> /\ Head(Line(w)) = c /\ Tail(Line(w)) = Line(w)'
  <2>1. queue[w] \in Seq(Callers) /\ blocked[w] \in Seq(Callers)
    BY <1>1, LineParts
  <2>2. /\ (<<c>> \o queue[w]) \o blocked[w] # <<>>
        /\ Head((<<c>> \o queue[w]) \o blocked[w]) = c
        /\ Tail((<<c>> \o queue[w]) \o blocked[w]) = queue[w] \o blocked[w]
    BY <2>1, FirstInLine
  <2> QED BY <1>8, <1>9, <2>2
<1>11. \A v \in Workers : v # w => Line(v)' = Line(v)
  BY <1>1, <1>3 DEF Line, TypeOK
<1>12. /\ Lines[w] # <<>> /\ Head(Lines[w]) = c
       /\ Lines' = [Lines EXCEPT ![w] = Tail(@)]
  BY <1>10, <1>11 DEF Lines
<1> QED BY <1>2, <1>3, <1>5, <1>6, <1>7, <1>12 DEF Service!Serve, At, Lines, Dead, Tolds

LEMMA DieStep ==
  ASSUME IInv, NEW w \in Workers, WorkerDies(w)
  PROVE  Service!Die(w)
<1>1. TypeOK
  BY DEF IInv
<1>2. /\ state[w] # "dead" /\ state' = [state EXCEPT ![w] = "dead"]
      /\ queue' = [queue EXCEPT ![w] = <<>>] /\ blocked' = [blocked EXCEPT ![w] = <<>>]
      /\ current' = [current EXCEPT ![w] = None]
      /\ UNCHANGED <<kind, pc, target, answer, result>>
  BY DEF WorkerDies, callers
<1>3. w \notin Dead /\ Dead' = Dead \cup {w}
  BY <1>1, <1>2 DEF Dead, TypeOK
<1>4. At' = At /\ Tolds' = Tolds
  BY <1>2, SameAt, SameTolds
<1>5. Line(w)' = <<>>
  <2>1. Line(w)' = (<<>> \o <<>>) \o <<>>
    BY <1>1, <1>2 DEF Line, TypeOK
  <2>2. <<>> \o <<>> = <<>>
    BY EmptySeq, ConcatEmptySeq
  <2> QED BY <2>1, <2>2
<1>6. \A v \in Workers : v # w => Line(v)' = Line(v)
  BY <1>1, <1>2 DEF Line, TypeOK
<1>7. Lines' = [Lines EXCEPT ![w] = <<>>]
  BY <1>5, <1>6 DEF Lines
<1> QED BY <1>2, <1>3, <1>4, <1>7 DEF Service!Die, At, Lines, Dead, Tolds

LEMMA AdmitStep ==
  ASSUME IInv, NEW w \in Workers, Admit(w)
  PROVE  UNCHANGED Service!vars
<1>1. TypeOK
  BY DEF IInv
<1> DEFINE h == Head(blocked[w])
<1>2. /\ blocked[w] # <<>> /\ pc' = [pc EXCEPT ![h] = "waiting"]
      /\ blocked' = [blocked EXCEPT ![w] = Tail(@)]
      /\ queue' = [queue EXCEPT ![w] = Append(@, h)]
      /\ UNCHANGED <<kind, target, answer, result, state, current>>
  BY DEF Admit
<1>3. pc[h] = "sending"
  <2>1. h \in Callers /\ h \in Elements(blocked[w])
    BY <1>1, <1>2, LineParts, TailElements
  <2> QED BY <2>1 DEF IInv, Placement
<1>4. At' = At /\ Tolds' = Tolds /\ Dead' = Dead
  <2>1. \A d \in Callers : /\ pc'[d] = "cancelled" <=> pc[d] = "cancelled"
                           /\ pc'[d] = "start" <=> pc[d] = "start"
    BY <1>1, <1>2, <1>3 DEF TypeOK
  <2> QED BY <1>1, <1>2, <2>1, SameAt, SameTolds, SameDead
<1>5. Line(w)' = Line(w)
  <2>1. Line(w)' = (Front(w) \o Append(queue[w], h)) \o Tail(blocked[w])
    BY <1>1, <1>2 DEF Line, Front, TypeOK
  <2>2. (Front(w) \o Append(queue[w], h)) \o Tail(blocked[w]) = (Front(w) \o queue[w]) \o blocked[w]
    <3> DEFINE f == Front(w)
               q == queue[w]
               e == <<h>>
               r == Tail(blocked[w])
    <3>1. f \in Seq(Callers) /\ q \in Seq(Callers) /\ blocked[w] \in Seq(Callers)
      BY <1>1, LineParts
    <3>2. blocked[w] = e \o r /\ h \in Callers /\ r \in Seq(Callers)
      BY <1>2, <3>1, FirstAndRest
    <3>3. Append(q, h) = q \o e /\ e \in Seq(Callers)
      BY <3>1, <3>2, AppendIsConcat
    <3> HIDE DEF f, q, e, r
    <3>4. f \in Seq(Callers) /\ q \in Seq(Callers) /\ e \in Seq(Callers) /\ r \in Seq(Callers)
          /\ f \o q \in Seq(Callers)
      BY <3>1, <3>2, <3>3, ConcatProperties
    <3>5. (f \o q) \o e = f \o (q \o e)
      BY <3>4, ConcatAssociative
    <3>6. ((f \o q) \o e) \o r = (f \o q) \o (e \o r)
      <4> DEFINE g == f \o q
      <4>1. g \in Seq(Callers) /\ e \in Seq(Callers) /\ r \in Seq(Callers)
        BY <3>4
      <4> HIDE DEF g
      <4>2. (g \o e) \o r = g \o (e \o r)
        BY <4>1, ConcatAssociative
      <4> QED BY <4>2 DEF g
    <3> QED BY <3>2, <3>3, <3>5, <3>6 DEF f, q, r
  <2> QED BY <1>1, <2>1, <2>2, LineParts
<1>6. \A v \in Workers : v # w => Line(v)' = Line(v)
  BY <1>1, <1>2 DEF Line, TypeOK
<1>7. Lines' = Lines
  BY <1>5, <1>6 DEF Lines
<1> QED BY <1>2, <1>4, <1>7 DEF Service!vars, At, Lines, Dead, Tolds

LEMMA TakeStep ==
  ASSUME IInv, NEW w \in Workers, TakeRequest(w)
  PROVE  UNCHANGED Service!vars
<1>1. TypeOK
  BY DEF IInv
<1>2. /\ state[w] = "idle" /\ state' = [state EXCEPT ![w] = "evaluating"]
      /\ queue[w] # <<>> /\ queue' = [queue EXCEPT ![w] = Tail(@)]
      /\ current' = [current EXCEPT ![w] = Head(queue[w])]
      /\ UNCHANGED <<kind, pc, target, answer, result, blocked>>
  BY DEF TakeRequest, Remaining, callers
<1>3. At' = At /\ Tolds' = Tolds /\ Dead' = Dead
  <2>1. \A v \in Workers : state'[v] = "dead" <=> state[v] = "dead"
    BY <1>1, <1>2 DEF TypeOK
  <2> QED BY <1>1, <1>2, <2>1, SameAt, SameTolds, SameDead
<1>4. Line(w)' = Line(w)
  <2>1. /\ queue[w] \in Seq(Callers) /\ Head(queue[w]) \in Callers /\ Head(queue[w]) # None
        /\ queue[w] = <<Head(queue[w])>> \o Tail(queue[w])
    BY <1>1, <1>2, LineParts, FirstAndRest, ConstantsAssumption
  <2>2. current[w] = None
    BY <1>2 DEF IInv, Placement
  <2>3. Line(w)' = (<<Head(queue[w])>> \o Tail(queue[w])) \o blocked[w]
    BY <1>1, <1>2, <2>1 DEF Line, TypeOK
  <2>4. Line(w) = (<<>> \o queue[w]) \o blocked[w] /\ <<>> \o queue[w] = queue[w]
    BY <2>1, <2>2, ConcatEmptySeq DEF Line
  <2> QED BY <2>1, <2>3, <2>4
<1>5. \A v \in Workers : v # w => Line(v)' = Line(v)
  BY <1>1, <1>2 DEF Line, TypeOK
<1>6. Lines' = Lines
  BY <1>4, <1>5 DEF Lines
<1> QED BY <1>2, <1>3, <1>6 DEF Service!vars, At, Lines, Dead, Tolds

\* The pool implements PacService: find_proxy joins its worker's line once and
\* is told the outcome of its own script run, in the order of the line, or, if
\* that worker has died, of a failure; the bounded channel, the senders that
\* wait for its capacity and the deadline do not show.
THEOREM Implementation == Spec => ImplementsPacService
<1>1. Init => Service!Init /\ Untold /\ Stages
  <2> SUFFICES ASSUME Init
               PROVE  Service!Init /\ Untold /\ Stages
    OBVIOUS
  <2>1. <<>> \o <<>> = <<>>
    BY EmptySeq, ConcatEmptySeq
  <2>2. \A w \in Workers : Line(w) = <<>>
    BY <2>1 DEF Init, Line
  <2>3. \A c \in Callers : Told(c) = "pending"
    BY DEF Init, Told, Failures
  <2>4. Stages
    BY StagesStart
  <2> QED BY <2>2, <2>3, <2>4 DEF Init, Service!Init, Untold
<1>2. IInv /\ Untold /\ Stages /\ [Next]_vars => [Service!Next]_(Service!vars)
  <2> SUFFICES ASSUME IInv, Untold, Stages, [Next]_vars
               PROVE  [Service!Next]_(Service!vars)
    OBVIOUS
  <2>1. ASSUME NEW c \in Callers, CallerStep(c) \/ Cancel(c)
        PROVE  Service!Next
    BY <2>1, ChooseStep, JoinStep, TellStep, FailStep, LeaveStep DEF CallerStep, Service!Next
  <2>2. ASSUME NEW w \in Workers, FinishCall(w) \/ WorkerDies(w)
        PROVE  Service!Next
    BY <2>2, ServeStep, DieStep DEF Service!Next
  <2>3. ASSUME NEW w \in Workers, Admit(w) \/ TakeRequest(w)
        PROVE  UNCHANGED Service!vars
    BY <2>3, AdmitStep, TakeStep
  <2>4. CASE (\E w \in Workers : StartWorker(w) \/ DeadlinePasses(w)) \/ UNCHANGED vars
    <3>1. TypeOK /\ UNCHANGED <<kind, pc, target, answer, result, blocked, queue, current>>
      BY <2>4 DEF StartWorker, DeadlinePasses, callers, vars, IInv
    <3>2. \A w \in Workers : state'[w] = "dead" <=> state[w] = "dead"
      BY <2>4, <3>1 DEF StartWorker, DeadlinePasses, vars, TypeOK
    <3>3. At' = At /\ Lines' = Lines /\ Dead' = Dead /\ Tolds' = Tolds
      BY <3>1, <3>2, SameAt, SameLines, SameDead, SameTolds
    <3> QED BY <3>1, <3>3 DEF Service!vars, At, Lines, Dead, Tolds
  <2> QED BY <2>1, <2>2, <2>3, <2>4 DEF Next, WorkerStep
<1> QED BY <1>1, <1>2, UntoldStep, StagesStep, Invariance, PTL DEF Spec, ImplementsPacService, Service!Spec
=============================================================================
