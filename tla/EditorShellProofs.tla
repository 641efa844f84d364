-------------------------- MODULE EditorShellProofs --------------------------
(***************************************************************************)
(* Theorems about EditorShell, for any launches, any log windows, any      *)
(* circumstances and any number of requests.                               *)
(***************************************************************************)
EXTENDS EditorShell, TLAPS

\* The launches that have signalled an editor, handled or not.
Called == {q \in Editors : pc[q] \in {"signalled", "shown", "missed"}}

\* Nothing else waits in a socket or in an editor.
Queued ==
  /\ calls \in [Editors -> Seq(Called)]
  /\ heard \in [Editors -> Seq(Called)]

\* A launch that has not happened has no windows, and an editor that is gone no
\* socket.
Unlaunched ==
  \A p \in Editors : pc[p] = "absent" => logId[p] = None /\ \A w \in Windows : win[p][w] = "unused"
SocketOfLiving == \A p \in Editors : sock[p] # "none" => Alive(p)

\* When no window lingers, the main window is never taken for another.
OwnMain == "late" \notin mode => \A p \in Editors : pc[p] = "running" => mainId[p] = Main

\* When launches come one at a time, the name an editor has removed stays free
\* until it binds its own.
OneAtATime ==
  mode \cap {"overlap", "accept"} = {} =>
    \A p \in Editors :
      /\ sock[p] # "deaf"
      /\ pc[p] = "running" /\ sock[p] = "unlinked" => path = None

IInv ==
  /\ TypeOK
  /\ Queued
  /\ Unlaunched
  /\ SocketOfLiving
  /\ LogButton
  /\ OwnMain
  /\ OneAtATime
  /\ SoleEditor

-----------------------------------------------------------------------------
\* The constants as the provers use them.
LEMMA Constant ==
  /\ Main \in Windows /\ Main \notin LogWindows /\ LogWindows \subseteq Windows
  /\ None \notin Editors /\ None \notin Windows /\ None \notin LogWindows
  /\ \A w \in Windows : w = Main \/ w \in LogWindows
  /\ Modes \subseteq SUBSET Circumstances
BY ConstantsAssumption DEF Windows

\* Queues: what is put into one and taken out of it.
LEMMA Queue ==
  ASSUME NEW S, NEW s \in Seq(S)
  PROVE  /\ \A x \in S : Append(s, x) \in Seq(S)
         /\ s # <<>> => Head(s) \in S /\ Tail(s) \in Seq(S)
         /\ \A i \in DOMAIN s : s[i] \in S
         /\ <<>> \in Seq(S)
OBVIOUS

LEMMA QueueGrows ==
  ASSUME NEW S, NEW T, S \subseteq T
  PROVE  Seq(S) \subseteq Seq(T)
<1> SUFFICES ASSUME NEW s \in Seq(S)
             PROVE  s \in Seq(T)
  OBVIOUS
<1>1. s \in [1..Len(s) -> T] /\ Len(s) \in Nat
  OBVIOUS
<1> QED BY <1>1

\* What waits has signalled an editor.
LEMMA WaitingCalled ==
  ASSUME Queued, NEW p \in Editors
  PROVE  /\ Waiting(p) \subseteq Called
         /\ {q \in Editors : \E i \in DOMAIN calls[p] : calls[p][i] = q} \subseteq Called
<1>1. calls[p] \in Seq(Called) /\ heard[p] \in Seq(Called)
  BY DEF Queued
<1>2. /\ \A i \in DOMAIN calls[p] : calls[p][i] \in Called
      /\ \A i \in DOMAIN heard[p] : heard[p][i] \in Called
  BY <1>1, Queue
<1>3. Waiting(p) \subseteq Called
  BY <1>2 DEF Waiting
<1> QED BY <1>2, <1>3

\* Only launches that have signalled an editor are missed.
LEMMA MissedLaunches ==
  ASSUME TypeOK, NEW S, S \subseteq Called
  PROVE  /\ Missed(S) \in [Editors -> Launches]
         /\ \A q \in Editors : Missed(S)[q] = IF q \in S THEN "missed" ELSE pc[q]
BY DEF TypeOK, Missed, Launches

-----------------------------------------------------------------------------
\* What has become of the launches after a step: who runs has launched, who has
\* signalled stays among the called.
LEMMA LaunchStep ==
  ASSUME TypeOK, Queued, [Next]_vars
  PROVE  /\ pc' \in [Editors -> Launches]
         /\ Called \subseteq Called'
         /\ \A p \in Editors : pc'[p] = "absent" => pc[p] = "absent"
<1>a. pc \in [Editors -> Launches]
  BY DEF TypeOK
<1>1. CASE pc' = pc
  BY <1>a, <1>1 DEF Called
<1>2. ASSUME NEW p \in Editors, NEW s \in {"running", "signalled"},
             pc[p] = "absent", pc' = [pc EXCEPT ![p] = s]
      PROVE  /\ pc' \in [Editors -> Launches]
             /\ Called \subseteq Called'
             /\ \A q \in Editors : pc'[q] = "absent" => pc[q] = "absent"
  BY <1>a, <1>2 DEF Called, Launches
<1>3. ASSUME NEW p \in Editors, AcceptFails(p)
      PROVE  /\ pc' \in [Editors -> Launches]
             /\ Called \subseteq Called'
             /\ \A q \in Editors : pc'[q] = "absent" => pc[q] = "absent"
  <2> DEFINE S == {q \in Editors : \E i \in DOMAIN calls[p] : calls[p][i] = q}
  <2>1. S \subseteq Called /\ pc' = Missed(S)
    BY <1>3, WaitingCalled DEF AcceptFails
  <2> HIDE DEF S
  <2> QED BY <2>1, MissedLaunches DEF Called
<1>4. ASSUME NEW p \in Editors, External(p)
      PROVE  /\ pc' \in [Editors -> Launches]
             /\ Called \subseteq Called'
             /\ \A q \in Editors : pc'[q] = "absent" => pc[q] = "absent"
  <2>1. PICK s \in {"shown", "missed"} : pc' = [pc EXCEPT ![Head(heard[p])] = s]
    BY <1>4 DEF External
  <2>2. Head(heard[p]) \in Called
    BY <1>4, Queue DEF External, Queued
  <2> QED BY <1>a, <2>1, <2>2 DEF Called, Launches
<1>5. ASSUME NEW p \in Editors, MainClosed(p, Main) \/ \E w \in Windows : MainClosed(p, w)
      PROVE  /\ pc' \in [Editors -> Launches]
             /\ Called \subseteq Called'
             /\ \A q \in Editors : pc'[q] = "absent" => pc[q] = "absent"
  <2>1. pc[p] = "running" /\ pc' = [pc EXCEPT ![p] = "exiting"]
    BY <1>5 DEF MainClosed
  <2> QED BY <1>a, <2>1 DEF Called, Launches
<1>6. ASSUME NEW p \in Editors, End(p), pc[p] \in {"running", "exiting"}
      PROVE  /\ pc' \in [Editors -> Launches]
             /\ Called \subseteq Called'
             /\ \A q \in Editors : pc'[q] = "absent" => pc[q] = "absent"
  <2>1. Waiting(p) \subseteq Called /\ pc' = [Missed(Waiting(p)) EXCEPT ![p] = "gone"]
    BY <1>6, WaitingCalled DEF End
  <2>2. p \notin Called
    BY <1>6 DEF Called
  <2> QED BY <1>a, <1>6, <2>1, <2>2, MissedLaunches DEF Called, Launches
<1>7. ASSUME NEW p \in Editors
      PROVE  /\ Signal(p) => pc[p] = "absent" /\ pc' = [pc EXCEPT ![p] = "signalled"]
             /\ RunUi(p) => pc[p] = "absent" /\ pc' = [pc EXCEPT ![p] = "running"]
             /\ Exit(p) \/ Kill(p) => End(p) /\ pc[p] \in {"running", "exiting"}
             /\ \/ OpenLogs(p) \/ OpenLogsAt(p) \/ Unlink(p) \/ Bind(p) \/ Accept(p)
                \/ \E w \in Windows : CloseRequested(p, w) \/ OtherClosed(p, w) \/ Captured(p, w)
                => pc' = pc
  BY DEF Signal, RunUi, Exit, Kill, OpenLogs, OpenLogsAt, Unlink, Bind, Accept, CloseRequested,
         OtherClosed, Captured
<1>8. CASE UNCHANGED vars
  BY <1>1, <1>8 DEF vars
<1> QED BY <1>1, <1>2, <1>3, <1>4, <1>5, <1>6, <1>7, <1>8 DEF Next, UserStep, WindowStep, StreamStep

\* The queues hold launches that have called, and calls wait where there is a listener.
LEMMA QueuedStep ==
  ASSUME TypeOK, Queued, [Next]_vars
  PROVE  Queued'
<1>a. /\ Called \subseteq Called'
      /\ calls \in [Editors -> Seq(Called')] /\ heard \in [Editors -> Seq(Called')]
  BY LaunchStep, QueueGrows DEF Queued
<1>1. CASE calls' = calls /\ heard' = heard
  BY <1>a, <1>1 DEF Queued
<1>2. ASSUME NEW p \in Editors, Signal(p)
      PROVE  Queued'
  <2>1. path \in Editors /\ p \in Called'
    BY <1>2 DEF Signal, Answers, TypeOK, Called
  <2>2. Append(calls[path], p) \in Seq(Called')
    BY <1>a, <2>1, Queue
  <2> QED BY <1>a, <1>2, <2>1, <2>2 DEF Signal, Queued
<1>3. ASSUME NEW p \in Editors, Accept(p)
      PROVE  Queued'
  <2>1. Head(calls[p]) \in Called' /\ Tail(calls[p]) \in Seq(Called')
    BY <1>a, <1>3, Queue DEF Accept
  <2>2. Append(heard[p], Head(calls[p])) \in Seq(Called')
    BY <1>a, <2>1, Queue
  <2> QED BY <1>a, <1>3, <2>1, <2>2 DEF Accept, Queued
<1>4. ASSUME NEW p \in Editors, AcceptFails(p)
      PROVE  Queued'
  BY <1>a, <1>4, Queue DEF AcceptFails, Queued
<1>5. ASSUME NEW p \in Editors, External(p)
      PROVE  Queued'
  <2>1. Tail(heard[p]) \in Seq(Called')
    BY <1>a, <1>5, Queue DEF External
  <2> QED BY <1>a, <1>5, <2>1 DEF External, Queued
<1>6. ASSUME NEW p \in Editors, End(p)
      PROVE  Queued'
  BY <1>a, <1>6, Queue DEF End, Queued
<1> QED BY <1>1, <1>2, <1>3, <1>4, <1>5, <1>6
        DEF Next, UserStep, WindowStep, StreamStep, vars, windows, socket, RunUi, OpenLogs, CloseRequested,
            OpenLogsAt, MainClosed, OtherClosed, Unlink, Bind, Captured, Exit, Kill

-----------------------------------------------------------------------------
\* The socket, its name and the windows keep their types.
LEMMA SocketStep ==
  ASSUME TypeOK, Queued, [Next]_vars
  PROVE  /\ mode' = mode
         /\ sock' \in [Editors -> {"none", "unlinked", "listening", "deaf"}]
         /\ path' \in Editors \cup {None}
<1>a. /\ sock \in [Editors -> {"none", "unlinked", "listening", "deaf"}]
      /\ path \in Editors \cup {None}
  BY DEF TypeOK
<1>1. CASE UNCHANGED <<mode, sock, path>>
  BY <1>a, <1>1
<1>2. ASSUME NEW p \in Editors, UNCHANGED mode,
             \/ Unlink(p) \/ Bind(p) \/ AcceptFails(p) \/ (End(p) /\ UNCHANGED path)
             \/ \E w \in Windows : MainClosed(p, w)
      PROVE  /\ mode' = mode
             /\ sock' \in [Editors -> {"none", "unlinked", "listening", "deaf"}]
             /\ path' \in Editors \cup {None}
  BY <1>a, <1>2 DEF Unlink, Removed, Bind, AcceptFails, End, MainClosed
<1>3. ASSUME NEW p \in Editors
      PROVE  /\ \/ Signal(p) \/ RunUi(p) \/ OpenLogs(p) \/ OpenLogsAt(p) \/ Accept(p) \/ External(p)
                \/ \E w \in Windows : CloseRequested(p, w) \/ OtherClosed(p, w) \/ Captured(p, w)
                => UNCHANGED <<mode, sock, path>>
             /\ Unlink(p) \/ Bind(p) \/ AcceptFails(p) => UNCHANGED mode
             /\ (\E w \in Windows : MainClosed(p, w)) => UNCHANGED mode
             /\ Exit(p) \/ Kill(p) => End(p) /\ UNCHANGED <<mode, path>>
  BY DEF socket, Signal, RunUi, OpenLogs, CloseRequested, OpenLogsAt, MainClosed, OtherClosed,
         Unlink, Bind, Accept, AcceptFails, External, Captured, Exit, Kill
<1>4. CASE UNCHANGED vars
  BY <1>1, <1>4 DEF vars, socket
<1>5. ASSUME NEW p \in Editors, UserStep(p) \/ WindowStep(p) \/ StreamStep(p)
      PROVE  \/ UNCHANGED <<mode, sock, path>>
             \/ /\ UNCHANGED mode
                /\ Unlink(p) \/ Bind(p) \/ \E w \in Windows : MainClosed(p, w)
  BY <1>3, <1>5 DEF UserStep, WindowStep, StreamStep
<1>6. ASSUME NEW p \in Editors,
             \/ \E w \in Windows : Captured(p, w)
             \/ External(p) \/ AcceptFails(p) \/ Exit(p) \/ Kill(p)
      PROVE  \/ UNCHANGED <<mode, sock, path>>
             \/ UNCHANGED mode /\ (AcceptFails(p) \/ (End(p) /\ UNCHANGED path))
  BY <1>3, <1>6
<1> QED BY <1>1, <1>2, <1>4, <1>5, <1>6 DEF Next

LEMMA WindowTypes ==
  ASSUME TypeOK, [Next]_vars
  PROVE  /\ win' \in [Editors -> [Windows -> {"unused", "open", "closing", "closed"}]]
         /\ mainId' \in [Editors -> Windows \cup {None}]
         /\ logId' \in [Editors -> LogWindows \cup {None}]
         /\ asks' \in [Editors -> Nat]
<1> DEFINE States == {"unused", "open", "closing", "closed"}
<1>a. /\ win \in [Editors -> [Windows -> States]]
      /\ mainId \in [Editors -> Windows \cup {None}]
      /\ logId \in [Editors -> LogWindows \cup {None}]
      /\ asks \in [Editors -> Nat]
  BY DEF TypeOK
<1>1. CASE UNCHANGED windows
  BY <1>a, <1>1 DEF windows
<1>2. ASSUME NEW p \in Editors, RunUi(p)
      PROVE  /\ win' \in [Editors -> [Windows -> States]]
             /\ mainId' \in [Editors -> Windows \cup {None}]
             /\ UNCHANGED <<logId, asks>>
  BY <1>a, <1>2, Constant DEF RunUi
<1>3. ASSUME NEW p \in Editors, OpenLogs(p)
      PROVE  asks' \in [Editors -> Nat] /\ UNCHANGED <<win, mainId, logId>>
  BY <1>a, <1>3 DEF OpenLogs
<1>4. ASSUME NEW p \in Editors, OpenLogsAt(p)
      PROVE  /\ win' \in [Editors -> [Windows -> States]]
             /\ logId' \in [Editors -> LogWindows \cup {None}]
             /\ asks' \in [Editors -> Nat]
             /\ UNCHANGED mainId
  <2>1. asks[p] - 1 \in Nat
    BY <1>a, <1>4 DEF OpenLogsAt
  <2>2. asks' \in [Editors -> Nat]
    BY <1>a, <1>4, <2>1 DEF OpenLogsAt
  <2>3. /\ win' \in [Editors -> [Windows -> States]]
        /\ logId' \in [Editors -> LogWindows \cup {None}]
    BY <1>a, <1>4, Constant DEF OpenLogsAt
  <2> QED BY <1>4, <2>2, <2>3 DEF OpenLogsAt
<1>5. ASSUME NEW p \in Editors, NEW w \in Windows,
             CloseRequested(p, w) \/ MainClosed(p, w) \/ OtherClosed(p, w) \/ Captured(p, w)
      PROVE  /\ UNCHANGED asks
             /\ win' \in [Editors -> [Windows -> States]]
             /\ mainId' \in [Editors -> Windows \cup {None}]
             /\ logId' \in [Editors -> LogWindows \cup {None}]
  <2>1. win' = win \/ \E s \in States : win' = [win EXCEPT ![p][w] = s]
    BY <1>5 DEF CloseRequested, MainClosed, OtherClosed, Captured
  <2>2. mainId' = mainId \/ \E i \in Windows \cup {None} : mainId' = [mainId EXCEPT ![p] = i]
    BY <1>5 DEF CloseRequested, MainClosed, OtherClosed, Captured
  <2>3. logId' = logId \/ \E i \in {None, logId[p]} : logId' = [logId EXCEPT ![p] = i]
    BY <1>5 DEF CloseRequested, LogAfterRequest, MainClosed, OtherClosed, Captured
  <2>4. asks' = asks
    BY <1>5 DEF CloseRequested, MainClosed, OtherClosed, Captured, windows
  <2>5. win' \in [Editors -> [Windows -> States]]
    <3> HIDE DEF States
    <3>1. ASSUME NEW s \in States, win' = [win EXCEPT ![p][w] = s]
          PROVE  win' \in [Editors -> [Windows -> States]]
      <4>1. [win[p] EXCEPT ![w] = s] \in [Windows -> States]
        BY <1>a
      <4>2. win' = [win EXCEPT ![p] = [win[p] EXCEPT ![w] = s]]
        BY <3>1
      <4> QED BY <1>a, <4>1, <4>2
    <3> QED BY <1>a, <2>1, <3>1
  <2>6. mainId' \in [Editors -> Windows \cup {None}]
    BY <1>a, <2>2
  <2>7. logId' \in [Editors -> LogWindows \cup {None}]
    BY <1>a, <2>3
  <2> QED BY <2>4, <2>5, <2>6, <2>7
<1>6. ASSUME NEW p \in Editors, End(p)
      PROVE  /\ win' \in [Editors -> [Windows -> States]]
             /\ mainId' \in [Editors -> Windows \cup {None}]
             /\ logId' \in [Editors -> LogWindows \cup {None}]
             /\ asks' \in [Editors -> Nat]
  BY <1>a, <1>6 DEF End
<1> QED BY <1>a, <1>1, <1>2, <1>3, <1>4, <1>5, <1>6
        DEF Next, UserStep, WindowStep, StreamStep, vars, Signal, Unlink, Bind, Accept, AcceptFails,
            External, Exit, Kill

\* A running editor has a main window.
LEMMA MainWindowStep ==
  ASSUME TypeOK, Queued, [Next]_vars
  PROVE  \A p \in Editors : pc'[p] = "running" => mainId'[p] # None
<1>a. /\ pc \in [Editors -> Launches] /\ mainId \in [Editors -> Windows \cup {None}]
      /\ \A p \in Editors : pc[p] = "running" => mainId[p] # None
  BY DEF TypeOK
<1>1. CASE UNCHANGED <<pc, mainId>>
  BY <1>a, <1>1
<1>2. ASSUME NEW p \in Editors, Signal(p) \/ RunUi(p)
      PROVE  \A q \in Editors : pc'[q] = "running" => mainId'[q] # None
  BY <1>a, <1>2, Constant DEF Signal, RunUi, windows
<1>3. ASSUME NEW p \in Editors, NEW w \in Windows, MainClosed(p, w) \/ Captured(p, w)
      PROVE  \A q \in Editors : pc'[q] = "running" => mainId'[q] # None
  BY <1>a, <1>3, Constant DEF MainClosed, Captured
<1>4. ASSUME NEW p \in Editors, AcceptFails(p)
      PROVE  \A q \in Editors : pc'[q] = "running" => mainId'[q] # None
  BY <1>a, <1>4, WaitingCalled, MissedLaunches DEF AcceptFails, windows
<1>5. ASSUME NEW p \in Editors, External(p)
      PROVE  \A q \in Editors : pc'[q] = "running" => mainId'[q] # None
  <2>1. PICK s \in {"shown", "missed"} : pc' = [pc EXCEPT ![Head(heard[p])] = s]
    BY <1>5 DEF External
  <2>2. mainId' = mainId
    BY <1>5 DEF External, windows
  <2> QED BY <1>a, <2>1, <2>2
<1>6. ASSUME NEW p \in Editors, End(p)
      PROVE  \A q \in Editors : pc'[q] = "running" => mainId'[q] # None
  BY <1>a, <1>6, WaitingCalled, MissedLaunches DEF End
<1> QED BY <1>1, <1>2, <1>3, <1>4, <1>5, <1>6
        DEF Next, UserStep, WindowStep, StreamStep, vars, windows, OpenLogs, CloseRequested, OpenLogsAt,
            OtherClosed, Unlink, Bind, Accept, Exit, Kill

\* Launches wait only at a socket that listens.
LEMMA CallsStep ==
  ASSUME TypeOK, [Next]_vars
  PROVE  \A p \in Editors : calls'[p] # <<>> => sock'[p] = "listening"
<1>a. /\ sock \in [Editors -> {"none", "unlinked", "listening", "deaf"}]
      /\ calls \in [Editors -> Seq(Editors)]
      /\ \A p \in Editors : calls[p] # <<>> => sock[p] = "listening"
  BY DEF TypeOK
<1>1. CASE UNCHANGED <<calls, sock>>
  BY <1>a, <1>1
<1>2. ASSUME NEW p \in Editors, Signal(p)
      PROVE  \A q \in Editors : calls'[q] # <<>> => sock'[q] = "listening"
  BY <1>a, <1>2 DEF Signal, Answers
<1>3. ASSUME NEW p \in Editors, Unlink(p) \/ Bind(p)
      PROVE  \A q \in Editors : calls'[q] # <<>> => sock'[q] = "listening"
  BY <1>a, <1>3 DEF Unlink, Bind
<1>4. ASSUME NEW p \in Editors, Accept(p)
      PROVE  \A q \in Editors : calls'[q] # <<>> => sock'[q] = "listening"
  BY <1>a, <1>4 DEF Accept
<1>5. ASSUME NEW p \in Editors, AcceptFails(p)
      PROVE  \A q \in Editors : calls'[q] # <<>> => sock'[q] = "listening"
  BY <1>a, <1>5 DEF AcceptFails
<1>6. ASSUME NEW p \in Editors, End(p)
      PROVE  \A q \in Editors : calls'[q] # <<>> => sock'[q] = "listening"
  BY <1>a, <1>6 DEF End
<1> QED BY <1>1, <1>2, <1>3, <1>4, <1>5, <1>6
        DEF Next, UserStep, WindowStep, StreamStep, vars, windows, socket, RunUi, OpenLogs, CloseRequested,
            OpenLogsAt, MainClosed, OtherClosed, External, Captured, Exit, Kill

LEMMA TypeStep ==
  ASSUME TypeOK, Queued, [Next]_vars
  PROVE  TypeOK'
<1>1. calls' \in [Editors -> Seq(Editors)] /\ heard' \in [Editors -> Seq(Editors)]
  <2>1. Called' \subseteq Editors
    BY DEF Called
  <2> QED BY <2>1, QueuedStep, QueueGrows DEF Queued
<1>2. mode' \in SUBSET Circumstances
  BY SocketStep DEF TypeOK
<1> QED BY <1>1, <1>2, LaunchStep, SocketStep, WindowTypes, MainWindowStep, CallsStep DEF TypeOK

-----------------------------------------------------------------------------
\* What happens to the windows of the editors that go on.
LEMMA UnlaunchedStep ==
  ASSUME TypeOK, Queued, Unlaunched, [Next]_vars
  PROVE  Unlaunched'
<1>a. /\ pc \in [Editors -> Launches]
      /\ win \in [Editors -> [Windows -> {"unused", "open", "closing", "closed"}]]
      /\ logId \in [Editors -> LogWindows \cup {None}]
      /\ \A p \in Editors : pc'[p] = "absent" => pc[p] = "absent"
  BY LaunchStep DEF TypeOK
<1>1. CASE UNCHANGED <<win, logId>>
  BY <1>a, <1>1 DEF Unlaunched
<1>2. ASSUME NEW p \in Editors, RunUi(p)
      PROVE  Unlaunched'
  BY <1>a, <1>2 DEF RunUi, Unlaunched
<1>3. ASSUME NEW p \in Editors, pc[p] = "running", pc' = pc,
             \A q \in Editors \ {p} : win'[q] = win[q] /\ logId'[q] = logId[q]
      PROVE  Unlaunched'
  BY <1>a, <1>3 DEF Unlaunched
<1>4. ASSUME NEW p \in Editors, NEW w \in Windows,
             CloseRequested(p, w) \/ OtherClosed(p, w)
      PROVE  Unlaunched'
  <2>1. pc[p] = "running" /\ pc' = pc
    BY <1>4 DEF CloseRequested, OtherClosed
  <2>2. \A q \in Editors \ {p} : win'[q] = win[q] /\ logId'[q] = logId[q]
    BY <1>a, <1>4 DEF CloseRequested, OtherClosed
  <2> QED BY <1>3, <2>1, <2>2
<1>5. ASSUME NEW p \in Editors, OpenLogsAt(p)
      PROVE  Unlaunched'
  <2>1. pc[p] = "running" /\ pc' = pc
    BY <1>5 DEF OpenLogsAt
  <2>2. \A q \in Editors \ {p} : win'[q] = win[q] /\ logId'[q] = logId[q]
    BY <1>a, <1>5 DEF OpenLogsAt
  <2> QED BY <1>3, <2>1, <2>2
<1>6. ASSUME NEW p \in Editors, NEW w \in Windows, MainClosed(p, w)
      PROVE  Unlaunched'
  BY <1>a, <1>6 DEF MainClosed, Unlaunched
<1>7. ASSUME NEW p \in Editors, End(p), pc[p] \in {"running", "exiting"}
      PROVE  Unlaunched'
  BY <1>a, <1>7 DEF End, Unlaunched
<1> QED BY <1>1, <1>2, <1>4, <1>5, <1>6, <1>7
        DEF Next, UserStep, WindowStep, StreamStep, vars, windows, Signal, OpenLogs, Unlink, Bind,
            Accept, AcceptFails, External, Captured, Exit, Kill

\* The launches that run or exit after a step.
LEMMA WhoRuns ==
  ASSUME TypeOK, Queued, [Next]_vars
  PROVE  \A p \in Editors :
           /\ pc'[p] = "running" => pc[p] = "running" \/ RunUi(p)
           /\ pc'[p] = "exiting" => pc[p] = "exiting" \/ \E w \in Windows : MainClosed(p, w)
<1>a. pc \in [Editors -> Launches]
  BY DEF TypeOK
<1> DEFINE Goal(p) == /\ pc'[p] = "running" => pc[p] = "running" \/ RunUi(p)
                      /\ pc'[p] = "exiting" => pc[p] = "exiting" \/ \E w \in Windows : MainClosed(p, w)
<1>1. CASE pc' = pc
  BY <1>1
<1>2. ASSUME NEW p \in Editors, Signal(p) \/ RunUi(p)
      PROVE  \A q \in Editors : Goal(q)
  <2>1. \A q \in Editors : pc'[q] = IF q = p THEN IF RunUi(p) THEN "running" ELSE "signalled" ELSE pc[q]
    <3>1. CASE Signal(p)
      BY <1>a, <3>1 DEF Signal, RunUi
    <3>2. CASE RunUi(p)
      BY <1>a, <3>2 DEF RunUi
    <3> QED BY <1>2, <3>1, <3>2
  <2> QED BY <2>1
<1>3. ASSUME NEW p \in Editors, NEW w \in Windows, MainClosed(p, w)
      PROVE  \A q \in Editors : Goal(q)
  <2>1. \A q \in Editors : pc'[q] = IF q = p THEN "exiting" ELSE pc[q]
    BY <1>a, <1>3 DEF MainClosed
  <2> QED BY <1>3, <2>1
<1>4. ASSUME NEW p \in Editors, AcceptFails(p)
      PROVE  \A q \in Editors : Goal(q)
  <2>1. \A q \in Editors : pc'[q] \in {"missed", pc[q]}
    BY <1>4, WaitingCalled, MissedLaunches DEF AcceptFails
  <2> QED BY <2>1
<1>5. ASSUME NEW p \in Editors, External(p)
      PROVE  \A q \in Editors : Goal(q)
  <2>1. \A q \in Editors : pc'[q] \in {"shown", "missed", pc[q]}
    BY <1>a, <1>5 DEF External
  <2> QED BY <2>1
<1>6. ASSUME NEW p \in Editors, End(p)
      PROVE  \A q \in Editors : Goal(q)
  <2>1. \A q \in Editors : pc'[q] \in {"missed", "gone", pc[q]}
    BY <1>6, WaitingCalled, MissedLaunches DEF End
  <2> QED BY <2>1
<1> HIDE DEF Goal
<1>7. \A p \in Editors : Goal(p)
  BY <1>1, <1>2, <1>3, <1>4, <1>5, <1>6
     DEF Next, UserStep, WindowStep, StreamStep, vars, windows, OpenLogs, CloseRequested, OpenLogsAt,
         OtherClosed, Unlink, Bind, Accept, Captured, Exit, Kill, Goal
<1> QED BY <1>7 DEF Goal

-----------------------------------------------------------------------------
\* The log window that is open is the one the editor knows.
LEMMA LogButtonStep ==
  ASSUME TypeOK, Queued, Unlaunched, LogButton, [Next]_vars
  PROVE  LogButton'
<1>a. /\ pc \in [Editors -> Launches]
      /\ win \in [Editors -> [Windows -> {"unused", "open", "closing", "closed"}]]
      /\ logId \in [Editors -> LogWindows \cup {None}]
  BY DEF TypeOK
<1>b. \A p \in Editors : pc'[p] = "running" => pc[p] = "running" \/ RunUi(p)
  BY WhoRuns
<1>c. \A p \in Editors : RunUi(p) =>
        /\ win' = [win EXCEPT ![p][Main] = "open"] /\ UNCHANGED logId
        /\ pc[p] = "absent"
  BY DEF RunUi
<1>1. CASE UNCHANGED <<win, logId>>
  <2>1. \A p \in Editors : ~RunUi(p)
    BY <1>a, <1>1, <1>c, Constant DEF Unlaunched
  <2> QED BY <1>b, <1>1, <2>1 DEF LogButton
<1>2. ASSUME NEW p \in Editors, RunUi(p)
      PROVE  LogButton'
  <2>1. \A w \in LogWindows : win'[p][w] = "unused" /\ logId'[p] = None
    BY <1>a, <1>c, <1>2, Constant DEF Unlaunched
  <2>2. \A q \in Editors \ {p} : win'[q] = win[q] /\ logId'[q] = logId[q] /\ pc'[q] = pc[q]
    BY <1>a, <1>2 DEF RunUi
  <2> QED BY <2>1, <2>2, Constant DEF LogButton
<1>3. ASSUME NEW p \in Editors, pc[p] = "running", pc' = pc,
             \A q \in Editors \ {p} : win'[q] = win[q] /\ logId'[q] = logId[q],
             \A w \in LogWindows : win'[p][w] = "open" <=> logId'[p] = w
      PROVE  LogButton'
  BY <1>3 DEF LogButton
<1>4. ASSUME NEW p \in Editors, NEW w \in Windows, CloseRequested(p, w)
      PROVE  LogButton'
  <2>1. /\ pc[p] = "running" /\ pc' = pc
        /\ win' = [win EXCEPT ![p][w] = "closing"]
        /\ logId' = [logId EXCEPT ![p] = IF logId[p] = w THEN None ELSE logId[p]]
        /\ win[p][w] = "open"
    BY <1>4 DEF CloseRequested, LogAfterRequest
  <2>2. \A q \in Editors \ {p} : win'[q] = win[q] /\ logId'[q] = logId[q]
    BY <1>a, <2>1
  <2>3. \A v \in LogWindows : win'[p][v] = IF v = w THEN "closing" ELSE win[p][v]
    BY <1>a, <2>1, Constant
  <2>4. logId'[p] = IF logId[p] = w THEN None ELSE logId[p]
    BY <1>a, <2>1
  <2>5. \A v \in LogWindows : win'[p][v] = "open" <=> logId'[p] = v
    BY <2>1, <2>3, <2>4, Constant DEF LogButton
  <2> QED BY <1>3, <2>1, <2>2, <2>5
<1>5. ASSUME NEW p \in Editors, NEW w \in Windows, OtherClosed(p, w)
      PROVE  LogButton'
  <2>1. /\ pc[p] = "running" /\ pc' = pc
        /\ win' = [win EXCEPT ![p][w] = "closed"]
        /\ logId' = [logId EXCEPT ![p] = IF logId[p] = w THEN None ELSE logId[p]]
        /\ win[p][w] = "closing"
    BY <1>5 DEF OtherClosed
  <2>2. \A q \in Editors \ {p} : win'[q] = win[q] /\ logId'[q] = logId[q]
    BY <1>a, <2>1
  <2>3. \A v \in LogWindows : win'[p][v] = IF v = w THEN "closed" ELSE win[p][v]
    BY <1>a, <2>1, Constant
  <2>4. logId'[p] = IF logId[p] = w THEN None ELSE logId[p]
    BY <1>a, <2>1
  <2>5. \A v \in LogWindows : win'[p][v] = "open" <=> logId'[p] = v
    BY <2>1, <2>3, <2>4, Constant DEF LogButton
  <2> QED BY <1>3, <2>1, <2>2, <2>5
<1>6. ASSUME NEW p \in Editors, OpenLogsAt(p), ~UNCHANGED <<win, logId>>
      PROVE  LogButton'
  <2>1. PICK w \in LogWindows :
          /\ logId[p] = None
          /\ win' = [win EXCEPT ![p][w] = "open"]
          /\ logId' = [logId EXCEPT ![p] = w]
    BY <1>6 DEF OpenLogsAt, NoLogWindow
  <2>2. pc[p] = "running" /\ pc' = pc
    BY <1>6 DEF OpenLogsAt
  <2>3. \A q \in Editors \ {p} : win'[q] = win[q] /\ logId'[q] = logId[q]
    BY <1>a, <2>1
  <2>4. \A v \in LogWindows : win'[p][v] = IF v = w THEN "open" ELSE win[p][v]
    BY <1>a, <2>1, Constant
  <2>5. \A v \in LogWindows : win[p][v] # "open"
    BY <2>1, <2>2, Constant DEF LogButton
  <2>6. logId'[p] = w
    BY <1>a, <2>1
  <2>7. \A v \in LogWindows : win'[p][v] = "open" <=> logId'[p] = v
    BY <2>4, <2>5, <2>6
  <2> QED BY <1>3, <2>2, <2>3, <2>7
<1>7. ASSUME NEW p \in Editors, NEW w \in Windows, MainClosed(p, w)
      PROVE  LogButton'
  BY <1>a, <1>7 DEF MainClosed, LogButton
<1>8. ASSUME NEW p \in Editors, End(p), pc[p] \in {"running", "exiting"}
      PROVE  LogButton'
  <2>1. pc'[p] = "gone"
    BY <1>8, WaitingCalled, MissedLaunches DEF End
  <2>2. \A q \in Editors \ {p} : win'[q] = win[q] /\ logId'[q] = logId[q]
    BY <1>a, <1>8 DEF End
  <2>3. \A q \in Editors : RunUi(q) => pc'[p] # "gone"
    BY <1>8, <1>a DEF RunUi
  <2> QED BY <1>b, <2>1, <2>2, <2>3 DEF LogButton
<1> QED BY <1>1, <1>2, <1>4, <1>5, <1>6, <1>7, <1>8
        DEF Next, UserStep, WindowStep, StreamStep, vars, windows, Signal, OpenLogs, Unlink, Bind,
            Accept, AcceptFails, External, Captured, Exit, Kill

-----------------------------------------------------------------------------
\* Only an event of a window that is closing can be taken for one of a new main window.
LEMMA OwnMainStep ==
  ASSUME TypeOK, Queued, LogButton, OwnMain, [Next]_vars
  PROVE  OwnMain'
<1>a. /\ pc \in [Editors -> Launches]
      /\ mainId \in [Editors -> Windows \cup {None}]
      /\ \A p \in Editors : pc'[p] = "running" => pc[p] = "running" \/ RunUi(p)
      /\ mode' = mode
  BY WhoRuns, SocketStep DEF TypeOK
<1>1. CASE mainId' = mainId
  BY <1>a, <1>1 DEF OwnMain, RunUi
<1>2. ASSUME NEW p \in Editors, RunUi(p)
      PROVE  OwnMain'
  <2>1. \A q \in Editors : pc'[q] = IF q = p THEN "running" ELSE pc[q]
    BY <1>a, <1>2 DEF RunUi
  <2>2. \A q \in Editors : mainId'[q] = IF q = p THEN Main ELSE mainId[q]
    BY <1>a, <1>2 DEF RunUi
  <2> QED BY <1>a, <2>1, <2>2 DEF OwnMain
<1>3. ASSUME NEW p \in Editors, NEW w \in Windows, Captured(p, w)
      PROVE  OwnMain'
  <2>1. CASE "late" \in mode
    BY <1>a, <2>1 DEF OwnMain
  <2>2. CASE "late" \notin mode
    <3>1. pc[p] = "running" /\ win[p][w] = "open" /\ w # logId[p] /\ w # mainId[p]
      BY <1>3, <2>2 DEF Captured
    <3>2. mainId[p] = Main
      BY <2>2, <3>1 DEF OwnMain
    <3>3. w \in LogWindows
      BY <3>1, <3>2, Constant
    <3> QED BY <3>1, <3>3 DEF LogButton
  <2> QED BY <2>1, <2>2
<1>4. ASSUME NEW p \in Editors, NEW w \in Windows, MainClosed(p, w)
      PROVE  OwnMain'
  <2>1. \A q \in Editors : pc'[q] = IF q = p THEN "exiting" ELSE pc[q]
    BY <1>a, <1>4 DEF MainClosed
  <2>2. \A q \in Editors : mainId'[q] = IF q = p THEN None ELSE mainId[q]
    BY <1>a, <1>4 DEF MainClosed
  <2> QED BY <1>a, <2>1, <2>2 DEF OwnMain
<1>5. ASSUME NEW p \in Editors, End(p), pc[p] \in {"running", "exiting"}
      PROVE  OwnMain'
  <2>1. \A q \in Editors : pc'[q] = "running" => q # p /\ pc[q] = "running"
    <3> DEFINE after == Missed(Waiting(p))
    <3>1. after \in [Editors -> Launches] /\ \A q \in Editors : after[q] \in {"missed", pc[q]}
      BY WaitingCalled, MissedLaunches
    <3>2. pc' = [after EXCEPT ![p] = "gone"]
      BY <1>5 DEF End
    <3> HIDE DEF after
    <3> QED BY <3>1, <3>2
  <2>2. \A q \in Editors : q # p => mainId'[q] = mainId[q]
    BY <1>a, <1>5 DEF End
  <2> QED BY <1>a, <2>1, <2>2 DEF OwnMain
<1> QED BY <1>1, <1>2, <1>3, <1>4, <1>5
        DEF Next, UserStep, WindowStep, StreamStep, vars, windows, Signal, OpenLogs, OpenLogsAt,
            CloseRequested, OtherClosed, Unlink, Bind, Accept, AcceptFails, External, Exit, Kill

-----------------------------------------------------------------------------
\* What the other editors' ends and sockets are after the step of one.
LEMMA Ended ==
  ASSUME TypeOK, Queued, NEW p \in Editors, End(p), Alive(p)
  PROVE  /\ pc'[p] = "gone" /\ sock'[p] = "none"
         /\ \A q \in Editors \ {p} : sock'[q] = sock[q] /\ pc'[q] \in {"missed", pc[q]}
         /\ \A q \in Editors \ {p} : Alive(q) => pc'[q] = pc[q]
<1> DEFINE after == Missed(Waiting(p))
<1>1. /\ after \in [Editors -> Launches]
      /\ \A q \in Editors : after[q] \in {"missed", pc[q]}
      /\ \A q \in Editors : Alive(q) => after[q] = pc[q]
  BY WaitingCalled, MissedLaunches DEF Called, Alive
<1>2. pc' = [after EXCEPT ![p] = "gone"] /\ sock' = [sock EXCEPT ![p] = "none"]
  BY DEF End
<1> HIDE DEF after
<1> QED BY <1>1, <1>2 DEF TypeOK

\* An editor that lives goes on living unless it ends, and has a socket only then.
LEMMA LivingStep ==
  ASSUME TypeOK, Queued, SocketOfLiving, [Next]_vars
  PROVE  SocketOfLiving'
<1>a. /\ pc \in [Editors -> Launches]
      /\ sock \in [Editors -> {"none", "unlinked", "listening", "deaf"}]
  BY DEF TypeOK
<1>1. CASE UNCHANGED <<pc, sock>>
  BY <1>1 DEF SocketOfLiving, Alive
<1>2. ASSUME NEW p \in Editors, Signal(p) \/ RunUi(p)
      PROVE  SocketOfLiving'
  <2>1. sock' = sock /\ \A q \in Editors : q # p => pc'[q] = pc[q]
    BY <1>a, <1>2 DEF Signal, RunUi, socket
  <2>2. sock[p] = "none"
    BY <1>a, <1>2 DEF Signal, RunUi, SocketOfLiving, Alive
  <2> QED BY <2>1, <2>2 DEF SocketOfLiving, Alive
<1>3. ASSUME NEW p \in Editors, Unlink(p) \/ Bind(p)
      PROVE  SocketOfLiving'
  <2>1. pc' = pc /\ pc[p] = "running" /\ \A q \in Editors : q # p => sock'[q] = sock[q]
    BY <1>a, <1>3 DEF Unlink, Bind
  <2> QED BY <2>1 DEF SocketOfLiving, Alive
<1>4. ASSUME NEW p \in Editors, NEW w \in Windows, MainClosed(p, w)
      PROVE  SocketOfLiving'
  BY <1>a, <1>4 DEF MainClosed, SocketOfLiving, Alive
<1>5. ASSUME NEW p \in Editors, AcceptFails(p)
      PROVE  SocketOfLiving'
  <2>1. \A q \in Editors : Alive(q) => pc'[q] = pc[q]
    BY <1>5, WaitingCalled, MissedLaunches DEF AcceptFails, Called, Alive
  <2>2. Alive(p) /\ \A q \in Editors : q # p => sock'[q] = sock[q]
    BY <1>a, <1>5 DEF AcceptFails
  <2> QED BY <2>1, <2>2 DEF SocketOfLiving, Alive
<1>6. ASSUME NEW p \in Editors, External(p)
      PROVE  SocketOfLiving'
  <2>1. PICK s \in {"shown", "missed"} : pc' = [pc EXCEPT ![Head(heard[p])] = s]
    BY <1>6 DEF External
  <2>2. Head(heard[p]) \in Called
    BY <1>6, Queue DEF External, Queued
  <2>3. sock' = sock /\ \A q \in Editors : Alive(q) => pc'[q] = pc[q]
    BY <1>a, <1>6, <2>1, <2>2 DEF External, Called, Alive
  <2> QED BY <2>3 DEF SocketOfLiving, Alive
<1>7. ASSUME NEW p \in Editors, End(p), Alive(p)
      PROVE  SocketOfLiving'
  BY <1>7, Ended DEF SocketOfLiving, Alive
<1> QED BY <1>1, <1>2, <1>3, <1>4, <1>5, <1>6, <1>7
        DEF Next, UserStep, WindowStep, StreamStep, vars, windows, socket, OpenLogs, OpenLogsAt,
            CloseRequested, OtherClosed, Accept, Captured, Exit, Kill, Alive

-----------------------------------------------------------------------------
\* While launches come one at a time and accept() does not fail, there is one
\* editor and its socket bears the name.
LEMMA SoleStep ==
  ASSUME TypeOK, Queued, SocketOfLiving, OneAtATime, SoleEditor, [Next]_vars
  PROVE  OneAtATime' /\ SoleEditor'
<1>a. /\ pc \in [Editors -> Launches]
      /\ sock \in [Editors -> {"none", "unlinked", "listening", "deaf"}]
      /\ mode' = mode
      /\ \A p \in Editors :
           /\ pc'[p] = "running" => pc[p] = "running" \/ RunUi(p)
           /\ pc'[p] = "exiting" => pc[p] = "exiting" \/ \E w \in Windows : MainClosed(p, w)
  BY WhoRuns, SocketStep DEF TypeOK
<1> SUFFICES ASSUME mode \cap {"overlap", "accept"} = {}
             PROVE  /\ \A p, q \in Editors : Alive(p)' /\ Alive(q)' => p = q
                    /\ \A p \in Editors :
                         /\ sock'[p] # "deaf"
                         /\ pc'[p] = "running" /\ sock'[p] = "unlinked" => path' = None
                         /\ pc'[p] = "running" /\ sock'[p] = "listening" => path' = p
  BY <1>a DEF OneAtATime, SoleEditor
<1>b. /\ \A p, q \in Editors : Alive(p) /\ Alive(q) => p = q
      /\ \A p \in Editors :
           /\ sock[p] # "deaf"
           /\ sock[p] # "none" => Alive(p)
           /\ pc[p] = "running" /\ sock[p] = "unlinked" => path = None
           /\ pc[p] = "running" /\ sock[p] = "listening" => path = p
  BY DEF OneAtATime, SoleEditor, SocketOfLiving
<1>c. \A p \in Editors : ~RunUi(p) => (Alive(p)' => Alive(p))
  BY <1>a DEF Alive, MainClosed
<1>1. CASE UNCHANGED <<sock, path>> /\ \A p \in Editors : ~RunUi(p)
  BY <1>a, <1>b, <1>c, <1>1
<1>2. ASSUME NEW p \in Editors, RunUi(p)
      PROVE  /\ \A r, q \in Editors : Alive(r)' /\ Alive(q)' => r = q
             /\ sock' = sock /\ path' = path
             /\ \A q \in Editors : sock[q] = "none"
  <2>1. /\ \A q \in Editors : Alive(q) => Settled(q)
        /\ ~Answers
        /\ sock' = sock /\ path' = path
        /\ pc' = [pc EXCEPT ![p] = "running"]
    BY <1>2 DEF RunUi, socket
  <2>2. \A q \in Editors : ~Alive(q)
    <3> SUFFICES ASSUME NEW q \in Editors, Alive(q)
                 PROVE  FALSE
      OBVIOUS
    <3>1. pc[q] = "running" /\ sock[q] = "listening"
      BY <1>b, <2>1 DEF Settled
    <3>2. path = q
      BY <1>b, <3>1
    <3> QED BY <2>1, <3>1, <3>2, Constant DEF Answers
  <2>3. \A q \in Editors : q # p => pc'[q] = pc[q]
    BY <1>a, <2>1
  <2>4. \A q \in Editors : Alive(q)' => q = p
    BY <2>2, <2>3 DEF Alive
  <2> QED BY <1>b, <2>1, <2>2, <2>4
<1>3. ASSUME NEW p \in Editors, Unlink(p)
      PROVE  /\ pc' = pc /\ pc[p] = "running" /\ path' = None
             /\ sock' = [sock EXCEPT ![p] = "unlinked"]
  BY <1>3 DEF Unlink, Removed
<1>4. ASSUME NEW p \in Editors, Bind(p)
      PROVE  /\ pc' = pc /\ pc[p] = "running" /\ path' = p
             /\ sock' = [sock EXCEPT ![p] = "listening"]
  BY <1>4, <1>b DEF Bind
<1>5. ASSUME NEW p \in Editors, NEW w \in Windows, MainClosed(p, w)
      PROVE  /\ path' = None /\ sock' = sock
             /\ pc[p] = "running" /\ pc' = [pc EXCEPT ![p] = "exiting"]
  BY <1>5 DEF MainClosed
<1>6. ASSUME NEW p \in Editors, End(p), Alive(p), UNCHANGED path
      PROVE  /\ \A q \in Editors : ~Alive(q)'
             /\ \A q \in Editors : sock'[q] = "none"
  <2>1. \A q \in Editors : q # p => ~Alive(q)
    BY <1>b, <1>6
  <2>2. \A q \in Editors : q # p => sock'[q] = "none" /\ ~Alive(q)'
    BY <1>6, <1>b, <2>1, Ended DEF Alive
  <2>3. sock'[p] = "none" /\ ~Alive(p)'
    BY <1>6, Ended DEF Alive
  <2> QED BY <2>2, <2>3
<1>7. CASE \E p \in Editors : RunUi(p)
  BY <1>a, <1>2, <1>7
<1>8. CASE \E p \in Editors : Unlink(p) \/ Bind(p)
  <2>1. PICK p \in Editors : Unlink(p) \/ Bind(p)
    BY <1>8
  <2>2. /\ pc' = pc /\ pc[p] = "running"
        /\ \A q \in Editors : q # p => sock'[q] = sock[q]
        /\ \/ sock'[p] = "unlinked" /\ path' = None
           \/ sock'[p] = "listening" /\ path' = p
    BY <1>a, <1>3, <1>4, <2>1
  <2>3. \A q \in Editors : Alive(q) => q = p
    BY <1>b, <2>2 DEF Alive
  <2>4. \A q \in Editors : Alive(q)' => q = p
    BY <2>2, <2>3 DEF Alive
  <2>5. \A q \in Editors : q # p => sock'[q] = "none"
    BY <1>b, <2>2, <2>3
  <2> QED BY <2>2, <2>4, <2>5
<1>9. CASE \E p \in Editors : \E w \in Windows : MainClosed(p, w)
  <2>1. PICK p \in Editors, w \in Windows : MainClosed(p, w)
    BY <1>9
  <2>2. /\ path' = None /\ sock' = sock /\ pc[p] = "running" /\ pc'[p] = "exiting"
        /\ \A q \in Editors : q # p => pc'[q] = pc[q]
    BY <1>a, <1>5, <2>1
  <2>3. \A q \in Editors : Alive(q) => q = p
    BY <1>b, <2>2 DEF Alive
  <2>4. \A q \in Editors : Alive(q)' => q = p
    BY <2>2, <2>3 DEF Alive
  <2>5. \A q \in Editors : pc'[q] # "running"
    BY <2>2, <2>3 DEF Alive
  <2> QED BY <1>b, <2>2, <2>4, <2>5
<1>10. CASE \E p \in Editors : Exit(p) \/ Kill(p)
  <2>1. PICK p \in Editors : End(p) /\ Alive(p) /\ UNCHANGED path
    BY <1>10 DEF Exit, Kill, Alive
  <2> QED BY <1>6, <2>1
<1>11. \A p \in Editors : ~AcceptFails(p)
  BY DEF AcceptFails
<1> QED BY <1>1, <1>7, <1>8, <1>9, <1>10, <1>11
        DEF Next, UserStep, WindowStep, StreamStep, vars, windows, socket, Signal, OpenLogs, OpenLogsAt,
            CloseRequested, OtherClosed, Accept, External, Captured

-----------------------------------------------------------------------------
\* The inductive invariant.
LEMMA Invariance == Spec => []IInv
<1>1. Init => IInv
  <2> SUFFICES ASSUME Init
               PROVE  IInv
    OBVIOUS
  <2>1. <<>> \in Seq(Editors) /\ <<>> \in Seq(Called)
    OBVIOUS
  <2>2. TypeOK
    BY <2>1, Constant DEF Init, TypeOK, Launches, Circumstances
  <2>3. Queued
    BY <2>1 DEF Init, Queued
  <2> QED BY <2>2, <2>3, Constant
          DEF Init, IInv, Unlaunched, SocketOfLiving, LogButton, OwnMain, OneAtATime, SoleEditor, Alive
<1>2. IInv /\ [Next]_vars => IInv'
  BY TypeStep, QueuedStep, UnlaunchedStep, LivingStep, LogButtonStep, OwnMainStep, SoleStep DEF IInv
<1> QED BY <1>1, <1>2, PTL DEF Spec

\* Editors, sockets and windows keep their types; a running editor has a main
\* window, and a launch waits only where somebody listens.
THEOREM TypeCorrect == Spec => []TypeOK
<1>1. IInv => TypeOK
  BY DEF IInv
<1> QED BY <1>1, Invariance, PTL

\* The Logs button knows the log window that is open, and there is one at most,
\* in every order of requests, answers and window events.
THEOREM OneLogWindow == Spec => []LogButton
<1>1. IInv => LogButton
  BY DEF IInv
<1> QED BY <1>1, Invariance, PTL

\* With launches one at a time there is one editor, and it can be found.
THEOREM OneEditorAtATime == Spec => []SoleEditor
<1>1. IInv => SoleEditor
  BY DEF IInv
<1> QED BY <1>1, Invariance, PTL

\* Closing a window other than the main window does not end the editor, when
\* windows that are closing send no further events.
THEOREM MainWindowEnds == Spec => ExitsWithMainWindow
<1>1. IInv /\ [Next]_vars =>
        [\A p \in Editors :
           pc[p] = "running" /\ pc'[p] = "exiting" /\ "late" \notin mode => win[p][Main] = "closing"]_vars
  <2> SUFFICES ASSUME IInv, [Next]_vars,
                      NEW p \in Editors,
                      pc[p] = "running", pc'[p] = "exiting", "late" \notin mode
               PROVE  win[p][Main] = "closing"
    OBVIOUS
  <2>1. PICK w \in Windows : MainClosed(p, w)
    BY WhoRuns DEF IInv
  <2>2. w = mainId[p] /\ win[p][w] = "closing"
    BY <2>1 DEF MainClosed, IsMain
  <2>3. mainId[p] = Main
    BY DEF IInv, OwnMain
  <2> QED BY <2>2, <2>3
<1> QED BY <1>1, Invariance, PTL DEF Spec, ExitsWithMainWindow

-----------------------------------------------------------------------------
(***************************************************************************)
(* Signals.  SignalIsHandled needs fairness; what it needs of the states   *)
(* is that a launch that has signalled an editor is in that editor's hands *)
(* and in no other's, once, until it is handled.                           *)
(***************************************************************************)
Elems(s) == {s[i] : i \in DOMAIN s}
Once(s) == \A i, j \in DOMAIN s : s[i] = s[j] => i = j

InHand ==
  /\ \A q \in Editors : pc[q] = "signalled" <=> \E p \in Editors : q \in Waiting(p)
  /\ \A p, r \in Editors : p # r => Waiting(p) \cap Waiting(r) = {}
  /\ \A p \in Editors : /\ Once(calls[p]) /\ Once(heard[p])
                        /\ Elems(calls[p]) \cap Elems(heard[p]) = {}
                        /\ Waiting(p) # {} => Alive(p)

\* What joining and leaving a queue does to the launches in it.
LEMMA QueueJoin ==
  ASSUME NEW S, NEW s \in Seq(S), NEW x \in S
  PROVE  /\ Elems(Append(s, x)) = Elems(s) \cup {x}
         /\ Once(s) /\ x \notin Elems(s) => Once(Append(s, x))
<1>1. /\ DOMAIN s = 1..Len(s) /\ Len(s) \in Nat
      /\ DOMAIN Append(s, x) = 1..(Len(s) + 1)
      /\ \A i \in 1..Len(s) : Append(s, x)[i] = s[i]
      /\ Append(s, x)[Len(s) + 1] = x
  OBVIOUS
<1> QED BY <1>1 DEF Elems, Once

LEMMA QueueLeave ==
  ASSUME NEW S, NEW s \in Seq(S), s # <<>>
  PROVE  /\ Elems(s) = Elems(Tail(s)) \cup {Head(s)}
         /\ Once(s) => Once(Tail(s)) /\ Head(s) \notin Elems(Tail(s))
<1>1. /\ DOMAIN s = 1..Len(s) /\ Len(s) \in Nat /\ Len(s) > 0
      /\ DOMAIN Tail(s) = 1..(Len(s) - 1)
      /\ \A i \in 1..(Len(s) - 1) : Tail(s)[i] = s[i + 1]
      /\ Head(s) = s[1]
  OBVIOUS
<1>2. \A i \in 1..Len(s) : i = 1 \/ (i - 1 \in 1..(Len(s) - 1) /\ Tail(s)[i - 1] = s[i])
  <2> SUFFICES ASSUME NEW i \in 1..Len(s), i # 1
               PROVE  i - 1 \in 1..(Len(s) - 1) /\ Tail(s)[i - 1] = s[i]
    OBVIOUS
  <2>1. i - 1 \in 1..(Len(s) - 1) /\ (i - 1) + 1 = i
    BY <1>1
  <2> QED BY <1>1, <2>1
<1>3. Elems(s) \subseteq Elems(Tail(s)) \cup {Head(s)}
  <2>1. ASSUME NEW i \in 1..Len(s)
        PROVE  s[i] \in Elems(Tail(s)) \cup {Head(s)}
    <3>1. CASE i = 1
      BY <1>1, <3>1
    <3>2. CASE i # 1
      BY <1>1, <1>2, <3>2 DEF Elems
    <3> QED BY <3>1, <3>2
  <2> QED BY <1>1, <2>1 DEF Elems
<1>4. Elems(Tail(s)) \cup {Head(s)} \subseteq Elems(s)
  BY <1>1 DEF Elems
<1>5. ASSUME Once(s)
      PROVE  Once(Tail(s)) /\ Head(s) \notin Elems(Tail(s))
  BY <1>1, <1>5 DEF Once, Elems
<1> QED BY <1>3, <1>4, <1>5

LEMMA WaitingIs ==
  ASSUME Queued, NEW p \in Editors
  PROVE  Waiting(p) = Elems(calls[p]) \cup Elems(heard[p])
<1>1. calls[p] \in Seq(Called) /\ heard[p] \in Seq(Called)
  BY DEF Queued
<1>2. Elems(calls[p]) \subseteq Called /\ Elems(heard[p]) \subseteq Called
  BY <1>1, Queue DEF Elems
<1> QED BY <1>2 DEF Waiting, Elems, Called

LEMMA InHandStep ==
  ASSUME TypeOK, Queued, SocketOfLiving, InHand, [Next]_vars
  PROVE  InHand'
<1>0. /\ pc \in [Editors -> Launches]
      /\ calls \in [Editors -> Seq(Called)] /\ heard \in [Editors -> Seq(Called)]
      /\ Called \subseteq Editors
      /\ Queued'
  BY QueuedStep DEF TypeOK, Queued, Called
<1>1. /\ \A p \in Editors : Waiting(p) = Elems(calls[p]) \cup Elems(heard[p])
      /\ \A p \in Editors : Waiting(p)' = Elems(calls'[p]) \cup Elems(heard'[p])
  <2>1. \A p \in Editors : Waiting(p) = Elems(calls[p]) \cup Elems(heard[p])
    BY WaitingIs
  <2>2. ASSUME NEW p \in Editors
        PROVE  Waiting(p)' = Elems(calls'[p]) \cup Elems(heard'[p])
    <3>1. calls'[p] \in Seq(Called') /\ heard'[p] \in Seq(Called') /\ Called' \subseteq Editors
      BY <1>0 DEF Queued, Called
    <3>2. /\ \A i \in DOMAIN calls'[p] : calls'[p][i] \in Editors
          /\ \A i \in DOMAIN heard'[p] : heard'[p][i] \in Editors
      BY <3>1, Queue
    <3> QED BY <3>2 DEF Waiting, Elems
  <2> QED BY <2>1, <2>2
<1>2. Elems(<<>>) = {} /\ Once(<<>>)
  BY DEF Elems, Once
<1>3. ASSUME UNCHANGED <<calls, heard>>,
             \A q \in Editors : pc'[q] = "signalled" <=> pc[q] = "signalled",
             \A q \in Editors : Alive(q) => Alive(q)'
      PROVE  InHand'
  BY <1>1, <1>3 DEF InHand
<1>4. ASSUME NEW p \in Editors, Signal(p)
      PROVE  InHand'
  <2>1. /\ path \in Editors /\ pc[p] = "absent" /\ heard' = heard
        /\ \A q \in Editors : pc'[q] = IF q = p THEN "signalled" ELSE pc[q]
        /\ \A q \in Editors : calls'[q] = IF q = path THEN Append(calls[path], p) ELSE calls[q]
    BY <1>0, <1>4 DEF Signal, Answers, TypeOK, Queued
  <2>2. Alive(path) /\ path # p
    BY <1>4, <2>1 DEF Signal, Answers, SocketOfLiving, Alive
  <2>3. \A q \in Editors : p \notin Elems(calls[q]) \cup Elems(heard[q])
    BY <1>1, <2>1 DEF InHand
  <2>4. /\ Elems(Append(calls[path], p)) = Elems(calls[path]) \cup {p}
        /\ Once(Append(calls[path], p))
    <3>1. calls[path] \in Seq(Editors) /\ Once(calls[path])
      BY <2>1 DEF TypeOK, InHand
    <3> QED BY <2>1, <2>3, <3>1, QueueJoin
  <2>5. \A q \in Editors : Waiting(q)' = IF q = path THEN Waiting(q) \cup {p} ELSE Waiting(q)
    BY <1>1, <2>1, <2>4
  <2>6. \A q \in Editors : q # p => (Alive(q)' <=> Alive(q))
    BY <2>1 DEF Alive
  <2>7. \A q \in Editors : Waiting(q)' # {} => Alive(q)'
    <3>1. \A q \in Editors : Waiting(q) # {} => Alive(q) /\ q # p
      BY <2>1 DEF InHand, Alive
    <3> QED BY <2>2, <2>5, <2>6, <3>1
  <2>8. \A q \in Editors : pc'[q] = "signalled" <=> \E r \in Editors : q \in Waiting(r)'
    BY <2>1, <2>5 DEF InHand
  <2>9. \A q, r \in Editors : q # r => Waiting(q)' \cap Waiting(r)' = {}
    BY <1>1, <2>3, <2>5 DEF InHand
  <2>10. \A q \in Editors : /\ Once(calls'[q]) /\ Once(heard'[q])
                            /\ Elems(calls'[q]) \cap Elems(heard'[q]) = {}
    BY <2>1, <2>3, <2>4 DEF InHand
  <2> QED BY <2>7, <2>8, <2>9, <2>10 DEF InHand
<1>5. ASSUME NEW p \in Editors, Accept(p)
      PROVE  InHand'
  <2> DEFINE h == Head(calls[p])
  <2>1. /\ h \in Editors
        /\ Elems(calls[p]) = Elems(Tail(calls[p])) \cup {h}
        /\ Once(Tail(calls[p])) /\ h \notin Elems(Tail(calls[p]))
    <3>1. calls[p] \in Seq(Editors) /\ calls[p] # <<>> /\ Once(calls[p])
      BY <1>5 DEF Accept, TypeOK, InHand
    <3> QED BY <3>1, Queue, QueueLeave
  <2>2. /\ Elems(Append(heard[p], h)) = Elems(heard[p]) \cup {h}
        /\ Once(Append(heard[p], h))
    <3>1. /\ heard[p] \in Seq(Editors) /\ Once(heard[p])
          /\ h \notin Elems(heard[p])
      BY <2>1 DEF TypeOK, InHand
    <3> QED BY <2>1, <3>1, QueueJoin
  <2>3. /\ pc' = pc
        /\ \A q \in Editors : calls'[q] = IF q = p THEN Tail(calls[p]) ELSE calls[q]
        /\ \A q \in Editors : heard'[q] = IF q = p THEN Append(heard[p], h) ELSE heard[q]
    BY <1>0, <1>5 DEF Accept
  <2> HIDE DEF h
  <2>4. \A q \in Editors : Waiting(q)' = Waiting(q)
    BY <1>1, <2>1, <2>2, <2>3
  <2>5. \A q \in Editors : /\ Once(calls'[q]) /\ Once(heard'[q])
                           /\ Elems(calls'[q]) \cap Elems(heard'[q]) = {}
    BY <2>1, <2>2, <2>3 DEF InHand
  <2> QED BY <2>3, <2>4, <2>5 DEF InHand, Alive
<1>6. ASSUME NEW p \in Editors, AcceptFails(p)
      PROVE  InHand'
  <2> DEFINE S == {q \in Editors : \E i \in DOMAIN calls[p] : calls[p][i] = q}
  <2>1. S = Elems(calls[p]) /\ S \subseteq Called
    <3>1. Elems(calls[p]) \subseteq Editors
      BY <1>0, Queue DEF Elems
    <3> QED BY <3>1, WaitingCalled DEF Elems
  <2>2. /\ pc' = Missed(S) /\ heard' = heard
        /\ \A q \in Editors : calls'[q] = IF q = p THEN <<>> ELSE calls[q]
    BY <1>0, <1>6 DEF AcceptFails
  <2>3. \A q \in Editors : pc'[q] = IF q \in S THEN "missed" ELSE pc[q]
    BY <2>1, <2>2, MissedLaunches
  <2> HIDE DEF S
  <2>4. \A q \in Editors : Waiting(q)' = IF q = p THEN Elems(heard[p]) ELSE Waiting(q)
    BY <1>1, <1>2, <2>2
  <2>5. \A q \in Editors : Waiting(q)' = Waiting(q) \ S
    BY <1>1, <2>1, <2>4 DEF InHand
  <2>6. \A q \in Editors : Alive(q) => Alive(q)'
    BY <2>1, <2>3 DEF Alive, Called
  <2>7. \A q \in Editors : pc'[q] = "signalled" <=> \E r \in Editors : q \in Waiting(r)'
    BY <2>3, <2>5 DEF InHand
  <2>8. \A q \in Editors : /\ Once(calls'[q]) /\ Once(heard'[q])
                           /\ Elems(calls'[q]) \cap Elems(heard'[q]) = {}
    BY <1>2, <2>2 DEF InHand
  <2> QED BY <2>5, <2>6, <2>7, <2>8 DEF InHand
<1>7. ASSUME NEW p \in Editors, External(p)
      PROVE  InHand'
  <2> DEFINE h == Head(heard[p])
  <2>1. /\ h \in Editors /\ h \in Called
        /\ Elems(heard[p]) = Elems(Tail(heard[p])) \cup {h}
        /\ Once(Tail(heard[p])) /\ h \notin Elems(Tail(heard[p]))
    <3>1. heard[p] \in Seq(Called) /\ heard[p] # <<>> /\ Once(heard[p])
      BY <1>0, <1>7 DEF External, InHand
    <3> QED BY <1>0, <3>1, Queue, QueueLeave
  <2>2. /\ calls' = calls
        /\ \E s \in {"shown", "missed"} : \A q \in Editors : pc'[q] = IF q = h THEN s ELSE pc[q]
        /\ \A q \in Editors : heard'[q] = IF q = p THEN Tail(heard[p]) ELSE heard[q]
    BY <1>0, <1>7 DEF External
  <2> HIDE DEF h
  <2>3. h \notin Elems(calls[p])
    BY <2>1 DEF InHand
  <2>4. \A q \in Editors : Waiting(q)' = Waiting(q) \ {h}
    <3>1. h \in Waiting(p)
      BY <1>1, <2>1
    <3>2. \A q \in Editors : q # p => h \notin Waiting(q)
      BY <3>1 DEF InHand
    <3>3. \A q \in Editors : q # p => Waiting(q)' = Waiting(q)
      BY <1>1, <2>2
    <3>4. Waiting(p)' = Waiting(p) \ {h}
      BY <1>1, <2>1, <2>2, <2>3
    <3> QED BY <3>2, <3>3, <3>4
  <2>5. \A q \in Editors : Alive(q) => Alive(q)'
    BY <2>1, <2>2 DEF Alive, Called
  <2>6. \A q \in Editors : pc'[q] = "signalled" <=> \E r \in Editors : q \in Waiting(r)'
    BY <2>2, <2>4 DEF InHand
  <2>7. \A q \in Editors : /\ Once(calls'[q]) /\ Once(heard'[q])
                           /\ Elems(calls'[q]) \cap Elems(heard'[q]) = {}
    BY <2>1, <2>2 DEF InHand
  <2> QED BY <2>4, <2>5, <2>6, <2>7 DEF InHand
<1>8. ASSUME NEW p \in Editors, End(p), Alive(p)
      PROVE  InHand'
  <2>1. /\ \A q \in Editors : calls'[q] = IF q = p THEN <<>> ELSE calls[q]
        /\ \A q \in Editors : heard'[q] = IF q = p THEN <<>> ELSE heard[q]
    BY <1>0, <1>8 DEF End
  <2>2. Waiting(p) \subseteq Called /\ p \notin Called
    BY <1>8, WaitingCalled DEF Called, Alive
  <2>3. \A q \in Editors : pc'[q] = IF q = p THEN "gone" ELSE IF q \in Waiting(p) THEN "missed" ELSE pc[q]
    <3>1. pc' = [Missed(Waiting(p)) EXCEPT ![p] = "gone"]
      BY <1>8 DEF End
    <3> QED BY <2>2, <3>1, MissedLaunches
  <2>4. \A q \in Editors : Waiting(q)' = Waiting(q) \ Waiting(p)
    <3>1. Waiting(p)' = {}
      BY <1>1, <1>2, <2>1
    <3>2. \A q \in Editors : q # p => Waiting(q)' = Waiting(q) /\ Waiting(q) \cap Waiting(p) = {}
      BY <1>1, <2>1 DEF InHand
    <3> QED BY <3>1, <3>2
  <2>5. \A q \in Editors : Waiting(q)' # {} => Alive(q)'
    <3>1. \A q \in Editors : Waiting(q)' # {} => q # p /\ Alive(q)
      BY <2>4 DEF InHand
    <3>2. \A q \in Editors : Alive(q) => q \notin Waiting(p)
      BY <2>2 DEF Alive, Called
    <3> QED BY <2>3, <3>1, <3>2 DEF Alive
  <2>6. \A q \in Editors : pc'[q] = "signalled" <=> \E r \in Editors : q \in Waiting(r)'
    <3>1. pc[p] # "signalled"
      BY <1>8 DEF Alive
    <3>2. \A q \in Editors : pc'[q] = "signalled" <=> pc[q] = "signalled" /\ q \notin Waiting(p)
      BY <2>3, <3>1
    <3> QED BY <2>4, <3>2 DEF InHand
  <2>7. \A q \in Editors : /\ Once(calls'[q]) /\ Once(heard'[q])
                           /\ Elems(calls'[q]) \cap Elems(heard'[q]) = {}
    BY <1>2, <2>1 DEF InHand
  <2> QED BY <2>4, <2>5, <2>6, <2>7 DEF InHand
<1>9. ASSUME NEW p \in Editors, RunUi(p) \/ \E w \in Windows : MainClosed(p, w)
      PROVE  InHand'
  <2>1. /\ UNCHANGED <<calls, heard>>
        /\ \/ pc[p] = "absent" /\ pc' = [pc EXCEPT ![p] = "running"]
           \/ pc[p] = "running" /\ pc' = [pc EXCEPT ![p] = "exiting"]
    BY <1>9 DEF RunUi, MainClosed, socket
  <2> QED BY <1>0, <1>3, <2>1 DEF Alive
<1>10. ASSUME UNCHANGED <<pc, calls, heard>>
       PROVE  InHand'
  BY <1>3, <1>10 DEF Alive
<1> QED BY <1>4, <1>5, <1>6, <1>7, <1>8, <1>9, <1>10
        DEF Next, UserStep, WindowStep, StreamStep, vars, windows, socket, OpenLogs, CloseRequested,
            OpenLogsAt, OtherClosed, Unlink, Bind, Captured, Exit, Kill, Alive

\* A launch that has signalled an editor waits in one place, once, at an editor
\* that lives; one that has been shown or missed waits nowhere, and is not
\* handled again: no signal is lost or answered twice on its way from connect()
\* over accept() to Message::External.
THEOREM SignalsAreInHand == Spec => []InHand
<1>1. Init => InHand
  <2> SUFFICES ASSUME Init PROVE InHand
    OBVIOUS
  <2>1. DOMAIN <<>> = {}
    OBVIOUS
  <2>2. \A p \in Editors : pc[p] = "absent" /\ calls[p] = <<>> /\ heard[p] = <<>>
    BY DEF Init
  <2>3. \A p \in Editors : Waiting(p) = {}
    BY <2>1, <2>2 DEF Waiting
  <2> QED BY <2>1, <2>2, <2>3 DEF InHand, Elems, Once
<1>2. IInv /\ InHand /\ [Next]_vars => InHand'
  BY InHandStep DEF IInv
<1> QED BY <1>1, <1>2, Invariance, PTL DEF Spec
=============================================================================
