---------------------------- MODULE EditorShell ----------------------------
(***************************************************************************)
(* The settings editor as a set of processes: the single-instance check at *)
(* launch, the show-window socket, the main and the log windows.           *)
(* crates/ferrovela-ui/src: main.rs, ui/controller.rs.                     *)
(*                                                                         *)
(* An editor handles one message at a time.  Messages are produced by the  *)
(* window system, by tasks and by the socket's stream, each in its own     *)
(* order; those of one window reach it in the order they were sent, so     *)
(* that a window is "closing" from the handling of its CloseRequested to   *)
(* the handling of its Closed.                                             *)
(***************************************************************************)
EXTENDS Naturals, Sequences

CONSTANTS
  Editors,      \* the processes that may be launched, each once
  LogWindows,   \* the log windows that may be opened, each once and by one editor
  Modes,        \* the sets of circumstances a behaviour may have
  MaxAsks,      \* bound on the requests for the position of the main window
  None          \* no window, or no editor

Main == "main"
Windows == LogWindows \cup {Main}

\* overlap: an editor may be launched while another starts or closes.
\* accept: accept() may fail.  kill: an editor may be killed.
\* logs: the user may press the Logs button.
\* late: a window that is closing may send further events.
Circumstances == {"overlap", "accept", "kill", "logs", "late"}

ASSUME ConstantsAssumption ==
  /\ Main \notin LogWindows
  /\ None \notin Editors \cup Windows
  /\ Modes \subseteq SUBSET Circumstances
  /\ MaxAsks \in Nat

VARIABLES
  mode,     \* the circumstances of this behaviour
  pc,       \* each launch
  sock,     \* the socket's stream of each editor
  path,     \* the editor whose socket bears the name ui_socket_path()
  calls,    \* the launches in the backlog of each socket
  heard,    \* the External messages on their way to each editor
  win,      \* each editor's windows
  mainId,   \* main_window_id
  logId,    \* log_window_id
  asks      \* positions asked for, whose answers are OpenLogsAt

windows == <<win, mainId, logId, asks>>
socket == <<sock, path, calls, heard>>
vars == <<mode, pc, socket, windows>>

\* signalled: it found an editor, told it to show itself, and exited; shown:
\* the editor did; missed: the editor never got to it.
Launches == {"absent", "running", "exiting", "gone", "signalled", "shown", "missed"}

\* An invariant of the data each variable holds: a running editor has a main
\* window, and launches wait only at a socket that listens.
TypeOK ==
  /\ mode \in SUBSET Circumstances
  /\ pc \in [Editors -> Launches]
  /\ sock \in [Editors -> {"none", "unlinked", "listening", "deaf"}]
  /\ path \in Editors \cup {None}
  /\ calls \in [Editors -> Seq(Editors)]
  /\ heard \in [Editors -> Seq(Editors)]
  /\ win \in [Editors -> [Windows -> {"unused", "open", "closing", "closed"}]]
  /\ mainId \in [Editors -> Windows \cup {None}]
  /\ logId \in [Editors -> LogWindows \cup {None}]
  /\ asks \in [Editors -> Nat]
  /\ \A p \in Editors :
       /\ pc[p] = "running" => mainId[p] # None
       /\ calls[p] # <<>> => sock[p] = "listening"

Init ==
  /\ mode \in Modes
  /\ pc = [p \in Editors |-> "absent"]
  /\ sock = [p \in Editors |-> "none"]
  /\ path = None
  /\ calls = [p \in Editors |-> <<>>]
  /\ heard = [p \in Editors |-> <<>>]
  /\ win = [p \in Editors |-> [w \in Windows |-> "unused"]]
  /\ mainId = [p \in Editors |-> None]
  /\ logId = [p \in Editors |-> None]
  /\ asks = [p \in Editors |-> 0]

Alive(p) == pc[p] \in {"running", "exiting"}

\* Neither starting nor closing.
Settled(p) == pc[p] = "running" /\ sock[p] \in {"listening", "deaf"} /\ win[p][Main] = "open"

-----------------------------------------------------------------------------
(***************************************************************************)
(* Launching.                                                              *)
(***************************************************************************)
\* Mutant of Answers: the file of an editor that is gone answers too.
FileExists == path # None
Answers == path # None /\ sock[path] = "listening"

\* main(): connect() to the socket succeeds as soon as the editor listens, and
\* the launched process exits; otherwise it runs the editor.
Signal(p) ==
  /\ pc[p] = "absent"
  /\ "overlap" \in mode \/ \A q \in Editors : Alive(q) => Settled(q)
  /\ Answers
  /\ calls' = [calls EXCEPT ![path] = Append(@, p)]
  /\ pc' = [pc EXCEPT ![p] = "signalled"]
  /\ UNCHANGED <<mode, sock, path, heard, windows>>

RunUi(p) ==
  /\ pc[p] = "absent"
  /\ "overlap" \in mode \/ \A q \in Editors : Alive(q) => Settled(q)
  /\ ~Answers
  /\ pc' = [pc EXCEPT ![p] = "running"]
  /\ win' = [win EXCEPT ![p][Main] = "open"]
  /\ mainId' = [mainId EXCEPT ![p] = Main]
  /\ UNCHANGED <<mode, socket, logId, asks>>

-----------------------------------------------------------------------------
(***************************************************************************)
(* The socket's stream.                                                    *)
(***************************************************************************)
\* Mutant of Removed: a name that is left over stays.
LeftOver == path
Removed == None

\* remove_file, whoever's socket it is.
Unlink(p) ==
  /\ pc[p] = "running"
  /\ sock[p] = "none"
  /\ path' = Removed
  /\ sock' = [sock EXCEPT ![p] = "unlinked"]
  /\ UNCHANGED <<mode, pc, calls, heard, windows>>

\* bind fails on a name that is taken, and the stream stays silent.
Bind(p) ==
  /\ pc[p] = "running"
  /\ sock[p] = "unlinked"
  /\ path' = IF path = None THEN p ELSE path
  /\ sock' = [sock EXCEPT ![p] = IF path = None THEN "listening" ELSE "deaf"]
  /\ UNCHANGED <<mode, pc, calls, heard, windows>>

Accept(p) ==
  /\ Alive(p)
  /\ sock[p] = "listening"
  /\ calls[p] # <<>>
  /\ heard' = [heard EXCEPT ![p] = Append(@, Head(calls[p]))]
  /\ calls' = [calls EXCEPT ![p] = Tail(@)]
  /\ UNCHANGED <<mode, pc, sock, path, windows>>

\* The launches that still wait for editor p.
Waiting(p) == {q \in Editors : \E s \in {calls[p], heard[p]} : \E i \in DOMAIN s : s[i] = q}
Missed(launches) == [q \in Editors |-> IF q \in launches THEN "missed" ELSE pc[q]]

\* An error ends the stream: the listener is closed, its file stays.
AcceptFails(p) ==
  /\ "accept" \in mode
  /\ Alive(p)
  /\ sock[p] = "listening"
  /\ sock' = [sock EXCEPT ![p] = "deaf"]
  /\ pc' = Missed({q \in Editors : \E i \in DOMAIN calls[p] : calls[p][i] = q})
  /\ calls' = [calls EXCEPT ![p] = <<>>]
  /\ UNCHANGED <<mode, path, heard, windows>>

\* Message::External: un-minimize and focus main_window_id.  A window that is
\* closing does not come to the front.
External(p) ==
  /\ pc[p] = "running"
  /\ heard[p] # <<>>
  /\ mainId[p] # None
  /\ heard' = [heard EXCEPT ![p] = Tail(@)]
  /\ pc' = [pc EXCEPT ![Head(heard[p])] = IF win[p][mainId[p]] = "open" THEN "shown" ELSE "missed"]
  /\ UNCHANGED <<mode, sock, path, calls, windows>>

-----------------------------------------------------------------------------
(***************************************************************************)
(* Windows.                                                                *)
(***************************************************************************)
\* The button asks for the main window's position first; while a log window is
\* open it only focuses it.
OpenLogs(p) ==
  /\ "logs" \in mode
  /\ pc[p] = "running"
  /\ win[p][Main] = "open"
  /\ logId[p] = None
  /\ asks[p] < MaxAsks
  /\ asks' = [asks EXCEPT ![p] = @ + 1]
  /\ UNCHANGED <<mode, pc, socket, win, mainId, logId>>

\* Mutant of NoLogWindow: the answer is not checked against log_window_id.
Unchecked(p) == TRUE
NoLogWindow(p) == logId[p] = None

\* The answer, which finds a log window if the button was pressed twice.  (A
\* main window that is gone has no position, and asking for it no answer: the
\* step is one the program may take, not one it must.)
OpenLogsAt(p) ==
  /\ pc[p] = "running"
  /\ asks[p] > 0
  /\ asks' = [asks EXCEPT ![p] = @ - 1]
  /\ \/ /\ NoLogWindow(p)
        /\ \E w \in LogWindows :
             /\ \A q \in Editors : win[q][w] = "unused"
             /\ win' = [win EXCEPT ![p][w] = "open"]
             /\ logId' = [logId EXCEPT ![p] = w]
     \/ /\ ~NoLogWindow(p)
        /\ UNCHANGED <<win, logId>>
  /\ UNCHANGED <<mode, pc, socket, mainId>>

\* Mutant of LogAfterRequest: the id is kept until the window has closed.
KeepLog(p, w) == logId[p]
LogAfterRequest(p, w) == IF logId[p] = w THEN None ELSE logId[p]

CloseRequested(p, w) ==
  /\ pc[p] = "running"
  /\ win[p][w] = "open"
  /\ win' = [win EXCEPT ![p][w] = "closing"]
  /\ logId' = [logId EXCEPT ![p] = LogAfterRequest(p, w)]
  /\ UNCHANGED <<mode, pc, socket, mainId, asks>>

\* Mutant of IsMain: any window that is not the log window ends the program.
NotLog(p, w) == w # logId[p]
IsMain(p, w) == w # logId[p] /\ w = mainId[p]

\* Closed of main_window_id removes the socket's file and exits.
MainClosed(p, w) ==
  /\ pc[p] = "running"
  /\ win[p][w] = "closing"
  /\ IsMain(p, w)
  /\ win' = [win EXCEPT ![p][w] = "closed"]
  /\ mainId' = [mainId EXCEPT ![p] = None]
  /\ path' = None
  /\ pc' = [pc EXCEPT ![p] = "exiting"]
  /\ UNCHANGED <<mode, sock, calls, heard, logId, asks>>

OtherClosed(p, w) ==
  /\ pc[p] = "running"
  /\ win[p][w] = "closing"
  /\ ~IsMain(p, w)
  /\ win' = [win EXCEPT ![p][w] = "closed"]
  /\ logId' = [logId EXCEPT ![p] = IF @ = w THEN None ELSE @]
  /\ UNCHANGED <<mode, pc, socket, mainId, asks>>

\* Any other event of a window that is neither's: IdCaptured.
Captured(p, w) ==
  /\ pc[p] = "running"
  /\ win[p][w] = "open" \/ (win[p][w] = "closing" /\ "late" \in mode)
  /\ w \notin {logId[p], mainId[p]}
  /\ mainId' = [mainId EXCEPT ![p] = w]
  /\ UNCHANGED <<mode, pc, socket, win, logId, asks>>

-----------------------------------------------------------------------------
(***************************************************************************)
(* The end of an editor.                                                   *)
(***************************************************************************)
\* iced::exit has been asked for; an External handled before it takes effect
\* opens a window that goes with the process.
End(p) ==
  /\ pc' = [Missed(Waiting(p)) EXCEPT ![p] = "gone"]
  /\ sock' = [sock EXCEPT ![p] = "none"]
  /\ calls' = [calls EXCEPT ![p] = <<>>]
  /\ heard' = [heard EXCEPT ![p] = <<>>]
  /\ win' = [win EXCEPT ![p] = [w \in Windows |-> IF @[w] = "unused" THEN @[w] ELSE "closed"]]
  /\ asks' = [asks EXCEPT ![p] = 0]
  /\ logId' = [logId EXCEPT ![p] = None]
  /\ mainId' = [mainId EXCEPT ![p] = None]

Exit(p) ==
  /\ pc[p] = "exiting"
  /\ End(p)
  /\ UNCHANGED <<mode, path>>

\* The file stays behind.
Kill(p) ==
  /\ "kill" \in mode
  /\ pc[p] = "running"
  /\ End(p)
  /\ UNCHANGED <<mode, path>>

-----------------------------------------------------------------------------
UserStep(p) ==
  \/ Signal(p) \/ RunUi(p)
  \/ OpenLogs(p)
  \/ \E w \in Windows : CloseRequested(p, w)

WindowStep(p) ==
  \/ OpenLogsAt(p)
  \/ \E w \in Windows : MainClosed(p, w) \/ OtherClosed(p, w)

StreamStep(p) == Unlink(p) \/ Bind(p) \/ Accept(p)

Next ==
  \E p \in Editors :
    \/ UserStep(p) \/ WindowStep(p) \/ StreamStep(p)
    \/ \E w \in Windows : Captured(p, w)
    \/ External(p) \/ AcceptFails(p) \/ Exit(p) \/ Kill(p)

Spec == Init /\ [][Next]_vars

\* The runtime polls the stream and hands on its messages, tasks answer,
\* windows that are to close do, and exit takes effect.
FairSpec ==
  /\ Spec
  /\ \A p \in Editors : /\ WF_vars(WindowStep(p))
                        /\ WF_vars(StreamStep(p))
                        /\ WF_vars(External(p))
                        /\ WF_vars(Exit(p))

-----------------------------------------------------------------------------
(***************************************************************************)
(* Properties.                                                             *)
(***************************************************************************)
\* CHANGELOG.md:49: the Logs button is highlighted when the log window is open;
\* and there is one at most, however often it is pressed, closed and opened.
LogButton ==
  \A p \in Editors : pc[p] = "running" =>
    \A w \in LogWindows : win[p][w] = "open" <=> logId[p] = w

\* Closing the log window leaves the editor running, unless a window that is
\* closing still has events to send: one of those makes it the main window.
ExitsWithMainWindow ==
  [][\A p \in Editors :
       pc[p] = "running" /\ pc'[p] = "exiting" /\ "late" \notin mode => win[p][Main] = "closing"]_vars

\* With launches one at a time there is one editor, and the name of the
\* socket leads to it: the next launch will find it, also after editors have
\* been killed or closed.
SoleEditor ==
  mode \cap {"overlap", "accept"} = {} =>
    /\ \A p, q \in Editors : Alive(p) /\ Alive(q) => p = q
    /\ \A p \in Editors : pc[p] = "running" /\ sock[p] = "listening" => path = p

\* main.rs:21-23: a launch while another editor runs signals it and exits.
\* Refuted when they start together: the second connects before the first has
\* bound its socket, or after another has removed its name.
OneEditor == \A p, q \in Editors : pc[p] = "running" /\ pc[q] = "running" => p = q

\* A launch that has signalled an editor brings its window to the front, unless
\* that editor closes, is killed or stops accepting.
SignalIsHandled ==
  \A p \in Editors : pc[p] = "signalled" ~> pc[p] \in {"shown", "missed"}
=============================================================================
