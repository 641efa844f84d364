--------------------------- MODULE ServiceControl ----------------------------
(***************************************************************************)
(* The editor's control of the daemon: start, stop and is_running of       *)
(* crates/ferrovela-lib/src/launchd.rs, and what ferrovela-ui/src/ui/      *)
(* controller.rs makes of them: the service status, polled every three     *)
(* seconds, and the banner that asks for a restart.                        *)
(*                                                                         *)
(* start and stop block the editor, so that it handles no other message    *)
(* meanwhile; launchd and the daemon go on.  The daemon reads the          *)
(* preferences once, some time after it was spawned.  A saved              *)
(* configuration is a version number.  Every call of launchctl may fail,   *)
(* the print behind the status included, and launchd may be late.          *)
(***************************************************************************)
EXTENDS Integers

CONSTANTS
  MaxSaves,       \* bound on the versions saved
  Attempts        \* polls of wait_for_pid: 10 in the code

ASSUME ConstantsAssumption ==
  /\ MaxSaves \in Nat \ {0}
  /\ Attempts \in Nat \ {0}

VARIABLES
  registered,       \* does launchd's domain hold the service?
  process,          \* the daemon: "none", "starting" (no pid yet) or "alive"
  version,          \* the configuration it has read, 0 before it has
  saved,            \* the version in the preferences
  opened,           \* the version saved when the editor was opened (history)
  announced,        \* the last version saved with the banner raised (history)
  unseen,           \* has this editor taken this daemon for stopped? (history)
  survived,         \* has it outlived a stop reported as done? (history)
  service_status,
  restart_needed,
  call,             \* the launchctl call in progress, "idle" if there is none
  goal,             \* the handler that makes it: "start", "stop" or "restart"
  polls             \* polls of wait_for_pid made

daemon == <<registered, process, version>>
store  == <<saved, opened, announced>>
looks  == <<unseen, survived>>
banner == <<service_status, restart_needed>>
vars == <<daemon, store, looks, banner, call, goal, polls>>

\* How launchctl bootout may fail: with a text that has "3:" in it, or another.
BootoutErrors == {"other", "ends_in_3"}

Calls == {"idle", "bootstrap", "evict", "bootstrapAgain", "kickstart", "poll", "bootout"}

\* An invariant of the data each variable holds.
TypeOK ==
  /\ registered \in BOOLEAN
  /\ process \in {"none", "starting", "alive"}
  /\ saved \in 1..MaxSaves /\ opened \in 1..MaxSaves /\ version \in 0..MaxSaves
  /\ announced \in 0..MaxSaves
  /\ unseen \in BOOLEAN /\ survived \in BOOLEAN
  /\ service_status \in {"Stopped", "Running"}
  /\ restart_needed \in BOOLEAN
  /\ call \in Calls
  /\ goal \in {"start", "stop", "restart"}
  /\ polls \in 0..(Attempts - 1)

\* is_running may return seen: launchd reports a pid.  A print that fails looks
\* like a daemon that is not there.
IsRunning(seen) == seen => process = "alive"
StatusOf(seen) == IF seen THEN "Running" ELSE "Stopped"

\* A look that does not find the daemon that is there.
Looked(seen) == unseen' = (unseen \/ (~seen /\ process # "none"))

Init ==
  /\ registered \in BOOLEAN
  /\ process \in {"none", "alive"}
  /\ process = "alive" => registered
  /\ saved = 1 /\ opened = 1
  /\ version = IF process = "alive" THEN 1 ELSE 0
  /\ announced = 0 /\ survived = FALSE
  /\ \E seen \in BOOLEAN :
       /\ IsRunning(seen)
       /\ service_status = StatusOf(seen)
       /\ unseen = (~seen /\ process # "none")
  /\ restart_needed = FALSE
  /\ call = "idle" /\ goal = "start" /\ polls = 0

-----------------------------------------------------------------------------
(***************************************************************************)
(* Messages of the editor.                                                 *)
(***************************************************************************)
NeedsRestart == restart_needed \/ service_status = "Running"

SaveConfig ==
  /\ call = "idle" /\ saved < MaxSaves
  /\ saved' = saved + 1
  /\ restart_needed' = NeedsRestart
  /\ announced' = IF NeedsRestart THEN saved + 1 ELSE announced
  /\ UNCHANGED <<daemon, opened, looks, service_status, call, goal, polls>>

PollStatus ==
  /\ call = "idle"
  /\ \E seen \in BOOLEAN :
       /\ IsRunning(seen)
       /\ service_status' = StatusOf(seen)
       /\ Looked(seen)
  /\ UNCHANGED <<daemon, store, survived, restart_needed, call, goal, polls>>

Begin(handler, first) ==
  /\ call = "idle"
  /\ call' = first
  /\ goal' = handler
  /\ UNCHANGED <<daemon, store, looks, banner, polls>>

ToggleOn   == service_status = "Stopped" /\ Begin("start", "bootstrap")
ToggleOff  == service_status = "Running" /\ Begin("stop", "bootout")
RestartNow == service_status = "Running" /\ restart_needed /\ Begin("restart", "bootout")

\* The editor is closed and opened again: it knows what launchd reports.
ReopenEditor ==
  /\ call = "idle"
  /\ opened' = saved /\ announced' = 0
  /\ \E seen \in BOOLEAN :
       /\ IsRunning(seen)
       /\ service_status' = StatusOf(seen)
       /\ unseen' = (~seen /\ process # "none")
  /\ survived' = FALSE
  /\ restart_needed' = FALSE
  /\ UNCHANGED <<daemon, saved, call, goal, polls>>

-----------------------------------------------------------------------------
(***************************************************************************)
(* What the handlers make of a result.                                     *)
(***************************************************************************)
Done(status) ==
  /\ call' = "idle"
  /\ service_status' = status
  /\ restart_needed' = FALSE

\* Mutant of StopFails: the banner is taken down although nothing was stopped.
DismissBanner == call' = "idle" /\ restart_needed' = FALSE /\ UNCHANGED service_status
StopFails == call' = "idle" /\ UNCHANGED banner

\* A restart that cannot start leaves the service stopped.
StartFails ==
  /\ call' = "idle"
  /\ service_status' = IF goal = "restart" THEN "Stopped" ELSE service_status
  /\ UNCHANGED restart_needed

-----------------------------------------------------------------------------
(***************************************************************************)
(* start.                                                                  *)
(***************************************************************************)
Registers(next) == registered' = TRUE /\ call' = next /\ UNCHANGED <<process, version, banner>>

\* Error 37, already registered, leads to the eviction.
Bootstrap ==
  /\ call = "bootstrap"
  /\ \/ ~registered /\ Registers("kickstart")
     \/ registered /\ call' = "evict" /\ UNCHANGED <<daemon, banner>>
     \/ StartFails /\ UNCHANGED daemon
  /\ UNCHANGED <<store, looks, goal, polls>>

\* launchctl bootout removes the service and ends its process.
BootedOut ==
  /\ registered' = FALSE
  /\ process' = "none"
  /\ version' = 0
  /\ unseen' = FALSE /\ survived' = FALSE

\* bootout_service takes an error whose text has "3:" for a service that was
\* not registered.
TakenForStopped(error) == error = "ends_in_3"

Evict ==
  /\ call = "evict"
  /\ \/ BootedOut /\ call' = "bootstrapAgain" /\ UNCHANGED banner
     \/ \E e \in BootoutErrors :
          /\ \/ /\ TakenForStopped(e)
                /\ call' = "bootstrapAgain"
                /\ Looked(FALSE)
                /\ UNCHANGED banner
             \/ ~TakenForStopped(e) /\ StartFails /\ UNCHANGED unseen
          /\ UNCHANGED <<daemon, survived>>
  /\ UNCHANGED <<store, goal, polls>>

BootstrapAgain ==
  /\ call = "bootstrapAgain"
  /\ \/ ~registered /\ Registers("kickstart")
     \/ StartFails /\ UNCHANGED daemon
  /\ UNCHANGED <<store, looks, goal, polls>>

Kickstart ==
  /\ call = "kickstart"
  /\ \/ /\ process' = "starting"
        /\ call' = "poll"
        /\ polls' = 0
        /\ UNCHANGED <<registered, version, banner>>
     \/ StartFails /\ UNCHANGED <<daemon, polls>>
  /\ UNCHANGED <<store, looks, goal>>

\* Mutant of LastPoll: one poll too many.
OnePollMore == polls = Attempts
LastPoll == polls + 1 = Attempts

\* The last poll may be too early for launchd.
WaitForPid ==
  /\ call = "poll"
  /\ \E seen \in BOOLEAN :
       /\ IsRunning(seen)
       /\ \/ seen /\ Done("Running") /\ UNCHANGED <<polls, unseen>>
          \/ ~seen /\ LastPoll /\ StartFails /\ Looked(FALSE) /\ UNCHANGED polls
          \/ ~seen /\ ~LastPoll /\ polls' = polls + 1 /\ UNCHANGED <<call, banner, unseen>>
  /\ UNCHANGED <<daemon, store, survived, goal>>

-----------------------------------------------------------------------------
(***************************************************************************)
(* stop, alone or as the first half of a restart.                          *)
(***************************************************************************)
AfterBootout ==
  \/ goal = "stop" /\ Done("Stopped")
  \/ goal = "restart" /\ call' = "bootstrap" /\ UNCHANGED banner

Bootout ==
  /\ call = "bootout"
  /\ \/ BootedOut /\ AfterBootout
     \/ \E e \in BootoutErrors :
          /\ \/ /\ TakenForStopped(e)
                /\ AfterBootout
                /\ Looked(FALSE)
                /\ survived' = (survived \/ (goal = "stop" /\ process # "none"))
             \/ ~TakenForStopped(e) /\ StopFails /\ UNCHANGED looks
          /\ UNCHANGED daemon
  /\ UNCHANGED <<store, goal, polls>>

-----------------------------------------------------------------------------
(***************************************************************************)
(* launchd and the daemon.                                                 *)
(***************************************************************************)
Spawned ==
  /\ process = "starting"
  /\ process' = "alive"
  /\ UNCHANGED <<registered, version, store, looks, banner, call, goal, polls>>

DaemonLoads ==
  /\ process = "alive" /\ version = 0
  /\ version' = saved
  /\ UNCHANGED <<registered, process, store, looks, banner, call, goal, polls>>

\* KeepAlive is off: a daemon that dies stays dead, and registered.
DaemonDies ==
  /\ process # "none"
  /\ process' = "none"
  /\ version' = 0
  /\ unseen' = FALSE /\ survived' = FALSE
  /\ UNCHANGED <<registered, store, banner, call, goal, polls>>

-----------------------------------------------------------------------------
Messages == SaveConfig \/ PollStatus \/ ToggleOn \/ ToggleOff \/ RestartNow \/ ReopenEditor
Launchctl == Bootstrap \/ Evict \/ BootstrapAgain \/ Kickstart \/ WaitForPid \/ Bootout
Environment == Spawned \/ DaemonLoads \/ DaemonDies

Next == Messages \/ Launchctl \/ Environment

Spec == Init /\ [][Next]_vars

-----------------------------------------------------------------------------
\* A daemon runs with settings older than those saved as v, by this editor.
Outdated(v) == version # 0 /\ version < v /\ opened < v

\* README.md:31: settings changed while the service runs raise the banner.  They
\* do unless this editor has missed the daemon: a print failed, the pid came after
\* the last poll, or a failed bootout was taken for a stopped service.  Then a save
\* made while the service is shown as stopped raises none.  A banner once raised
\* stays until the daemon has read what it announces or is gone, even if the daemon
\* is missed later; only a stop reported as done that left the daemon running takes
\* it down.  Changes saved before the editor was opened are not announced.
BannerWhenOutdated ==
  /\ call = "idle" /\ Outdated(saved) /\ ~unseen =>
       restart_needed /\ service_status = "Running"
  /\ Outdated(announced) /\ ~survived => restart_needed
=============================================================================
