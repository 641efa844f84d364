------------------------ MODULE ServiceControlProofs -------------------------
(***************************************************************************)
(* Theorems about ServiceControl, for any number of saves and polls, with  *)
(* every call of launchctl free to fail and launchd free to be late.       *)
(***************************************************************************)
EXTENDS ServiceControl, TLAPS

\* What runs is registered, so that start kicks off nothing that runs.  Unless the
\* editor has missed the daemon, nothing runs while start prepares to kick it off,
\* and a daemon without a pid is still waited for.
Starting == {"bootstrap", "evict", "bootstrapAgain", "kickstart"}
Placed ==
  /\ process # "none" => registered
  /\ call = "kickstart" => registered /\ process = "none"
  /\ call = "bootout" => goal \in {"stop", "restart"}
  /\ ~unseen /\ call \in Starting => process = "none"
  /\ ~unseen /\ process = "starting" => call = "poll"

\* Between launchctl calls, and while stop is under way, a running daemon is
\* shown as running.
Shown ==
  ~unseen /\ call \in {"idle", "bootout"} /\ process = "alive" => service_status = "Running"

\* The daemon has read a version that was saved, and while start waits for it the
\* latest.
Read ==
  /\ version # 0 => process = "alive"
  /\ version <= saved /\ opened <= saved /\ announced <= saved
  /\ call = "poll" => version \in {0, saved}

\* The banner is up, whatever call is under way.
Warned ==
  /\ ~unseen /\ Outdated(saved) => restart_needed
  /\ ~survived /\ Outdated(announced) => restart_needed

IInv == TypeOK /\ Placed /\ Shown /\ Read /\ Warned

-----------------------------------------------------------------------------
\* The bounds as the provers use them.
LEMMA Bounds == MaxSaves \in Nat /\ 1 <= MaxSaves /\ Attempts \in Nat /\ 1 <= Attempts
BY ConstantsAssumption

\* Every step, launchd's and the daemon's included, keeps the types.
LEMMA TypeStep == TypeOK /\ [Next]_vars => TypeOK'
<1> SUFFICES ASSUME TypeOK, [Next]_vars PROVE TypeOK'
  OBVIOUS
<1> USE Bounds DEF TypeOK, Calls, daemon, store, looks, banner, Done, StopFails,
      StartFails, TakenForStopped, BootoutErrors, IsRunning, StatusOf, Looked
<1>1. CASE SaveConfig BY <1>1 DEF SaveConfig, NeedsRestart
<1>2. CASE PollStatus
  <2>1. unseen' \in BOOLEAN
    BY <1>2 DEF PollStatus
  <2> QED BY <1>2, <2>1 DEF PollStatus
<1>3. CASE ToggleOn \/ ToggleOff \/ RestartNow
  BY <1>3 DEF ToggleOn, ToggleOff, RestartNow, Begin
<1>4. CASE ReopenEditor
  <2>1. unseen' \in BOOLEAN /\ survived' \in BOOLEAN /\ restart_needed' \in BOOLEAN
    BY <1>4 DEF ReopenEditor
  <2>2. service_status' \in {"Stopped", "Running"} /\ opened' = saved /\ announced' = 0
    BY <1>4 DEF ReopenEditor
  <2> QED BY <1>4, <2>1, <2>2 DEF ReopenEditor
<1>5. CASE Bootstrap BY <1>5 DEF Bootstrap, Registers
<1>6. CASE Evict
  <2>1. /\ registered' \in BOOLEAN /\ restart_needed' \in BOOLEAN
        /\ unseen' \in BOOLEAN /\ survived' \in BOOLEAN
    BY <1>6 DEF Evict, BootedOut
  <2> QED BY <1>6, <2>1 DEF Evict, BootedOut
<1>7. CASE BootstrapAgain BY <1>7 DEF BootstrapAgain, Registers
<1>8. CASE Kickstart BY <1>8 DEF Kickstart
<1>9. CASE WaitForPid
  <2>1. /\ registered' \in BOOLEAN /\ restart_needed' \in BOOLEAN
        /\ unseen' \in BOOLEAN /\ survived' \in BOOLEAN
    BY <1>9 DEF WaitForPid, LastPoll
  <2> QED BY <1>9, <2>1 DEF WaitForPid, LastPoll
<1>10. CASE Bootout
  <2>1. /\ registered' \in BOOLEAN /\ restart_needed' \in BOOLEAN
        /\ unseen' \in BOOLEAN /\ survived' \in BOOLEAN
    BY <1>10 DEF Bootout, BootedOut, AfterBootout
  <2> QED BY <1>10, <2>1 DEF Bootout, BootedOut, AfterBootout
<1>11. CASE Environment
  <2>1. unseen' \in BOOLEAN /\ survived' \in BOOLEAN
    BY <1>11 DEF Environment, Spawned, DaemonLoads, DaemonDies
  <2> QED BY <1>11, <2>1 DEF Environment, Spawned, DaemonLoads, DaemonDies
<1>12. CASE UNCHANGED vars BY <1>12 DEF vars
<1> QED
  BY <1>1, <1>2, <1>3, <1>4, <1>5, <1>6, <1>7, <1>8, <1>9, <1>10, <1>11, <1>12
  DEF Next, Messages, Launchctl

\* The editor starts with what launchd reports.
LEMMA InitType == Init => TypeOK
<1> SUFFICES ASSUME Init PROVE TypeOK
  OBVIOUS
<1>1. /\ registered \in BOOLEAN /\ restart_needed \in BOOLEAN
      /\ unseen \in BOOLEAN /\ survived \in BOOLEAN
  BY DEF Init
<1>2. service_status \in {"Stopped", "Running"}
  BY DEF Init, StatusOf
<1> QED BY <1>1, <1>2, Bounds DEF Init, TypeOK, Calls

\* Every variable keeps its type; in particular start never polls more often
\* than wait_for_pid is told to.
THEOREM TypeCorrect == Spec => []TypeOK
BY InitType, TypeStep, PTL DEF Spec

-----------------------------------------------------------------------------
\* What is shown follows launchd, and the banner what was saved, through the
\* editor's messages, the calls of launchctl, and the daemon's own steps.
LEMMA BannerStep == IInv /\ [Next]_vars => IInv'
<1> SUFFICES ASSUME IInv, [Next]_vars PROVE IInv'
  OBVIOUS
<1>0. TypeOK'
  BY TypeStep DEF IInv
<1> SUFFICES Placed' /\ Shown' /\ Read' /\ Warned'
  BY <1>0 DEF IInv
<1> USE Bounds DEF IInv, TypeOK, Placed, Starting, Shown, Read, Warned, Outdated, daemon,
      store, looks, banner, Done, StopFails, StartFails, TakenForStopped, BootoutErrors, IsRunning,
      StatusOf, Looked
<1>1. CASE SaveConfig
  <2>1. service_status = "Running" \/ restart_needed => restart_needed' /\ announced' = saved + 1
    BY <1>1 DEF SaveConfig, NeedsRestart
  <2>2. service_status # "Running" /\ ~restart_needed => ~restart_needed' /\ announced' = announced
    BY <1>1 DEF SaveConfig, NeedsRestart
  <2> QED BY <1>1, <2>1, <2>2 DEF SaveConfig
<1>2. CASE PollStatus BY <1>2 DEF PollStatus
<1>3. CASE ToggleOn \/ ToggleOff \/ RestartNow
  BY <1>3 DEF ToggleOn, ToggleOff, RestartNow, Begin
<1>4. CASE ReopenEditor BY <1>4 DEF ReopenEditor
<1>5. CASE Bootstrap BY <1>5 DEF Bootstrap, Registers
<1>6. CASE Evict BY <1>6 DEF Evict, BootedOut
<1>7. CASE BootstrapAgain BY <1>7 DEF BootstrapAgain, Registers
<1>8. CASE Kickstart
  <2>1. /\ registered /\ process = "none" /\ version = 0
        /\ UNCHANGED <<registered, version, store, looks>>
    BY <1>8 DEF Kickstart
  <2>2. CASE process' = "starting" /\ call' = "poll"
    BY <2>1, <2>2
  <2>3. CASE StartFails /\ UNCHANGED daemon
    BY <2>1, <2>3
  <2> QED BY <1>8, <2>2, <2>3 DEF Kickstart
<1>9. CASE WaitForPid BY <1>9 DEF WaitForPid, LastPoll
<1>10. CASE Bootout BY <1>10 DEF Bootout, BootedOut, AfterBootout
<1>11. CASE Environment BY <1>11 DEF Environment, Spawned, DaemonLoads, DaemonDies
<1>12. CASE UNCHANGED vars BY <1>12 DEF vars
<1> QED
  BY <1>1, <1>2, <1>3, <1>4, <1>5, <1>6, <1>7, <1>8, <1>9, <1>10, <1>11, <1>12
  DEF Next, Messages, Launchctl

\* Settings saved while the daemon runs raise the banner unless this editor has
\* missed the daemon, and a banner that was raised stays until what it announces is
\* read or the daemon is gone, unless a stop that failed was reported as done:
\* whatever prints fail, however late launchd is, and whatever else goes wrong.
THEOREM BannerHolds == Spec => []BannerWhenOutdated
<1>1. Init => IInv
  <2> SUFFICES ASSUME Init PROVE Placed /\ Shown /\ Read /\ Warned
    BY InitType DEF IInv
  <2>1. process = "alive" /\ ~unseen => service_status = "Running"
    BY DEF Init, StatusOf
  <2> QED BY <2>1, Bounds DEF Init, Placed, Starting, Shown, Read, Warned, Outdated
<1>2. IInv => BannerWhenOutdated
  BY DEF IInv, Shown, Read, Warned, BannerWhenOutdated, Outdated
<1> QED
  BY <1>1, <1>2, BannerStep, PTL DEF Spec
=============================================================================
