# A TLA+ model of FerroVela

FerroVela is a local HTTP proxy for macOS. It accepts plain HTTP and CONNECT
requests on a loopback port and sends them on: directly, through a configured
upstream proxy, or through the proxy a PAC file names, authenticating with
Basic, NTLM or Kerberos where the upstream asks for it. A settings editor
writes the preferences the daemon reads, and controls the daemon through
launchd.

This directory holds TLA+ modules for the parts of the program whose behaviour
depends on order, concurrency or failure, the TLC configurations that check
them on small instances, and TLAPS proofs for the properties that matter most.
`PROJECT.json` lists components, runs, mutants, the map from definitions to
source lines, hazards, findings and theorems.

    tlc -workers 2 -config AuthTunnel.cfg MCAuthTunnel.tla    # a run
    tlapm PacEngineProofs.tla                                 # the proofs of a module

Paths below are relative to `src/crates/ferrovela-lib/src/` unless they start
with a crate's name.

## 1. Inventory

| Component | Source | State it keeps | Operations | Hard behaviours | What makes it correct |
|---|---|---|---|---|---|
| Upstream CONNECT handshake | `proxy/auth_tunnel.rs`, `proxy/http_utils.rs` | one TCP stream, round, last status and challenge | connect, send CONNECT, read headers, drain the body, step the session | reads that straddle messages, a peer that closes or stalls, bodies of undeclared length | acts on the last answer only; never writes into a tunnel; hands over only a tunnel; terminates |
| Authentication sessions | `auth/{mod,basic,ntlm,kerberos}.rs` | `NtlmState`; the GSSAPI context | `step(challenge)` | order of NTLM messages on one connection, foreign challenges | each message once and in order, only in reply to a challenge |
| PAC worker pool | `pac.rs:286-424` | `next_worker`, per worker: channel, deadline | `find_proxy`, worker loop, interrupt handler | full channel, concurrent callers, cancelled callers, looping scripts, dead workers | everyone gets their own answer; nobody waits for ever |
| PAC loading, PAC helper functions | `pac.rs:37-283` | none | fetch, resolve, validate; string helpers | limits on size | a broken script is refused before workers start |
| Routing and SSRF guard | `proxy/mod.rs:619-653`, `proxy/ssrf.rs`, `config.rs:117-152` | none (configuration is fixed at start) | `resolve_proxy`, `is_private_target`, `matches` | PAC errors and unexpected answers | exceptions before PAC before static; no private address directly |
| CONNECT service | `proxy/mod.rs:44-209` | `ConnectRouting` between two tasks | answer, upgrade, dial or handshake, copy both ways | decision and connection in different tasks; half-closed tunnels | refused requests stop; tunnels end where the configuration says and lose nothing on the way |
| Plain HTTP service | `proxy/mod.rs:211-446` | one request's buffers | resolve, guard, dial, write, read to the end, parse | partial responses, resets, dropped bodies | the client gets what the server sent and nothing else; passwords go to the proxy only |
| Start-up, daemon | `proxy/mod.rs:457-558`, `ferrovela/src/main.rs` | none | load configuration and PAC, bind | a PAC file that does not load | |
| Configuration store | `config.rs` | CFPreferences | `load_config`, `save_config` | partial saves, wrong types | what is saved is what is loaded |
| Settings editor | `ferrovela-ui/src/ui/{controller,model,auth,view}.rs`, `ferrovela-ui/src/main.rs` | form, errors, status, restart flag, lock, windows, socket | one message at a time; asynchronous unlock, polls, window events | late results, stale status, event order, two instances | no invalid address is saved; the lock holds; the banner is shown when a restart is due; one editor, one log window; it ends with its main window |
| Service control | `launchd.rs` | launchd's registration | `start`, `stop`, `is_running` | stale registrations, late or short-lived processes | `Ok` means running, or gone |
| Rotating logger | `logger.rs` | open file, counter, backups | `log`, `rotate` | failing renames, restarts, stops between system calls | files are bounded; lines stay in order; the oldest go first |

How they interact. rama's server calls `ConnectResponder` or
`plain_http_handler` per request; both await `resolve_proxy`, which awaits
`PacEngine::find_proxy`. The responder leaves its decision in the upgraded
connection's extensions; `ConnectHandler`, a task of its own, reads it and
calls `perform_authenticated_connect` or dials. The daemon reads preferences
once at start; the editor writes them and restarts the daemon through launchd. A
second launch of the editor connects to the first one's socket, which is its
request to be shown. The daemon's logger writes the file whose end the editor's
log window reads.

## 2. Modules

| Module | Models | Kind |
|---|---|---|
| `ConnectService` | what the handshake promises its caller | abstract specification |
| `AuthTunnel` | the handshake on one connection, and the sessions | state machine; implements `ConnectService` |
| `PacService` | what the worker pool promises who awaits `find_proxy` | abstract specification |
| `PacEngine` | the worker pool | state machine; implements `PacService` |
| `Routing` | routing, guard, credentials as functions of configuration and target | operators |
| `ConnectFlow` | one CONNECT from request to the end of its tunnel | state machine over `Routing`; composes `ConnectService` |
| `PlainHttp` | one plain request | state machine over `Routing` |
| `SettingsEditor` | the form, the preferences, the keychain, the Advanced lock | state machine |
| `ServiceControl` | start, stop and status of the daemon, the restart banner | state machine |
| `EditorShell` | the editor's processes: launches, the show-window socket, main and log windows | state machine |
| `KeptLog` | what a rotating log promises its reader | abstract specification |
| `RotatingLog` | the log file and its backups, call by call | state machine; implements `KeptLog` |
| `MC*` | constants for TLC | |
| `*Proofs` | theorems about the module of that name | |

The modules are composed by promise. `ConnectFlow` takes the handshake's
variables and actions from `ConnectService`, which `AuthTunnel` is shown (by TLC
and by proof) to implement; and it takes `find_proxy` as an await that returns
one of `PacAnswers`. That a call returns, with the outcome of its own script run or
because its worker is dead, is what `PacEngine` shows by implementing `PacService`
and by `EveryCallReturns`.

### AuthTunnel

Each variable is a local of `perform_authenticated_connect` or of what it calls
(`round`, `status`, `chal`, `buf`, `need`, the session in `sess`), a ghost
(`sent`, `paid`, `resp`), or the environment's. `pc` names the await the
function is at. The unit of the stream is a *cell*: `h`/`e` header bytes
(`e` holds the blank line), `b`/`x` body bytes (`x` holds a blank line, as the
end of a chunked body does), `p` tunnel bytes. `ReadHeaders` is one `read()`:
any non-empty prefix of what has arrived up to `Chunk` cells, whatever lies
behind the blank line; the size limit is tested after the search, as in the
code. `DrainBody` is one step of `read_exact`. `Decide` is the top of the loop
and its two exits, `StepSession` the call of `step` and what is done with it.

The proxy, the network and GSSAPI are outside the repository. With
`faulty = FALSE` the proxy follows its scheme and accepts the credentials; with
`faulty = TRUE` it answers any status, challenge, header length and body, or
nothing, and drops the connection whenever it likes.

A body that no Content-Length declares (a chunked error page) stays in front of the next
answer, and a read may leave any suffix of it there. `parse_status` fails on such text
(`Unparsable`) unless its first line has a number as its second word, as in "Error 407
..."; `Misread` is the step that takes it for an answer, with any status, and with a challenge
and a length from whatever text follows. `misled` remembers it. After that reads and
responses are out of step, and the environment answers with short responses only, since
what they hold no longer matters; every property says what still holds then. Two assumptions
about data remain: page text or tunnel bytes that are read together with a header hold no line that
reads as a Proxy-Authenticate or Content-Length field the header lacks, and tunnel bytes
hold no blank line, which matters only once the call is misled.

### PacEngine

A caller is one `find_proxy` future: picked worker, waiting for capacity,
waiting for the oneshot, done, or dropped by the server (`Cancel`). A worker is
starting, idle, evaluating or dead. tokio's channel is modelled by its
guarantees: senders that find it full are admitted first come first served,
dropping the receiver fails them and drops what is queued. The script is its
outcome on a URL: a value, an error, or never; `Outcomes` combines it with the
deadline, which may pass before or after a call ends by itself (a native
helper such as `isResolvable` is not interrupted). With `Faults` a worker may
find no runtime, lack the script, or panic.

`PacService` knows of no threads and channels: every worker has a `line`, a call
joins one line once, the first in a line is served, a worker that dies loses its
line, and a call that is `told` something is told the outcome of its own run (`said`),
or of a failure if its worker is dead. In the mapping (`Line`) the request under
evaluation, the channel and the senders that wait for capacity are one sequence: taking a
request or admitting a sender moves nobody. A caller that leaves (`Cancel`) is taken out of the
line only if it was still waiting for capacity.

### Routing, ConnectFlow, PlainHttp

`Routing` abstracts a target to name/IPv4/IPv6, private or not, and how the
exceptions list names it; a configuration to the fields the code branches on;
a PAC answer to the six cases the parser distinguishes, one of which ("PROXY"
alone) indexes beyond the string and panics.

In `ConnectFlow`, `ResolveWithoutPac`, `AskPac` and `PacReturns` are
`ConnectResponder::serve`, split where it awaits; `Respond` is the guard and
the answer. The handler's three branches are `DialTarget` and the handshake
with and without an authenticator. `copy_bidirectional` is two copy loops, each
passing on the end of its side; it returns when both have ended, or at once on
an error. Through an upstream proxy the far end may speak as soon as the proxy has granted the
tunnel, and the read that completes the header of the 200 may take any of those bytes:
`Established` moves them to `taken`, for the buffer is dropped.

In `PlainHttp` both forwarders are one state machine, since they
differ in the address and in the credentials only. `Read` is a step of
`read_to_end`; `EndOfResponse` parses what was read, after an end of stream or an
error alike, as the code does. A response is a `page`: with or without an interim (1xx)
head before the final one, its body plain or chunked. `ParsedStatus` and `ParsedBody` are `parse_raw_response`
on the cells read: the first status line, everything behind the first blank line, and no header at
all. The body of a request is not in the model, nor in
what the code sends: `write_http_request` drops it.

### SettingsEditor, ServiceControl

The editor handles one message at a time; each message of `model.rs` is an action
(those of fields that are saved alike share one). `Store` is the tail of
`handle_config_message`: save the form and sync the keychain, or do neither. `Built`
is `build_config` with `save_config`, `Loaded` is `load_config` with `new_args`; a value
that is absent is `""`. The view enables a field only for its tab, authentication type
and lock, which is a guard here. The authorization sheet runs on a thread of its own, so
`UnlockResult` may come at any time after `UnlockRequested`. The first editor finds any
preferences, written by hand perhaps, and any keychain. The keychain accepts what it is
given.

In `ServiceControl` the handlers of the toggle and of *Restart Now* block the editor, so
that `call` names the `launchctl` call they are at and every editor message requires
`idle`; launchd and the daemon go on between two calls. Each call may fail, the `print` of
`pid()` included: `IsRunning(seen)` lets a look miss a daemon that is there, never find one that is not.
The daemon reads the preferences once, some time after it was spawned, and may die at any time;
launchd may give it its pid after the last poll of `wait_for_pid`. The only thing a configuration
is here is its version. `BootoutErrors` are the failures of `launchctl bootout`, one of which
`bootout_service` takes for success because its text contains `3:`. Three variables are history: `unseen`
(this editor has missed this daemon), `survived` (it has outlived a stop reported as done), and `announced`
(the last version saved with the banner up).

With `EditorShell` below, these are separate views of `controller.rs`: they share the
save, and none needs the others' variables.

### EditorShell

Every editor process has its own `main_window_id`, `log_window_id` and stream; they share
one thing, the name `ui_socket_path()` (`path`: the editor whose socket bears it). `Signal`
and `RunUi` are the two branches of `main`; `Unlink`, `Bind` and `Accept` the stream, step by
step, since another process may act between any two. A connection is accepted by the kernel as
soon as the socket listens: `calls` is that backlog, `heard` the `External` messages on
their way. Each arm of `handle_window_message` that changes state is an action, its guards are the
arm's. The answer to the Logs button comes as a message of its own (`asks`), so that
the button may be pressed again, and windows be closed, before it. iced delivers the events of a
window in order: a window is `closing` from its `CloseRequested` to its `Closed`, and whether it
may send other events in between is one of the circumstances a behaviour has:

| Circumstance | Meaning |
|---|---|
| `overlap` | an editor may be launched while another starts or closes |
| `accept` | `accept()` may fail, which ends the stream |
| `kill` | an editor may be killed; the socket's file stays |
| `logs` | the user presses the Logs button |
| `late` | a window that is closing sends further events |

Left out: connections by other users, which `peer_is_owner` turns away; focusing and
un-minimizing (that a launch was *shown* is recorded); the content of the log window.

### RotatingLog

The mutex makes `log` a sequence; its system calls are the actions. `Log` tests the counter
against the limit, `Shift` is one rename of the loop (the last one moves the log itself),
`OpenFresh` the open with `truncate`, `OpenFails` the branch that goes on with the
old file, `Write` and `WriteFails` the line. A file is its size and the set of the numbers of
its lines. An open file keeps its identity when it is renamed: `handle` is the name it has at
the moment. The process may be stopped between any two actions and starts again with
`RotatingLogger::open`. A behaviour has a set of `faults`: which of the calls may fail, and
whether the process may stop; a behaviour with a fault need not show it. The results of
renames are ignored, as in the code.

`KeptLog` is what is left when the files are forgotten: a set of line numbers to which lines
are added and from which the oldest are taken. The mapping takes the union of the files.
Panics and messages on stderr, which launchd appends to the same file, are not counted, by
the model as by the code.

## 3. Runs

| Run | Instance | Shows |
|---|---|---|
| `AuthTunnel` | 4 schemes, 4 rounds, 4 Kerberos legs, headers of 2 and 4 cells with a limit of 2, reads of up to 2, bodies of 0 or 2 declared and 0 or 2 undeclared, 1 tunnel cell, with and without faults | `ActsOnLastAnswer`, `CredentialsOnlyOnChallenge`, `TunnelClean`, refinement of `ConnectService`, `Connects`, `Terminates` |
| `AuthTunnelOverread` | well-behaved proxy, 407 with a page of 2 | **violates** `DrainLeavesUsable` |
| `PacEngine` | 3 callers, 2 workers, channel of 1, counter modulo 2, faults | `OwnAnswer`, `NoLostRequest`, `OneEvaluation`, `Balanced`, refinement of `PacService`, `EveryCallReturns` |
| `ConnectFlow` | every target, 16 configurations, every PAC answer, 2 CONNECTs, 2 bytes each way | `NoPrivatePeer`, `RoutePriority`, `OrderlyCloseDelivers`, `Settles`, `Released` |
| `PlainHttp` | every target, 32 configurations, responses with and without an interim head, plain and chunked, of up to 2 data cells | `PasswordOnlyToProxy`, `ResponseIsFaithful`, `Answered` |
| `SettingsEditor` | a valid port, a port with a blank, an invalid one; no, a valid and an invalid URL; a valid and an invalid address; 2 users up to symmetry, 1 password, None and Basic, 1 sheet | `PasswordWhereExpected`, `PersistedAsShown`, `SavesNoBadAddress` |
| `SettingsEditorLateUnlock` | valid values only, 1 sheet | **violates** `UnlockedInTabOnly` |
| `ServiceControl` | 4 versions, 3 polls, failing calls, late pids, both kinds of bootout error | `BannerWhenOutdated` |
| `EditorShell` | 3 launches, 2 log windows, 2 requests at once; `overlap`, `accept`, `kill`, `logs`, `logs` with `late` | `LogButton`, `SoleEditor`, `ExitsWithMainWindow`, `SignalIsHandled` |
| `EditorShellTwo` | 2 launches that overlap | **violates** `OneEditor` |
| `RotatingLog` | limit 2, 3 backups, lines of 1 or 2, 9 lines; no fault, `stop`, and `rename`, `open`, `write` alone or with another | `Bounded`, `KeepsBackups`, `InOrder`, refinement of `KeptLog` |
| `RotatingLogRename` | the same, renames fail | **violates** `OldestFirst` |

Why the bounds are enough. In `AuthTunnel` a read of up to 2 cells can end
before and at the blank line of a header of 2, and beyond it when it begins within the header;
leftover page text can be read alone or with the next header; a header of 4 is over the limit of 2 before its blank
line is read, unless a single read brings the rest, and fails or passes as in the code; `MaxRounds = 4` is the code's
own number, and 4 Kerberos legs use all of it. In `PacEngine` 3 callers on a
channel of 1 fill the channel, the evaluation and the queue of senders of one
worker, a counter modulo 2 wraps within the run (2^64 in the code is a
multiple of 1, 2 and 4; a pool has `min(cores, 4)` workers, and if these are three, a call
in 2^64 goes to a worker out of turn, which is why `CallsAreSpread` assumes
`EvenWrap`). In `ConnectFlow` two bytes
tell what was taken with the 200 from what is delivered behind it; in `PlainHttp` two data cells
are enough for a body in pieces with a chunk size between them. In `SettingsEditor` every class of text the code
tells apart is there; NTLM and Kerberos branch like Basic but for the fields left out,
and two users are the one the form names and one it has named before (the proofs do not bound
either). In `ServiceControl` 4 versions allow a save before the editor is reopened, one
that raises the banner, one while the banner is up or after a restart, and one after the daemon was missed;
nothing is saved while a handler is at work. In `EditorShell` three launches are an
editor, one that signals it or races it, and one that comes after either has gone; two log
windows are one that is closing and the next one. In `RotatingLog` the three backups are the
code's; nine lines of the limit's size fill the four files twice over, so that a
rotation gives up lines more than once, also one that was stopped half-way before.
With three backups and stops `KeepsBackups` asks for two full files, one less than there
are backups (`Spared`); that it is two for *any* number of backups, and not one less than
there are, came to light in the attempt to prove it.

Deadlock checking is off where a model ends: in the runs of the proxy, which are
one request or a few calls, and in those of `EditorShell` and `RotatingLog`, whose launches
and lines are bounded. `SettingsEditor` and `ServiceControl` check it.

Fairness. `AuthTunnel` is fair to the client's steps (tokio polls a ready task),
to the answers of a *well-behaved* proxy, and to `CloseConnection`: a faulty
proxy that stays silent is dropped in the end. That last one is an assumption
about the network, since the code has no timeout on its reads. `PacEngine` is fair to
every live future and every thread; time passes (`DeadlinePasses` is part of a
worker's step). `Cancel` and `WorkerDies` are not fair. `ConnectFlow` is fair to its
tasks and to the end of a failing handshake; nothing obliges either end of a
tunnel to send or to finish, so `Released` says only that a tunnel *both* of
whose ends have finished is released. `PlainHttp` also lets servers close
idle connections, without which `read_to_end` never returns. `EditorShell` is fair to
each editor's runtime: it polls the stream, delivers messages and window events, and exits
when told to; the user, failures and kills are not fair.

## 4. Findings

* **DrainLeavesUsable.** `auth_tunnel.rs:112` drains the body "so the connection
  stays usable for the next request", and line 33 says the reader "Does **not**
  read any body bytes". It reads in chunks; when a chunk brings part of the body
  along, `read_exact` waits for bytes that are in the dropped buffer already. The call
  hangs until the proxy closes, and then fails.
* **UnlockedInTabOnly.** `README.md:32` unlocks the controls "until the user leaves the tab".
  The result of a sheet that is answered after the user has left the tab sets
  `advanced_unlocked` all the same (`controller.rs:110-111`); the next visit finds the controls
  unlocked.
* **OneEditor.** `ferrovela-ui/src/main.rs:21-23` has a second instance signal the first and exit. Between
  the check and the bind of the socket lies the start of the whole user interface: two
  launches in that time both run. Each removes the socket's file before it binds its own
  (`controller.rs:528`), so only the last to bind can be signalled, and when any of them
  closes it removes the name of whichever socket is there (`controller.rs:324`), after which
  the next launch starts a further editor.
* **OldestFirst.** `logger.rs:51` shifts backups "removing the oldest", and lines 154-155 keep
  lines rather than drop them. `rotate` goes on when a rename has failed: the next one
  replaces a backup younger than the one that stayed, and if it is the log itself that cannot
  be moved, it is truncated where it is. `InOrder` holds all the same.

Seen while modelling, without a run of their own.

The handshake and the tunnel:

* When a target speaks first, tunnel bytes may arrive in the read that completes the 200, and are
  dropped with the header buffer (`auth_tunnel.rs:46-66`; lines 36-38 rely on every message arriving
  as a write of its own). `OrderlyCloseDelivers` excepts them as `taken`.
* A page whose length is not declared stays unread. If a line of it that ends up in front has a number as its
  second word, `parse_status` takes it for a status (`auth_tunnel.rs:90-98`): a text "Error 407 ..." is a
  challenge, "... 200 ..." a tunnel. The properties of `AuthTunnel` except it as `misled`.
* `ConnectResponder` answers the client 200 before anything is dialled, while the diagram at
  `auth_tunnel.rs:13-15` answers it after the upstream's 200.

Routing and plain HTTP:

* Exceptions cannot match a bracketed IPv6 host (`proxy/mod.rs:624`) and know no glob but a leading `*.`;
  `README.md:9` and `specification/preproxy_specs.md:38` speak of glob patterns and IP addresses. `RoutePriority`
  is stated with the match the code makes.
* `specification/preproxy_specs.md:21` falls back to a direct connection when the PAC file fails, the code to the
  configured upstream (as line 30 of the same file does).
* `parse_raw_response` drops every header of a response (`proxy/mod.rs:407-420`), Content-Type, Set-Cookie and
  Location among them. Of a chunked body the chunk sizes are handed on as data, and behind an interim
  response the final head is. A response that is cut short by a close or a reset is relayed as a complete one
  (`proxy/mod.rs:302-306`). `ResponseIsFaithful` says so.
* `write_http_request` drops a request's body and forwards its Content-Length (`proxy/mod.rs:354`;
  `README.md:10` routes "GET, POST, etc.").
* The password of plain HTTP is taken from the preferences only, so Basic with the keychain sends an
  empty one (`proxy/mod.rs:474` against `auth/mod.rs:24-34`).

The daemon's control, against `README.md:31` (settings changed while the service runs raise a banner):

* A `launchctl print` that fails shows a running daemon as stopped (`launchd.rs:228-234`), a pid that comes after
  ten polls is reported as a crash of a daemon that runs, and a failed `bootout` whose text happens to contain
  `3:` is taken for success (`launchd.rs:119`). Settings saved before the next poll that finds the daemon
  raise no banner, then or later. Such a bootout, when it is the user's stop, also takes down a banner that was up.
  `BannerWhenOutdated` names these cases (`unseen`, `survived`) and says that nothing else does it.

The editor:

* Switching to None clears the error of an invalid URL that stays in the form and is saved with the next
  change (`controller.rs:189-191`, against `CHANGELOG.md:42`).
* A port typed with a blank is accepted by `validate_port`, which trims, and saved as 3128 by `build_config`,
  which does not.
* A user who reopens the editor and unticks the keychain, whose password the form does not show, deletes the
  only copy, while `specification/keyring_integration.md:19` has the password revert to the configuration file. A password
  that is cleared in the form stays in the keychain and is still used; so does the entry of a former user name.
  `PasswordWhereExpected` states all three as they are.
* Events of a log window that is closing, if the window system sends any after the close was requested, make it the
  main window, whose close ends the editor (`controller.rs:335-338`); without its exception for `late`, TLC finds
  `ExitsWithMainWindow` violated in seven steps.
* The log window shows the last 10 000 bytes of the log; if that cuts a character in two, `read_to_string` fails
  and the window keeps what it showed (`controller.rs:476-480`).

The logger: when a fresh log cannot be opened, each further line rotates again, until every backup has been shifted
out. `README.md:13` speaks of compressed backups; the backups are not compressed.

## 5. Proofs

Every theorem is proved for all values of the constants that satisfy
`ConstantsAssumption` of its module, which TLC evaluates in the runs.

**PacEngineProofs.** `TypeCorrect`, `AnswersAreOwn`, `NothingLost`,
`EvaluatedOnce`, `FailureIsDeath`, `CallsAreSpread`, `NobodyIsStranded`,
`Implementation`. None of the safety properties is inductive
alone: that an answer is its caller's needs that a request is in one place only
and at the worker its caller picked, which needs that a caller which has not
sent yet is in no queue, and that senders, queue and evaluation are disjoint.
`IInv` conjoins the properties with `Fresh` (a caller before its send is
nowhere and unanswered) and `Placement` (where each caller may be, by its `pc`).
The lemmas `AppendElements`, `TailElements` and `LeaveElements` say what the three
queue operations do to the set of a sequence's elements and keep it free of
repetitions; `Invariance` goes through the actions.

`CallsAreSpread` (`Balanced`, under `EvenWrap`: the pool's size divides the counter's
modulus, or there are fewer calls than that) says of `TurnInv` that with `k` calls made every worker has the same load, and those
before the `k % NumWorkers`-th one more; the lemmas `ModUnique`, `ModRange`, `ModStep` and `ModOfMod` are the
arithmetic, `PickLoads` the cardinalities. `NobodyIsStranded` is the safety core of
`EveryCallReturns`: `CanReturn` says that a caller whose worker lives is answered, next for free
capacity, or waits for a worker that has a step to take. It needs `Stages`: no channel is
overfull, an evaluation has its deadline, and who is sending is among those waiting for capacity.

`Implementation` (every behaviour of the pool is one of `PacService`) has a lemma per
action: `ChooseStep`, `JoinStep`, `TellStep`, `FailStep`, `LeaveStep`, `ServeStep`, `DieStep`, and
`AdmitStep` and `TakeStep` for the two that move the boundary between the parts of a line and change
nothing in the abstract. They rest on four facts about concatenation (`FirstAndRest`,
`LastInLine`, `FirstInLine`, `LeaveLine`), on `IInv` (so that the place a sender gives up is the only
one it has) and on `Untold`, that a call is told nothing before it returns.

**AuthTunnelProofs.** `TypeCorrect`, `OkIsGranted`, `NothingIntoTunnel`,
`LastAnswerDecides`, `CredentialsAreAsked`, `RoundsAreBounded`, `TunnelIsClean`,
`HonestProxySuffices` and `Implementation` (every behaviour of the handshake is one of
`ConnectService`). The heart is the *layout* of what is unread while the call is not misled: behind
leftover body bytes there is at most one header, it is the last answer's, and after it
come that answer's body and then tunnel bytes. It holds because the proxy
answers one CONNECT at a time and the client sends the next only after it has
parsed a header, and it is what makes "the status of a header that parses is the last
answer's" (`ParsedIsLast`) true for every chunking. `LayoutWire`,
`LayoutSuffix`, `LayoutPayload` and `HeadersTaken` show that answering, reading and
tunnel bytes keep it; `AnswerStep`, `CountStep` and `DrainStep` derive the
rest. That an NTLM session never exhausts the rounds is `NtlmProgress`: its state, the round and
the tokens sent go in step (`LegsStep`), misled or not; `Led` collects what holds only until the
call is misled. `TypeCorrect` needs that a response is parsed only when a blank line was
read, so that the buffer has a first cell.

The first half of `LastAnswerDecides`, that only an undeclared body can mislead, is an invariant of its
own, `Declared`: as long as every answer has declared its body, buffer and stream are the last answer from its
first byte (`Arriving`), and nothing of it is left when the next one is asked for (`Emptied`), so that no read
begins within page text. `DeclaredAnswer` and `DeclaredRead` show that answers and reads keep it.

`HonestProxySuffices` is the safety core of `Connects`. With a proxy that follows its scheme the
call never fails, a read always has bytes or an answer to come, and the session has a token for
every challenge (`GoesOn`); the drain is excepted if a part of the body was read along with the
header, which is the first finding above. The assumption `RoundsSuffice` says that the loop has a
round for each message of the scheme; the code's 4 do for Basic and NTLM. `Honest` follows
the exchange on top of `Declared`: where both ends are in it (`Steady`), that the answer is the one the last
CONNECT deserves (`Replied`), and that its bytes are on their way (`Delivered`).

**ConnectFlowProofs.** `TypeCorrect`, `PrivateIsUnreachable`,
`RoutePriorityHolds`, `RefusalIsFinal`, `OnlyEarlyBytesAreLost`. The responder and the
handler are different tasks that share one value, the decision attached to the
response, so the invariant follows that value: `SoundRoute` says which routes the
configuration and the PAC answer allow; `Undecided` that nothing exists before the
answer; `Decided` that a 200 goes out only with a sound route and any other answer
with none; `Followed` that dial, handshake and peer are the decided route's.
`Shut` says that a direction is shut only at an end of stream with nothing left to
copy, which is why a close after both leaves nothing behind; `Taken` that only an upstream proxy's
handshake takes tunnel bytes; `Bounded` keeps the byte
counters within the type. `StaticRoutes` and `PacRoutes` are what the two route
operators return; `DecisionStep`, `TypeStep` and `TunnelStep` go through the actions.

**SettingsEditorProofs.** `TypeCorrect`, `PasswordIsFound`, `ShownIsPersisted`,
`NoBadAddressSaved`, `SavingAgainIsIdle`. A saved form is what the preferences were built from (`Written`),
its password is in the keychain if it belongs there (`Stored`), and an invalid address or
port has its error set (`Marked`), whether it was typed or read from preferences
(`MarkedAtOpen`). `Written` makes the round trip through `Built` and `Loaded` a matter of
the two functions; `Marked` makes `SavesNoBadAddress` hold, since nothing is stored
while an error is set. `PasswordIsFound` is about the steps that save: what they leave in the keychain for the form's user and
for others, and what the daemon, which looks in the preferences first, makes of it. `SavingAgainIsIdle` (`SavesAgain`) says that the form an editor is opened with saves, untouched, as the
preferences and keychain it was read from, and shows no error but for a URL that was saved while
invalid: `SamePreferences` compares preferences key by key, `BuiltAgain` follows each key through `Loaded` and `Built`.

**ServiceControlProofs.** `TypeCorrect` and `BannerHolds`, without an assumption about launchd: prints may fail,
pids come late, failed bootouts be taken for success. The invariant says where a daemon can be during
`start` (`Placed`: unless it was missed, nowhere until it is kicked off), that a daemon which was not missed
is shown as running between two calls (`Shown`), that it has read a saved version, and while `start` waits
for it the latest (`Read`), and that the banner is up also while a call is under way (`Warned`).

**PlainHttpProofs.** `TypeCorrect`, `PrivateIsUnreachable`, `PasswordStaysWithProxy`,
`ResponsesAreFaithful`. `Routed` says that a route has passed the guard and that the
connection is to it; `Progress` that no more is read than was sent; `Relayed` that the server
has no more to add to a response that was handed back. The work is in the lemmas `Parts`, where the first
blank line of a response is and what lies on either side of it, and `Parsed`, what `ParsedStatus` and
`ParsedBody` make of any prefix of one.
`BeforeConnection` sums up the steps before there is a connection: a request is refused,
dialled, or waits for the PAC file.

**RotatingLogProofs.** `TypeCorrect`, `LinesInOrder`, `FilesAreBounded`, `BackupsAreKept`, `Implementation`. Order
rests on `NewestOpen`: nothing is in front of the open file, also after a fresh one could not
be opened and the old one went on under a backup's name. `Bounded` rests on `Counted`, the
counter is the size of the open file while files can be opened and written. For the
implementation a step of `rotate` must give up the oldest lines or nothing, which needs
that the place a file is moved to has been vacated by the step before (`Vacated`; the first step
replaces the oldest backup) and that backups hold lines (`Filled`), so that never all is given
up; both only while renames and writes succeed, and otherwise the step is one that `KeptLog`
allows where it is `lossy`. `BackupsAreKept` rests on
`InPlace` (what is rotated is a full log), on every backup being full (`FullBackups`), and on
`LossSpares`: lines are lost only by replacing the oldest backup, while a younger file was full too.
Without stops a file is missing only where the rotation is (`NoGap`), so that all the others are full.

**EditorShellProofs.** `TypeCorrect`, `OneLogWindow`, `OneEditorAtATime`, `MainWindowEnds`, `SignalsAreInHand`. Types
alone need that whoever waits in a queue has been launched and is not an editor (`Queued`), so that
marking it cannot end one. `SoleEditor` rests on `OneAtATime` (a name that was
removed stays free until the same editor binds it), `SocketOfLiving` and `Unlaunched`; `MainWindowEnds` on
`OwnMain`: without late events `main_window_id` is the main window as long as the editor runs. `SignalsAreInHand` is the safety core of
`SignalIsHandled`: a launch that has signalled is in the backlog or the message queue of one
editor, which lives, and there once (`InHand`); one that was shown or missed is in none. It holds in every
circumstance, with editors launched together and killed, though then a signal may be missed.

Only model-checked: the liveness properties `Connects`, `Terminates`, `EveryCallReturns`,
`Settles`, `Released`, `Answered` and `SignalIsHandled`, since fairness and ENABLED are out of the prover's
reach. Of three of them a theorem has the part that is not about fairness, for
every size: `HonestProxySuffices`, `NobodyIsStranded`, `SignalsAreInHand`.
Every other property of a passing run is a theorem.
Not a property of a run but proved: `GrantedTunnel`, `NoConnectIntoTunnel`, `RoundBudget` and `GoesOn` of
`AuthTunnel`, `FailureMeansDeadWorker` and `CanReturn` of `PacEngine`, `RefusedIsNotUpgraded` of
`ConnectFlow`, `NoPrivatePeer` of `PlainHttp`, `SavesAgain` of `SettingsEditor`, `InHand` of `EditorShell`.

## 6. Not modelled, and why

* PAC loading and helper functions: I/O that ends in an error or a script, and
  pure string functions. A script that loops at top level blocks the start of the
  daemon (`pac.rs:276` has no deadline).
* The contents of messages: NTLM and GSSAPI tokens, header values other than the
  challenge and the length, URLs. Byte-offset hazards inside a header line
  (`auth_tunnel.rs:75`) and the allocation of a huge declared length (line 115)
  end the task as an error does.
* Socket options, logging, the view, benchmarks and build scripts.
* In the editor: the PAC field and the list of exceptions, preferences forced by a
  profile, port 0, a keychain that refuses (logged only, `controller.rs:441-450`).
* Time stamps of log lines, the search of the log window and the reading of the log's end.

## 7. Plan

1. *Done.* The core: handshake, worker pool, routing, both services; proofs for
   the handshake, the pool and the CONNECT service.
2. *Done.* The editor: `SettingsEditor`, `ServiceControl`, and their proofs.
3. *Done.* `EditorShell`: windows, socket, several editors, and its proofs.
4. *Done.* `KeptLog` and `RotatingLog`, and their proofs; `PlainHttp`'s proofs.
5. *Composition.* `PacService` is stated and implemented; `ConnectFlow` and `PlainHttp` could
   take `find_proxy` from it, with the start-up that decides whether there is a PAC engine
   at all. The editor's modules over one set of variables.
6. *Done.* `Balanced` and `KeepsBackups`, with lemmas on cardinalities; `PacService`'s
   refinement; the safety cores of three liveness properties.
7. *Proofs.* The safety cores of `Released` and `Answered`.
