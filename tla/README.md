# VRCX-K in TLA+: the host's life, the link, files, plugins, tray and shell services

VRCX-K is a desktop companion in three parts: the **shell** (Rust,
`src-tauri/`), which owns the windows and the operating system; the **host**
(TypeScript on bun, `host/`), which runs Cordis and the plugins; and the **face**
(React, `src/`). The shell launches and supervises the host, the two speak kkrpc
over the host's standard input and output, and the face talks to the shell by
Tauri IPC.

This directory holds TLA+ modules translated from that code, the TLC
configurations that check them on small instances, and theorems that TLAPS
proves for every value of the constants. `PROJECT.json` maps every definition to
its lines of the source and lists the runs, the mutants that show each property
can fail, the hazards and the theorems.

## 1. The system

| Component | State | Operations | What makes it correct | Module |
|---|---|---|---|---|
| Lifecycle reducer (`host_lifecycle.rs`) | none; a table | `reduce_command` accepts or refuses a command in a phase | an accepted command's phase and intent match what the supervisor then does | `HostLifecycle` |
| Host supervisor (`host.rs`) | `HostInner` under one mutex: generation, child, peer, pid, phase, intent, streak, backoff; a command channel | dispatch, drain, stop, force kill, spawn, adopt, ready wait, ping, watch, backoff, park | one host at a time, no host without an owner, a bounded storm, a stop that sticks, an intent that is served | `HostSupervisor`, `HostGenerations` |
| Launch, hello, ready handshake (`host.rs`, `hands_hello.rs`, `host_ready.rs`) | the slot and the refusal of one start | resolve what to run, tell the host its environment, accept or refuse its ready frame, wait for it | a start is blamed for what happened, a hello gives no credential away | `HostStart` |
| Application exit (`app_lifecycle.rs`, `lib.rs`) | the exit intent; up to four threads | quit, restart, force quit, 35 s watchdog, `RunEvent::Exit` | the host is reaped whatever the supervisor is doing | `HostSupervisor` |
| Process tree (`process_tree.rs`) | the OS process | spawn, try_wait, kill_tree, drop | owned by exactly one holder | `HostSupervisor` |
| kkrpc peer, shell side (`kkrpc_peer.rs`) | stream table, credit, pending calls, deferred replies, link state; a reader and one thread per stream | dispatch, open/consume/cancel stream, producer loop, call with timeout, end of link | one reply per request, one end per stream, one close per handle, credit respected | `KkrpcPeer` |
| hands, the file capability (`hands.rs`, part of `hands.ts`) | one open file or watch per call | stat, list, read, write, watch | what ends well is whole, a write destroys nothing else, a watch loses nothing | `HandsFiles` |
| Host shutdown (`signal.ts`, `lifecycle.ts`, `restart.ts`, `stdin-watch.ts`, parts of `stdio.ts` and `index.ts`) | the signal's gate and renewable deadline, exit timers | stop/restart RPC, lost stdin, failed handshake, dev restart, extend | one owner of the exit, in time, never before the time granted | `HostShutdown` |
| Plugin reload (`dev-reload.ts`, `dev-watch.ts`, watchers) | the Cordis entry's fiber, per-entry queue, bindings | two-phase swap, restore, config refresh, close | an entry ends with one live fiber or with a report, and with its newest source | `PluginReload` |
| Tray publisher (`tray.ts`) | requested, accepted and pushed groups; the push chain | setGroups, flush, push, rollback, attach, close | the shell ends up with what was accepted last, and every call is answered | `Tray` |
| Tray, shell side (`tray.rs`, `tray_model.rs`, `tray_schema.rs`, `tray_renderer.rs`) | the cache, the native menu and its handles | validate, normalise, merge with the core's items, refresh on two threads, update in place, click | the menu is what was merged, and the core's items stay the core's | `TrayMenu`, `TrayShell`, `Tray` |
| Main window and tray clicks (`tray.rs`, `lib.rs`, `smoke.rs`, `app_lifecycle.rs`) | the window, prompts, the application's intent | show, hide, click, confirm, second launch, close request | whoever asks for the window gets it, and no command goes out unmeant | `MainWindow` |
| Shortcuts (`shortcut.ts`, `shortcut.rs`) | chord bindings in the host, the mirror in the shell, the OS's own | register, unregister, press, attach, close | a bound chord is routed, the mirror follows the OS | `Shortcuts` |
| Shell services (`shell_sys.rs`, `dialog_opts.rs`) and the developer's panel (`smoke.rs`) | the system's settings; the dialog a thread waits for | dialogs, autostart, deep links, clipboard, windows, exit; the panel's actions | a verdict is what the system holds | `ShellServices` |
| Debug probe (`debug_probe.rs`, the reader of `kkrpc_peer.rs`) | one listener, one client, one session | decide to open, publish the token, handshake, serve, shut | every client has its turn, no reader outlives its session | `DebugProbe` |
| Face (`hostLifecycle.ts`, its panel) | last snapshot | listen, seed, stale rule, mount, unmount | the view ends with the newest snapshot | `Face` |
| Bridge and capability proxies, capability audit, host log, contracts, scripts | see section 6 | | | - |

How they interact: `dispatch` (called by Tauri commands, the tray and the face)
appends to a channel that only the supervisor reads; the exit worker, the force
quit and the final exit event call the same stop and reap methods on other
threads, through the mutex. The supervisor gives each generation a kkrpc peer
(`HostStart` is one such start in detail); its reader thread runs every request
handler, so `ShellServices`, the shell's half of `Shortcuts` and `Tray`, and the
opening of every stream of `HandsFiles` are steps of that thread; producers run
on threads of their own (`KkrpcPeer`). To stop a host the supervisor calls the
host's `stop` RPC and kills the tree when that fails or takes too long; the host
disposes its plugins under its own deadline (`HostShutdown`), which must be the
shorter one. The code the host exits with (0, 51, 52 or anything else) decides
what the supervisor does next. Each published snapshot goes to the face by an
event (`Face`) and to the tray by a refresh (`Tray`, `TrayShell`); a click in the
tray commands the window, the host or the application (`MainWindow`).

Hard to test, and therefore what the models are for: commands accepted in one
phase and served in another; waits outside the mutex during which the child is
replaced, taken or dies; a spawn overtaken by a stop or by the end of the
application; several parties answering one deferred request; a cancel against a
producer that waits; the end of the link in the middle of anything; several
triggers racing for one exit code; a deadline that is pushed while it expires; a
file that is rotated while it is read; a push that fails behind a newer one; two
refreshes that overtake each other. The hazards of the code are listed with
their lines in `PROJECT.json`.

## 2. Modules

**`HostLifecycle`** - phases, intents, commands and `reduce_command` as three pure
operators. The refusals Noop and Rejected are one.

**`HostSupervisor`** - `host.rs` with `app_lifecycle.rs` and the exit handlers of
`lib.rs`. `host` is `HostInner`, one record behind one mutex; a step is one region
executed under the mutex or one blocking call outside it, and `pc` says where
each of the four threads is (`sup` the supervisor, `app` the worker of a graceful
quit or restart, `force` the force quit and the watchdogs, `exit` the final
`RunEvent::Exit`). `held` is the process tree a thread has taken out of the mutex
or not yet put into it: the window in which a host can be lost. `lateStart` is history: a Start or
Restart was accepted while `ExitStopsHost`. `procs` is what
the operating system knows of each process. `request_stop`, which three callers
use, is one action group `Stop(t)` that returns through `cont`. Deadlines may
expire at any round of the loop that polls them.

**`HostGenerations`** - the abstract promise: each process is launched when no
older one is alive in the supervisor's hands, is private until adopted, is
adopted at most once and over nothing, then has one owner who ends it.
`HostSupervisor` implements it under the mapping `LifeOf`, with the exit of the
application included. `late` says that a start was accepted although the exit was about to
stop a host; only then may a process take the place of an older one (section 6, remarks).

**`HostStart`** - one start of a host: which program is run where
(`ResolveHostLaunch`, for machines with every mix of variables, resources and a
PATH with shims), the hello (`HelloPayload`), the host's frames through the pipe
and the reader (`Handled`), and the wait, whose round looks at five things one
after another (`CheckCurrent` ... `CheckDeadline`) while host, reader and a stop go on.

**`KkrpcPeer`** - `kkrpc_peer.rs` with the stream requests of `hands.rs`. The single
reader thread is a record `reader` (what it is in the middle of); each stream
of the shell has a control block (credit and cancel flag), a thread and a
table entry; each stream of the host has a consumer entry. `wire`, `host` and
`window` are what the host has received, done and may still send. A broken
writer stays broken. A stream whose write failed is forgotten in two steps: its entries are taken
under the table's lock (`ForgetStream`), and the producer is cancelled and the sink finished
after it (`SettleForgotten`), with the reader and the end of the link in between. `strays` are the
calls that were registered after the end of the link had drained the table.

**`HandsFiles`** - one call of `hands.rs` on one path, as the system calls it is made
of, with other programs that grow, cut, replace, remove and create the file
between them. A file is an identity and a sequence of small contents; `platform`
says whether files have identities at all. `WriteIntent` and the option readers
are pure operators over every combination of present, null, absent and odd
options. A watch is a registration, an event filter (`Concerns`, `ChangeOf`) and a
queue; `Unload` is the plugin that ends its own write early (`hands.ts`).

**`HostShutdown`** - `signal.ts`, `lifecycle.ts` and the triggers. A step is one turn
of the event loop up to the next await. `signal` is the `ShutdownSignal` with its
`RenewableDeadline`, `cleanup` the disposer being awaited, `at` and `exitAt` the five
callers of `gracefulStopWithTimeout` and their exit timers. `provided` turns false
when the clean-up has torn `ctx.signal` down, after which a late caller must yield.
The clock runs only during a shutdown; a turn may keep the loop busy for `Lag`.

**`PluginReload`** - `dev-reload.ts` and `dev-watch.ts` for one entry id. `watch` and
`stopping` are the gates (`disposed` with the steps of `close`, and
`ctx.signal.stopping`); `source`, `fsPending`, `pending`, `asked` and `tried` follow a save
from the disk through the debounce timer and the queue into a run; `phase` and
`target` say where `reloadPluginEntry` is and for which Entry object, because the
include tree (`tree`) may replace the object while the bindings (`bound`) or a run
still hold the old one. `fiber` is the life of each object's fiber. A phase whose
timeout fires is abandoned, not cancelled: what it was building stays in `coming`
and may come up (`strays`). `orphaned` has the entries that a refresh took out of the tree while a
reload worked on them or had left them half torn (`Orphans`). The plugin's code and Cordis are external: a phase may
succeed, fail, or outlast its timeout.

**`TrayMenu`, `TrayShell`** - menus as trees. `TrayMenu` has the pure part: what is
accepted (`IsValid`), how it is sorted, filtered and trimmed (`Normalize`), the core's own
menu and its projection of the phase, the merge, the native tree and the update
in place. `TrayShell` is the cache, the refresh and the clicks over it, with
native calls that may fail.

**`Tray`** - the way of a menu from a plugin's `setGroups` to the tray: the publisher's
single-slot queue, the chain of pushes with their timeout, the roll-back of a
refused one; the link; the shell's cache; and `refresh`, which two threads run at once
(the reader and the supervisor's observer), each reading the phase and the cache at one
time, comparing with the menu in the tray at another, and handing the menu to the main
thread, which applies it later. A menu is its content and the phase it was merged under.

**`MainWindow`** - the window as [visible, minimized, front], moved by the user, the
host's `shell.window.*`, close requests and tray items; `surfacing` is
`show_main_window` under way on one of three threads (the event loop, the
single-instance callback, the panel), each of which reads whether the window is
minimized first and acts later. Off the event loop others come between. `prompts` are the
confirmations that are open, `intent` the latch of `AppLifecycle`, `sent` the last command.

**`Shortcuts`** - chords of one plugin across two hosts, the developer's panel and the
operating system: each request of the host is read, served by the shell and
answered, and the binding in `shortcut.ts` is written when the answer arrives. The host's own wait
may time out before that (`Expire`), which changes no binding while the request goes on to the shell.
`mirror` is `ShortcutRegistry`; `foreign` has the chords that somebody else than the current host
(its predecessor's link, the panel) asked about, `raced` those that two workers were busy with at once.

**`ShellServices`** - the routes of `shell_sys.rs` with their argument checks, served one by
one on the reader's thread, which waits while a dialog is open; and the developer's
panel, whose dialogs have threads of their own and whose every request has a report.

**`DebugProbe`** - the probe from the decision to open (`IsDebuggable` asks the web view,
which may throw or never answer) over the token's file to the handshake and the sessions, one
client after another on one thread; and what the reader of `kkrpc_peer.rs`
tolerates (`Hiccup`, bad lines) before it gives a link up.

**`Face`** - `subscribeHostLifecycle` and its reducer: listen, then seed, events before, between and
after, a mount that is unmounted at any moment, and the shell's change feed, which publishes a
snapshot only when its fingerprint changes.

**`...Proofs`** - the theorems (section 4); `HandsProofs` is about `HandsFiles`, `ShellProofs` about
`Face`, `MainWindow`, `HostStart` and `ShellServices`. **`MC...`** - instances
for TLC. `MCServices`, `MCHostPlugins`, `MCHostShutdown` and `MCKkrpcPeer` each check
several parts that share no state: a variable `part` chooses one, the others stay as they
begin. Every part is explored exactly as it would be alone; interleaving
them would multiply the states and show nothing more. `Tray`, `Shortcuts`, `Face`, `MainWindow`, `HandsFiles`,
`HostStart` and `ShellServices` are extended by these modules, so that the property a run checks is the one a
theorem is about, and the assumptions on their constants are evaluated; their specifications have names of
their own for that (`TraySpec`, `FaceSpec`, `WindowSpec`, `HandsSpec`, `StartSpec`, `ShellSpec`). The others
are instances with their variables.

A definition named `Mut...` stands before the one it could be mistaken for: a
dropped guard, a missing reset, a lost timer. No module uses one. Substituting
it must break the property it is listed with.

## 3. Runs

| Run | Question | States |
|---|---|---|
| `supervisor_core` | three accepted commands at any moment, a host that exits with any code at any moment, two generations: storm accounting, what the snapshot says of the process, what a stop guarantees, liveness | 0.11 million |
| `supervisor_exit` | the same supervisor, one command of any kind at any moment, against quit, restart, force quit, watchdog and final exit: ownership, and refinement of `HostGenerations` | 1.7 million |
| `kkrpc_streams` | a read and two writes on streams that share a number; two calls beside a watch; a writer and a link that may break anywhere | 0.63 million |
| `kkrpc_release` | a read and a watch, each of whose handles is closed in the end | 86 thousand |
| `host_shutdown` | five triggers in every order around the handshake, disposers that settle or hang, extensions; and the debug probe with two clients | 124 thousand |
| `host_plugins` | three saves, two edits of the configuration and a stop against reload phases that succeed, fail or hang; and two calls of `setGroups`, one menu the shell refuses, late answers and a changing host, through to the native menu | 717 thousand |
| `services` | nine parts, each with an environment of its own: menus as trees, one file call against programs that change the path, shortcuts over two hosts and the panel, the lifecycle panel mounted twice, every launch, hello and start, the services and dialogs, the main window | 0.99 million |
| `parked_unsettled`, `force_kill_undone`, `stop_not_shown`, `binding_lost`, `tray_stale` | one documented promise each that the code does not keep (section 6) | to the first violation |

Several properties are conjunctions of parts that the modules name: `SnapshotIsTrue`
(one host, the pid is the child's, nothing parked holds one, no retry is stale),
`Ownership`, `AnsweredOnce`, `EndsOnce`, `FlowIsRespected`, `MenusAreSound` (a
normalised menu loses nothing visible and keeps the order, the native tree is
the one that would be built, the core's items stay its own), `WritesGoOn`
(what a write may not touch, and where the next one goes on), `StartIsHonest` (what
is launched can run, the verdict is what happened, the hello tells no
credential) and `WindowObeys`.

Bounds and why they are enough. *Supervisor*: `MaxFailures = 3` with `MaxBackoff = 2`
lets a streak grow, double its backoff, reach the ceiling, be forgiven and reach
the cap. `MaxGeneration = 2` gives a relaunch and an exhausted generation counter
(which the code refuses), and one process beyond it. Three dispatches are what
it takes to queue a command behind one that is being served while a third
changes the intent. The exit run has its own smaller bounds because four
threads race: one generation, and the refused process after it, is the whole
ownership question; one command of any kind is enough to be in the middle of a stop, a kill or a
relaunch, and to be accepted during the exit. The theorems
remove these bounds for safety. *Peer*: the window is 3 and replenished at 2
(the code's 8 and 4 are the same shape: more than one chunk between
refills, and room left when the refill is due); two writes compete for one stream number, which is also the
number of the shell's own read. The host grants up to three credits in one pull
or in several. *Shutdown*: three disposers (an entry, a plugin, the root's), an
initial time below the cap, extensions that add nothing, add some, exceed the
cap or are negative. `ShellTimeout` and the cap differ by what the exit delay and two busy
turns need, which is the assumption `CapAssumption`; the code's values are
25 s and 28 s. `Tick` stops at `ShellTimeout`, a bound `BeatsTheShell` shows is never met.
*Probe*: two clients, so that one waits behind the other; a token line of two bytes
can be right, short, long and trimmed; two failures of each kind are what is tolerated
and one more what is not.
*Reload*: three saves are one in flight, one that is queued behind it and one
that arrives while the run goes on; two edits remove an entry and add it again, which
gives the id a second Entry object while a run may hold the first. *Publisher*: two calls
are one in flight and one that replaces or follows it; two phases and two turns of them let
two refreshes overtake each other; one fault is a push that is lost or late.
*Menus*: the samples and payloads in `MCServices` hold each kind of item at each depth, equal and
unequal orders, hidden and trailing separators, and one defect each; the limits are scaled to them.
*Files*: a file of two chunks, at most three identities and two deeds of other
programs, which is a replacement and its undoing; every combination of the write options.
*Shortcuts*: one chord, as chords are independent; two calls, each of which may time out, two hosts,
one call of the panel.
*Face*: two values, so that A, B, A occurs, and two mounts. *Start*: a host that sends up to two frames and
exits or not; each field of a frame out of range once. *Services*: two requests of
the host, one of which may be a dialog with the other one behind it. *Window*: four deeds of
user, host, menu, panel and second launch in any order.

Fairness. The supervisor thread and the stream and caller threads are weakly
fair: the scheduler runs them. The ready deadline and the backoff are strongly fair:
their loops poll a clock that advances. In the shutdown, time, timers that are due
and the owner's continuation are fair; disposers are not, as they may hang. In a reload the
timeouts, the file watcher's own close and the wait of `close` are weakly fair, and
nothing of a plugin's code is. In the publisher the flush, the timeout of a push and the
shell's threads are weakly fair; neither an attachment nor an answer is. In the probe its
own thread, its reader and the socket's timeouts are weakly fair, and a client does
what it likes, for ever if it likes.
No fairness is given to users, hosts, peers, exits or the end of a link. In a run of several
parts the fairness of a part is asked for only where the behaviour is about it, or, in
`MCHostPlugins`, where nothing fair is enabled in the part that rests.
`StopEndsChild`, `RunningIntentIsServed`, `HandlesAreReleased`, `HostLeaves`,
`EveryClientHasItsTurn`, `OldReadersEnd`, `CloseEnds` and `CallsAreAnswered` are
checked under it; the rest holds without. Deadlock is checked in
`supervisor_core`; the other passing runs have it off because the shell exits, the
link ends, the process leaves, the watcher is closed or everybody may fall silent.

## 4. Proofs

All theorems hold for every value of the constants that meets the named
assumptions (`...Assumption`, which TLC evaluates on the instances); TLC checks the same
formulas there. The assumptions only say that bounds are numbers, that the special values are
not ordinary ones and what shape the inputs have (a name in the environment is a sequence of strings, a port
is a u16, a flag that is a boolean is one, the entries of a directory can be read or cannot), except these: the first backoff is at most the last one (`StormAssumption`), a
window is refilled before it is used up (`CreditAssumption`), the
deadlines of the shutdown fit into the shell's (`CapAssumption`), and the items the panel may click
are the window's (`SafeItemsAreTheWindows`, which `core_snapshot` and the reserved
prefix of `merged_snapshot` ensure).

**The supervisor** (`HostSupervisorProofs`)

- `TypeCorrect`: `TypeOK`.
- `StormIsBounded`: `StormBudget` with `TypeOK` is inductive, because a failure is
  charged only at labels where the streak is below its cap, and every way back to such a
  label goes through a test of the cap. Each method of `HostInner` has a lemma that says
  what it does to the streak.
- `OwnershipHolds`, `NoHostLeaks`: "no live process without an owner" is not
  inductive by itself. `Ownership` adds that a thread holds a process only at the
  labels between taking or launching it and giving it away (`Owning`), so that
  nothing held is ever overwritten, and that the supervisor does hold one where it
  is about to adopt. Exited processes that were not collected count too.
- `HandlesStayTogether`: tree and peer come and go together, and the pid that is shown is the tree's or
  none. A force kill takes the tree first and shows the pid until the kill is over (`PidIsTold`), where the
  supervisor is at `killRun` or `killFinish`. It needs what adoption finds in the record, which
  ownership of the tree gives.

**The supervisor, what rests on ownership** (`HostSupervisorProofs`, second half)

- *Custody.* For the processes every step is of one of nine kinds (`StepOfAKind`: it
  launches, adopts, collects, hands over, ends ..., or is `Inert`). Over these, `Custody` is
  inductive: generations number the processes and the last slot is used again only when the
  numbers are exhausted (`Numbering`), what was launched and not yet adopted is in the
  supervisor's hands (`InFlight`), and nobody owns what is over or what another owns (`OneOwner`).
- `NoChildIsAbandoned`: every exit latches `AppExit`, which fences the adoption, before it
  takes the tree (`ExitFenced`); only a new intent to run lifts the fence, and with it the
  latch by which the supervisor returned. So a supervisor that returned leaves a child only
  to a thread that has yet to take it.
- `StopsStick`: a Restart accepted before a stop and served after it does lift the stop's
  fence; but then the stop is still on the channel behind everything else, and from there every
  way to a spawn leads through the drain (`StopStands`).
- `SnapshotTellsTheTruth`, `SnapshotIsTrueWithoutExit`: the supervisor looks for work only with
  no child or with a command on the channel that will stop the child (`TreeInPlace`); a child that is
  to stop is being stopped or that command is queued, and the phase refuses whatever would
  take it back (`StopComes`); a retry is advertised only where one can come (`RetryComes`). `TreeInPlace` holds
  during an exit as well as long as it is `Calm`, that is no command has lifted the fence from a host the
  exit was about to stop; the others are about what is told until an exit is accepted, and so is the theorem.
- `AdoptionsAreFresh`, for all constants: what is adopted is the process launched last, and it replaces
  nothing unless `lateStart` (section 6). It follows from `Calm => TreeInPlace`.
- `ProcessesLiveOnce`: the refinement. The five lives of `HostGenerations` are told apart by
  the state of a process and its owner (`LifeTold`); each of the nine kinds of step maps to one of the
  abstract steps or to a stutter, for a process that leaves its owner and for one that begins; a late
  start is the abstract `StartLate`.

**The link** (`KkrpcPeerProofs`)

- `TypeCorrect` needs `Aim`: what the reader is in the middle of is a stream of the right side.
- `EndingsHold`, `FlowHolds`: a stream's entry in the table is the right to write its
  terminal frame. `StreamOK` says it of each stream of the shell by what its thread, the reader and
  the end of the link may still do: nothing before the reference is out (`Opening`), who lost
  the entry is over (`Entitled`), credit is spent before the chunk goes and only
  while nobody has cancelled (`Spending`), the handle is closed by the one that writes the end (`Closing`).
  `Shut`: the end of the link leaves the table empty.
- `AnswersHold`: the sink of a write is in one hand at a time, the table's, the reader's, that of the
  end of the link or that of the thread of a stream that failed (`OnePlace`), and the hand owes the ending, which answers (`SinkOK`); a request that opens a
  stream was answered exactly when its thread may begin (`OpenerOK`); a failure that was published
  finds the reader gone (`LinkInv`) and every accepted write answered, unless such a thread took its sink
  before the end of the link and has not answered yet (`LinkDownIsQuiet`).
- `WindowHolds`: what the host may still send and what the shell has counted since its last refill add
  up to the window, but for what the reader is about to add (`TableWindow`, `Owing`). The theorem is the case
  where it owes nothing.
- `WaitersFound`: a caller with an empty mailbox is in the table of calls until somebody takes it out
  in the step that fills the mailbox; and whoever takes it out is still to come, except for a call that
  was registered after the last look at the table (`strays`).

**The shutdown** (`HostShutdownProofs`)

- `ShutdownTypeCorrect`, `OneOwner`: before the gate is taken nobody has started
  (`OneOwnerInv`), and nothing opens the gate again (`GateStaysShut`), so the
  first to take it is the only one that ever leaves, even after the signal is gone.
- `OverInTime`: the clock starts at zero with the shutdown; the timer of a
  deadline that is not over is set to that deadline, which is at most the cap
  (`DeadlineInv`); so the owner waits until at most cap + lag and leaves at most
  exit delay + lag later (`ClockInv`). `CapAssumption` says that this is below the
  shell's timeout: the arithmetic behind "Must be less than the Rust shell's
  STOP_RPC_TIMEOUT" in `lifecycle.ts`.
- `TimeIsGranted`: an owner that gives its clean-up up has seen the deadline
  expire, and an expired deadline is over and is never pushed again.

**Plugins** (`PluginReloadProofs`, `TrayProofs`, `ShortcutsProofs`)

- `ReloadTypeCorrect`, `OneFiber`, `DeathIsReported`, `NoSaveIsLost`, `QuietWhenClosed`:
  one inductive invariant `Inv` serves all five. `BaseInv` says what life the fiber has in
  each phase, so that a build starts over a disposed fiber only, and that a fiber
  nobody asked for exists only after an abandoned phase. `OrphanInv` says that an entry which is no longer
  in the tree has a fiber only if it was taken out in the middle of a reload. `ReportInv` says that a plugin
  that is down was reported or is in a phase that will not end without a fiber or a
  report; it needs `KnownInv`, since an entry that was never started would be a
  silent death. `QueueInv` says that a queued save was tried or is in the queue of a
  run that is going, `GateInv` that only a stop closes the watcher.
- `LastCall`: what was asked for last is the content of the service, and the newest of what is
  queued, chained and pushed (`AskedInv`). Until a push is given up one request is under way at a
  time and it is the push that is first in the chain: not sent, on the link, at work in the reader, or
  on its way back (`FlightInv`). When the service rests it is not sent, and then the cache is what was pushed.
- `PushedHeld`: groups that the shell refuses are nowhere but in the pipe (`RefusedInv`): not in the
  cache, and, as long as no answer was late, neither pushed nor content unless they are still to be
  refused; the roll-back takes them out. It needs `FlightInv`, for the answer that counts as success
  must be to the push that is first in the chain.
- `MenuCurrent`: once the supervisor's observer has seen the last turn, both threads refresh, or one does and has
  read what is current, or none does and the menu the main thread comes to, after
  everything it has queued, is current (`MenuInv`). Two that refresh at once end as `raced`.
- `TypeCorrect` of the publisher bounds the revisions: one for each call and one for the attachment.
- `BoundChordsWork`, `MirrorIsRight`: the invariant follows a chord through the
  link. `MirrorInv`: for a chord that two workers were never at work on together, what was
  read back is what the operating system still holds, and the mirror is right when nobody is
  at work. `PipeInv`: a call that waits is in one place, queued, at work or answered on the
  link. `HeldInv`: a chord the operating system does not hold is one whose binding is
  already undone, by the reader at work or by an answer under way behind every
  answer that would bind it, or a later call to release it timed out (`MaybeReleased`); here the order of the
  link is used. When the host waits for nothing about the
  chord, none of that is left, so the chord is held. Somebody else's asking is excluded by `foreign` and `raced`.

**Files** (`HandsProofs`; `HandsAreInductive`: `HandsInv` is inductive)

- `HandsTypeCorrect` needs `FilesInOrder`, as a file that comes to be takes the next identity, and
  `OptionsFit`, as a call that was accepted has the options its operation allows.
- `WritesAreResumable`: the bytes of a call are in no file but the one it writes to (`OwnBytes`), and there,
  nobody cutting it, they are as many as the chunks taken and lie before the cursor (`OwnAreCounted`): a
  chunk is written behind the last one, by the offset or at the end of the file, whoever else appends. What is
  emptied or overwritten is allowed by the intent that was accepted (`WriteOpened`), and `endOffset`
  is that cursor when the write ends (`WriteEnded`).
- `EndsAreWhole`: a read that was not cut or slipped under never is behind the end of its file, and the file
  whose identity it took is the one it reads (`ReadInv`); so the empty chunk that ends it is the end of
  that file. A listing has counted the readable entries before its cursor (`ListInv`), by induction over
  the batches with `Readable` as a cardinality rather than a recursion.
- `WatchesAreFaithful`: what a watch owes is what it has told and what in its queue concerns the path
  (`WatchInv`); an empty queue leaves nothing owed.

**What the user sees** (`ShellProofs`)

- `PanelTypeCorrect`, `NewestIsShown`, `ListenersEnd`: snapshots are ordered by the moment they
  were true, and generations follow that order (`OrderInv`); mounts that are over are cancelled and
  those to come have nothing (`MountInv`); for the current mount the last snapshot published
  is the last event in its queue, in its seed or in the view (`FlowInv`). The stale rule of
  the panel can then only drop what is older.
- `WindowComes`, `NothingUnmeant`, together `WindowIsObedient`: what is left of a surfacing's plan
  always suffices to bring the window up, unless another operation overlapped it; each command
  goes out in the step of the click or of the answer that means it.

**The start of a host** (`ShellProofs`)

- `StartTypeCorrect`: what is launched and announced is what was resolved for this machine and read from this
  environment, and stays so; a frame in the slot is one that was accepted.
- `StartsAreHonest` has three parts. *The launch* (`LaunchesAreRunnable`) is about the pure functions: a
  directory on the path that is not found first is on no earlier one, because the first is a least
  element (`LeastNatural`, `FoundOnPath`). *The blame* needs `BlameInv`: where the round of the wait is
  says what the checks before it have ruled out, although host and reader go on between them. *The hello*
  (`HelloHides`) is about names as sequences of fragments: a marker spelled in a name with any separators between
  its words (`Spells`) stands together once the separators are gone, because a fragment's place is then its
  rank, ranks rise with places (`RankRises`) and fragments with only separators between them have ranks
  that follow each other (`RankOfNext`); so the search finds it (`SpelledIsFound`). And neither PATH
  nor PUBLIC_KEY is redacted: no marker starts with one of their fragments, and PAT is no whole token of PATH.
  `Normalised` is defined by ranks for this proof: the filter of the library is recursive, and
  nothing can be proved about it here.

**The services** (`ShellProofs`)

- `ServicesTypeCorrect`, `AnswersAreTrue`: who waits for the user waits for a dialog that was shown
  (`DialogInv`), so that what ends it is a choice the dialog has; each route answers by the system as it is
  in that step (`ServeKeeps`, one lemma for each route that changes something), which is why what others do to the
  system later does not make an answer untrue. No route but `register` adds a scheme, and `ValidScheme`
  refuses every spelling of the foreign ones (`ValidIsOwn`).

Only model-checked: liveness and everything about ENABLED, which are out of the prover's
reach; `MenusAreSound`, since menus are walked by recursion over trees, which the
provers cannot follow; and the probe, whose properties are liveness.

## 5. What is abstracted

*Supervisor*: errors of `try_wait`, the texts and codes in the snapshot (last error, last
exit, port), the recording of a bridge failure while the child lives (it changes
nothing else), `command_epoch`, process groups and the Windows job object,
exact times. The watchdogs of repeated exit requests share the thread of the
force quit. *Start*: letters' case in names, the length of anything but the counts
the checks compare; a spawn that fails is a choice. *Peer*: notifications, synchronous
handlers (they are `ShellServices`), JSON and raw carriers; streams have their
request's name. The branch of the data handler for a sink whose stream vanished
meanwhile is kept although no step reaches it. *Files*: paths are one path, its parent and a
sibling; the events of files below a watched directory, which are told under the directory's name, are left out;
comparison of paths is by component; sizes are those of small sequences; metadata other
than identity and size is left out. *Shutdown*: logging, each fiber by name (disposers are counted), the rate limit
and grace period of `restart.ts` (they only suppress requests), an event loop
that runs empty, inputs that are no pipe. The kkrpc library under `stdio.ts`,
Cordis and bun are external: they appear as what their callers see of them.
*Reload*: the module cache and its snapshot, path mapping and watch roots, saves that
the initial scan replays, the content hash, `start` and `close` at the same time.
`include.refresh` is one step, and a refresh's rebuild of the bindings
another. `entry.options.disabled`, which the code sets around the disposal and puts back, is
derived from the phase (`Disabled`). An edit that `include.refresh`
refuses keeps the tree and the bindings, and is left out. *Tray*: labels and ids are members of
small ordered sets; accelerators, icons and tooltips are left out. *Window*: maximized and sizes;
errors of an operation posted from another thread, which that thread cannot see.
*Services*: the routes that pass a call on and its outcome back are one request, and those that only report are another.
*Face*: a snapshot is a value; its fields matter only by being equal. *Probe*: a token is right, wrong or malformed.

## 6. Where code and words differ

Each of these is a run that must find a violation.

1. `parked_unsettled`: a GracefulStop accepted between the supervisor's last drain
   and its decision to park is taken off the channel by `wait_for_start` and
   ignored. The phase stays Stopping, where Start and Restart are refused, although the
   comment says an explicit Start resumes; a ForceKill is accepted, but the same arm
   ignores it and the phase stays. Only the exit of the application leads out.
2. `force_kill_undone`: a ForceKill accepted behind a queued Restart does not keep
   the host down.
3. `stop_not_shown`: the observer is promised "every observable transition". A stop that
   is executed at the top of the loop parks the supervisor without a
   publication; the tray and the face keep showing the phase before it.
4. `binding_lost`: a reload marks its entry disabled while it disposes the old fiber. A
   refresh of the configuration that rebuilds the bindings in that window
   takes the mark for the user's and drops the binding; the reload succeeds, and
   later saves of the plugin are unowned.
5. `tray_stale`: a refresh compares its menu with the one in the tray while the
   main thread has another one queued, finds them equal and returns; the
   queued one is then applied, and the tray stays with a phase that is over.

Remarks without a run of their own.

*A start during the exit.* `dispatch` (`host.rs:285-310`) does not look at AppExit. A Restart that is served
during an exit lifts its fence with `resume_running`, and after a force quit has taken the phase to Stopped a
Start is accepted; the supervisor then launches and adopts over a tree that the exit has not taken yet, and
the adoption drops the older process. `lib.rs:106-112` says that latching AppExit keeps the supervisor from
relaunching. `GenerationsLiveOnce` and `AdoptionIsFresh` name this as their one exception (`lateStart`: a
start was accepted while an exit was going on, the host was to stop and there was a process); a start that
is accepted during an exit at any other moment changes nothing of what they say.

*Supervisor and exit.* The final exit handler cannot see a process launched but not yet
adopted (`host.rs:1217-1247`), although the host "must not outlive the shell"
(`lib.rs:500-502`). A ForceKill during the application's exit replaces the AppExit intent, which
`host.rs:495` calls terminal, by Stopped (`host_lifecycle.rs:223-227`). The snapshots published
"before waiting it out" (`host.rs:829`, 855, 920) precede the Backoff phase. An exit with
code 52 is relaunched without any bound, as documented.

*Start.* A call of `ready` without arguments and a dead link are both reported as "did not
call ready()" after ten seconds. A plugin that opens a dialog before `ready` blocks the reader, and the
host is blamed for silence. An explicit `VRCXK_HOST_BIN` is launched without looking
for its `cordis.yml`. The shell accepts a `bunVersion` over 64 and paths over 4096
characters, which the schema and the host's own guard refuse. The hello's
`launchId` is made for each hello, where its note says for each launch of the shell.

*Peer and probe.* `end_link` drains the calls so that no caller waits out its timeout
(`kkrpc_peer.rs:817-821`); a call that is registered after the drain does (897-912 do not look at the link).
`forget_stream` answers a write after it has unlocked the table, so the failure of the link may be published
before that write is answered. The comment that `forget_stream` "also FAILS EVERY CONSUMER SINK"
(`kkrpc_peer.rs`, near 1150) describes more than the code does, which looks at the same number only.
`kkrpc_peer.rs:485-490` says that the counters of hiccups run out, but a read error resets the count of
bad lines and a line that of read errors, so that alternating ones are tolerated for
ever; and blank lines are not counted, though line 724 says so. The read timeout of the probe's handshake
stays on the socket, so that a client that is silent for three times ten seconds is dropped although its session may
last thirty minutes, and a frame split by such a pause is lost. An answer of the web view that comes late
is received by nobody.

*Files.* `{append: true, truncate: null}` is refused although null is absent elsewhere. A write of no chunk in
append mode reports endOffset 0. A write may open, and thereby empty, a file before its stream is
refused. A file truncated in place during a read, or replaced between the look at its metadata and
the opening, ends Done, although the comment near `hands.rs:665-690` says otherwise. What is created between a refused watch and
the watch of its parent is not reported. A write beyond the end leaves zeros. A `transferWhileCallerAlive`
that waits for its source never ends the write. A plugin that is unloaded during a write ends its stream, and the
shell reports the shorter file as a completed write (`hands.ts:753-782`). The metadata and the identity of a stat may be of two files.
On Windows a path that appears between the refused watch and the look at its absence is reported EUNSUPPORTED.

*Tray and window.* An item with danger "destructive" and `confirm` false is dispatched without a
prompt, although `tray.rs:454-457` says a destructive danger level asks too. A refused content that is asked for
again between two others is taken for the refused one; a push that times out after the shell accepted it leaves the
publisher believing it is in sync with the older one. When an update in place fails half-way, an identical
refresh returns early. Host items whose id begins with `core.host.` are projected like the core's. `show_main_window` off the event loop reads
`is_minimized` before it acts, so that a minimize in between leaves the window down though it reports success (the property
excludes it: `raced`). A close request whose hide fails leaves the window shown.

*Shortcuts.* The comment at `shortcut.rs:171-176` says the mirror cannot drift; it does when the reader of a link and the panel
read back at once (`raced`). Nothing releases a host's chords when it dies. A register that is answered after `close` binds in a closed
service. The call under `register` and `unregister` may time out (`shortcut.ts:142-144`, 164-166) while the request
is on the link: a register that is carried out after that leaves a chord that the operating system holds and no
plugin hears, and an unregister leaves a binding whose chord is gone. The raw capability path (`capability.ts:254-260`) bypasses the bindings.

*Face.* When the shell goes from A to B and back between two publications, a seed B stays. A seed newer than an event under way
is overwritten by it for a moment.

*Services.* `shell.dialog.*` blocks the thread that reads the link. `shell.app.exit` truncates its code (`as i32`): 2^32 is 0.
A scheme can be registered and not released, and the hook of deep links has no scheme in the configuration that would reach it.

*Host.* The handshake race of `index.ts` decides between the codes 0 and 52, which the
code names and accepts (`FirstTriggerOwnsTheExit` holds in either case). In `dev-reload.ts`, a swap that timed out and was restored is reported
`restored-old`, a known state, although the abandoned fiber may come up beside it
(`PluginRunsOnce` says "abandoned" for that reason). A refresh that replaces the entry while a reload awaits
does not stop the reload, and what that builds or restores comes up beside the new entry's fiber, with
nothing timed out (`orphaned`: the plugin runs twice). A save queued behind a run whose entry
was replaced is skipped by it, and the new entry keeps the module it has until the next save. The timeouts of
the phases add up to more than the 25 s of the stop cap that the comment at line 14 relates
them to; and a failed disposal returns `restart-required` at once, where `WATCHER.md`
describes a restore.

## 7. Not modelled

- *Capability audit and overreach* (`capability.ts`, `overreach.ts`): attributes a call to a plugin from call stacks and
  manifests. Sequential bookkeeping; its hard part is the text of a stack trace.
- *Host log* (`log.ts`): one writer that counts bytes and rotates; a failure drops the line, and nothing reads its state.
- *Bridge and proxies* (`stdio.ts`, `shell-extras.ts`, `ws.ts`, `api.ts`), except the stop and restart calls and
  `transferWhileCallerAlive`: they forward a call and its answer. The RPC library under them is external.
- *Panels of the face* other than the lifecycle panel, layout, styles.
- *Contracts, schemas, packages, examples, scripts, probes under `docs/`, `build.rs`*: data, generators, tests and tooling.
- *Of modelled parts*: `forward_deep_link`, which has no scheme to forward; `detachShell`, which nothing calls; the
  Windows job object; recursive watches; the wording of notifications and reports.

## 8. Plan

Everything that keeps state of its own and meets another actor has a module, and every invariant the runs
check is a theorem, except the one about menus. Left, in the order of their worth: the composition of
`HostShutdown` with the stop of `HostSupervisor`, where exit codes decide relaunches; `HandsFiles` under the
streams of `KkrpcPeer`; menus as parent maps instead of trees, so that `MenusAreSound` can be proved.
