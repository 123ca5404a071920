--------------------------- MODULE HostSupervisor ---------------------------
(***************************************************************************)
(* The host supervisor of the shell (src-tauri/src/host.rs), together with *)
(* the threads that race with it: callers of dispatch(), the application   *)
(* exit worker, the force-quit path and the final RunEvent::Exit handler   *)
(* (app_lifecycle.rs, lib.rs).                                             *)
(*                                                                         *)
(* One step of a thread is one region executed under the HostState mutex,  *)
(* or one blocking call outside it.  Receiving a command is folded into    *)
(* the region that follows it: only the supervisor receives, and dispatch  *)
(* only appends, so the two orders of a receive and a dispatch agree.      *)
(*                                                                         *)
(* Time is abstracted: a deadline (ready handshake, stop watchdog, backoff)*)
(* may expire at any round of the loop that polls it, and whether an exit  *)
(* came after the stable window is a nondeterministic choice.              *)
(*                                                                         *)
(* A definition named Mut... is a mistake this code could contain, in the  *)
(* place of the definition that follows it.  Nothing refers to it: it is   *)
(* there to see that the properties notice.                                *)
(***************************************************************************)
EXTENDS HostLifecycle, Integers, Sequences

CONSTANTS
    MaxFailures,     \* StormPolicy.max_failures
    InitialBackoff,  \* StormPolicy.initial_backoff
    MaxBackoff,      \* StormPolicy.max_backoff
    MaxGeneration,   \* MAX_SAFE_INTEGER of host_lifecycle.rs
    Commands,        \* bound of the model: the commands callers give
    MaxDispatches,   \* bound of the model: commands accepted in a behaviour
    AppCanExit       \* whether the application may be asked to exit

ASSUME StormAssumption ==
    /\ MaxFailures \in Nat \ {0}
    /\ InitialBackoff \in Nat \ {0}
    /\ MaxBackoff \in Nat
    /\ InitialBackoff <= MaxBackoff
ASSUME BoundAssumption ==
    /\ MaxGeneration \in Nat
    /\ MaxDispatches \in Nat
    /\ AppCanExit \in BOOLEAN

None == 0
Pids == 1 .. MaxGeneration + 1

(* The supervisor, the worker of a graceful quit or restart, the thread of *)
(* a force quit or of the exit watchdog, and the event loop's final exit.  *)
Threads == {"sup", "app", "force", "exit"}

(* What the operating system knows of a host process.  "other" is every    *)
(* exit that is neither 51 ("restart") nor 52 ("stdio"), with or without a *)
(* code: classify_watch and classify_spawn_exit treat them alike.          *)
ExitKind   == {"other", "restart", "stdio"}
ProcStatus == {"unborn", "running", "reaped"} \cup ExitKind

VARIABLES
    host,         \* HostInner, everything behind the HostState mutex
    queue,        \* the command channel, oldest first
    pc,           \* where each thread is
    cont,         \* where the supervisor continues after a stop or a kill
    failure,      \* why spawn_host_into is about to fail: "retry" or "stdio"
    held,         \* the ProcessTree a thread owns outside the mutex
    procs,        \* the status of every host process
    shown,        \* the phase in the last snapshot given to the observer
    intent,       \* AppLifecycle.intent
    lastAccepted, \* history: the last lifecycle command that was accepted
    lateStart,    \* history: a Start or Restart found a host that an exit stops
    dispatched    \* how many commands were accepted

vars == <<host, queue, pc, cont, failure, held, procs, shown, intent,
          lastAccepted, lateStart, dispatched>>

appVars  == <<intent>>
userVars == <<lastAccepted, lateStart, dispatched>>

-----------------------------------------------------------------------------
(* The methods of HostState that are one region under the mutex, as        *)
(* functions of HostInner.                                                 *)

InitialHost ==
    [gen |-> 0, stopping |-> FALSE, tree |-> None, peer |-> FALSE,
     ready |-> FALSE, phase |-> "Stopped", desired |-> "Running",
     pid |-> None, attempt |-> 0, nextRetry |-> FALSE, failStreak |-> 0,
     backoff |-> InitialBackoff]

(* clear, and the part of reap_tree and request_stop under the mutex.      *)
ClearChild(h) ==
    [h EXCEPT !.tree = None, !.peer = FALSE, !.ready = FALSE, !.pid = None]

ResetStorm(h) ==
    [h EXCEPT !.failStreak = 0, !.backoff = InitialBackoff,
              !.attempt = 0, !.nextRetry = FALSE]

LatchDesired(h, desired) ==
    [h EXCEPT !.stopping = TRUE, !.phase = "Stopping", !.desired = desired]

FinishStopped(h) ==
    [h EXCEPT !.phase = "Stopped", !.pid = None, !.nextRetry = FALSE]

TakeForKill(h) ==
    [h EXCEPT !.tree = None, !.peer = FALSE, !.ready = FALSE,
              !.phase = "Stopping"]

ResumeRunning(h) ==
    [h EXCEPT !.stopping = FALSE, !.desired = "Running", !.phase = "Starting"]

BumpStreak(h) ==
    [h EXCEPT !.failStreak = @ + 1, !.attempt = h.failStreak + 1]

MarkFailed(h) ==
    [h EXCEPT !.phase = "Failed", !.nextRetry = FALSE, !.pid = None]

DoubleBackoff(h) ==
    [h EXCEPT !.backoff = IF 2 * @ <= MaxBackoff THEN 2 * @ ELSE MaxBackoff,
              !.nextRetry = TRUE]

(* note_exit: an exit after the stable window forgives the streak first,   *)
(* and a stable restart request is not charged at all.                     *)
Forgive(h, stable) ==
    IF stable THEN [h EXCEPT !.failStreak = 0, !.backoff = InitialBackoff]
              ELSE h

NoteExit(h, isRestart, stable) ==
    IF isRestart /\ stable
    THEN [Forgive(h, stable) EXCEPT !.attempt = 0, !.nextRetry = FALSE]
    ELSE BumpStreak(Forgive(h, stable))

Adopt(h, p) ==
    [h EXCEPT !.tree = p, !.peer = TRUE, !.ready = FALSE,
              !.phase = "Starting", !.pid = p]

PromoteReady(h) ==
    [h EXCEPT !.ready = TRUE, !.phase = "Ready", !.pid = h.tree,
              !.nextRetry = FALSE]

WantsRunning(h) == h.desired = "Running" /\ ~h.stopping

MutCapped(h) == h.failStreak > MaxFailures

Capped(h)       == h.failStreak >= MaxFailures

(* dispatch: the reducer, then the fence of an accepted command.           *)
Reduced(h, command) ==
    [h EXCEPT !.phase = ReducedPhase(h.phase, command),
              !.desired = ReducedDesired(h.desired, command)]

Dispatched(h, command) ==
    IF command \in StartLike
    THEN ResetStorm([Reduced(h, command) EXCEPT !.stopping = FALSE])
    ELSE [Reduced(h, command) EXCEPT
             !.stopping = command \in StopLike \/ @,
             !.nextRetry = command # "GracefulStop" /\ @]

-----------------------------------------------------------------------------
(* Threads.                                                                *)

(* The process of the shell is gone when its final exit handler is over:   *)
(* none of its threads runs any more.                                      *)
ShellGone == pc["exit"] = "done"

Goto(t, from, to) == ~ShellGone /\ pc[t] = from /\ pc' = [pc EXCEPT ![t] = to]

(* kill_tree, the Drop of a ProcessTree, and a try_wait that reports an    *)
(* exit all leave process p reaped: dead, its status forgotten.            *)
Reaped(p) == IF p = None THEN procs ELSE [procs EXCEPT ![p] = "reaped"]

KillHeld(t) == procs' = Reaped(held[t]) /\ held' = [held EXCEPT ![t] = None]

TakeTree(t) == held' = [held EXCEPT ![t] = host.tree]

Exited(p) == p # None /\ procs[p] \in ExitKind

(* Only the supervisor's program counter and HostInner change.             *)
Quiet == UNCHANGED <<queue, cont, failure, held, procs, shown, appVars, userVars>>

-----------------------------------------------------------------------------
(* Callers of dispatch.  A command that is not accepted changes nothing.   *)
(* It does not look at the intent of the application: a Start or a Restart *)
(* that it accepts during an exit takes the fence away from a host that is *)
(* to be stopped.                                                          *)

Exiting == \E t \in Threads \ {"sup"} : pc[t] # "idle"

ExitStopsHost == Exiting /\ host.stopping /\ host.tree # None

Dispatch(command) ==
    /\ ~ShellGone
    /\ command \in Commands /\ dispatched < MaxDispatches
    /\ Accepted(host.phase, command)
    /\ host' = Dispatched(host, command)
    /\ queue' = IF pc["sup"] = "exited" THEN queue ELSE Append(queue, command)
    /\ lastAccepted' = command
    /\ lateStart' = (lateStart \/ (command \in StartLike /\ ExitStopsHost))
    /\ dispatched' = dispatched + 1
    /\ UNCHANGED <<pc, cont, failure, held, procs, shown, appVars>>

-----------------------------------------------------------------------------
(* supervise_loop.                                                         *)

Publish(from, to) ==
    /\ Goto("sup", from, to)
    /\ shown' = host.phase
    /\ UNCHANGED <<host, queue, cont, failure, held, procs, appVars, userVars>>

Receive(from, command, to) ==
    /\ queue # <<>>
    /\ Head(queue) = command
    /\ queue' = Tail(queue)
    /\ Goto("sup", from, to)
    /\ UNCHANGED <<failure, held, procs, shown, appVars, userVars>>

(* A receive that runs request_stop or force_kill_stopped, then continues. *)
ReceiveAndCall(from, command, procedure, continuation) ==
    /\ Receive(from, command, procedure)
    /\ cont' = continuation
    /\ UNCHANGED host

(* A receive that only resets the storm bookkeeping.                       *)
ReceiveAndReset(from, command, to) ==
    /\ Receive(from, command, to)
    /\ host' = ResetStorm(host)
    /\ UNCHANGED cont

(* A receive without effect on the modelled state: an ignored command, or  *)
(* host_reload, which only asks the child to exit 51.                      *)
ReceiveOnly(from, command, to) ==
    Receive(from, command, to) /\ UNCHANGED <<host, cont>>

ReceiveNothing(from, to) ==
    queue = <<>> /\ Goto("sup", from, to) /\ Quiet /\ UNCHANGED host

LoopTop == Publish("top", "topExit")

LoopExitCheck ==
    /\ Goto("sup", "topExit",
            IF host.desired = "AppExit" THEN "exited" ELSE "drain")
    /\ Quiet /\ UNCHANGED host

Drain ==
    \/ ReceiveAndReset("drain", "Start", "cmdDone")
    \/ ReceiveAndCall("drain", "GracefulStop", "stopLatch", "cmdDone")
    \/ ReceiveAndCall("drain", "ForceKill", "killTake", "cmdDone")
    \/ /\ Receive("drain", "Restart", "hasChild")
       /\ host' = ResetStorm(host)
       /\ cont' = "resumeCmd"
    \/ ReceiveOnly("drain", "Reload", "cmdDone")
    \/ ReceiveNothing("drain", "decide")

CommandDone ==
    /\ Goto("sup", "cmdDone",
            IF host.desired = "AppExit" THEN "exited" ELSE "drain")
    /\ Quiet /\ UNCHANGED host

Decide ==
    /\ Goto("sup", "decide",
            IF WantsRunning(host) THEN "decideCap" ELSE "park")
    /\ Quiet /\ UNCHANGED host

DecideCapped ==
    /\ Goto("sup", "decideCap", IF Capped(host) THEN "park" ELSE "segRecv")
    /\ Quiet /\ UNCHANGED host

MutPark ==
    \/ /\ Goto("sup", "park",
               IF host.desired = "AppExit" THEN "top" ELSE "parkRecv")
       /\ Quiet /\ UNCHANGED host
    \/ \E command \in Command : ReceiveOnly("parkRecv", command, "park")
    \/ ReceiveNothing("parkRecv", "park")

(* wait_for_start: every command but Start and Restart is swallowed.       *)
Park ==
    \/ /\ Goto("sup", "park",
               IF host.desired = "AppExit" THEN "top" ELSE "parkRecv")
       /\ Quiet /\ UNCHANGED host
    \/ \E command \in StartLike : ReceiveOnly("parkRecv", command, "top")
    \/ \E command \in Command \ StartLike :
          ReceiveOnly("parkRecv", command, "park")
    \/ ReceiveNothing("parkRecv", "park")

-----------------------------------------------------------------------------
(* Restart: stop the current generation if there is one, then restore the  *)
(* running intent.  "resumeCmd" returns to the drain, "resumeSeg" leaves   *)
(* the running segment.                                                    *)

HasChild ==
    /\ Goto("sup", "hasChild",
            IF host.tree # None THEN "stopLatch" ELSE cont)
    /\ Quiet /\ UNCHANGED host

Resume ==
    /\ \/ Goto("sup", "resumeCmd", "cmdDone")
       \/ Goto("sup", "resumeSeg", "segDone")
    /\ host' = ResumeRunning(host)
    /\ Quiet

-----------------------------------------------------------------------------
(* request_stop_with_desired, run by the supervisor (desired Stopped) and  *)
(* by the application's exit worker (desired AppExit).                     *)

StopLatch(t) ==
    /\ Goto(t, "stopLatch", "stopPoll")
    /\ host' = LatchDesired(host, IF t = "app" THEN "AppExit" ELSE "Stopped")
    /\ Quiet

(* A poll that finds no child, or finds it exited (a killed process is no  *)
(* longer in the tree): the tree is taken out in a second region.          *)
StopChildGone(t) ==
    /\ host.tree = None \/ Exited(host.tree)
    /\ Goto(t, "stopPoll", "stopTake")
    /\ Quiet /\ UNCHANGED host

(* The watchdog expired: leave the loop for reap_tree.                     *)
StopDeadline(t) ==
    /\ Goto(t, "stopPoll", "stopTake")
    /\ Quiet /\ UNCHANGED host

(* Both ways out clear the handles and take the tree under one lock.       *)
StopTake(t) ==
    /\ Goto(t, "stopTake", "stopKill")
    /\ host' = ClearChild(host)
    /\ TakeTree(t)
    /\ UNCHANGED <<queue, cont, failure, procs, shown, appVars, userVars>>

MutStopKill(t) ==
    /\ Goto(t, "stopKill", "stopFinish")
    /\ held' = [held EXCEPT ![t] = None]
    /\ UNCHANGED <<procs, host, queue, cont, failure, shown, appVars, userVars>>

(* The Drop of the taken tree, or reap_tree's kill_tree.                   *)
StopKill(t) ==
    /\ Goto(t, "stopKill", "stopFinish")
    /\ KillHeld(t)
    /\ UNCHANGED <<host, queue, cont, failure, shown, appVars, userVars>>

StopFinish(t) ==
    /\ Goto(t, "stopFinish", IF t = "sup" THEN cont ELSE "done")
    /\ host' = FinishStopped(host)
    /\ Quiet

Stop(t) == StopLatch(t) \/ StopChildGone(t) \/ StopDeadline(t)
           \/ StopTake(t) \/ StopKill(t) \/ StopFinish(t)

-----------------------------------------------------------------------------
(* force_kill_stopped.  With no tree it returns at once, and the phase is  *)
(* left as it was.                                                         *)

KillTake ==
    \/ /\ host.tree = None
       /\ Goto("sup", "killTake", cont)
       /\ UNCHANGED <<host, held>>
       /\ UNCHANGED <<queue, cont, failure, procs, shown, appVars, userVars>>
    \/ /\ host.tree # None
       /\ Goto("sup", "killTake", "killRun")
       /\ host' = TakeForKill(host)
       /\ TakeTree("sup")
       /\ UNCHANGED <<queue, cont, failure, procs, shown, appVars, userVars>>

KillRun ==
    /\ Goto("sup", "killRun", "killFinish")
    /\ KillHeld("sup")
    /\ UNCHANGED <<host, queue, cont, failure, shown, appVars, userVars>>

KillFinish ==
    /\ Goto("sup", "killFinish", cont)
    /\ host' = FinishStopped(host)
    /\ Quiet

-----------------------------------------------------------------------------
(* run_running_segment.                                                    *)

SegmentReceive ==
    \/ ReceiveAndCall("segRecv", "GracefulStop", "stopLatch", "segDone")
    \/ ReceiveAndCall("segRecv", "ForceKill", "killTake", "segDone")
    \/ \E command \in StartLike : ReceiveAndReset("segRecv", command, "segWants")
    \/ ReceiveOnly("segRecv", "Reload", "segWants")
    \/ ReceiveNothing("segRecv", "segWants")

SegmentWants ==
    /\ Goto("sup", "segWants",
            IF WantsRunning(host) THEN "segCap" ELSE "segDone")
    /\ Quiet /\ UNCHANGED host

SegmentCapped ==
    /\ Goto("sup", "segCap", IF Capped(host) THEN "giveUp" ELSE "fence")
    /\ Quiet /\ UNCHANGED host

GiveUp ==
    /\ Goto("sup", "giveUp", "segDone")
    /\ host' = MarkFailed(host)
    /\ Quiet

SegmentDone == Publish("segDone", "top")

-----------------------------------------------------------------------------
(* spawn_host_into.                                                        *)

SpawnFails(from, to, why) ==
    Goto("sup", from, to) /\ failure' = why

Fence ==
    \/ /\ host.stopping
       /\ SpawnFails("fence", "spawnErr", "retry")
       /\ UNCHANGED <<host, queue, cont, held, procs, shown, appVars, userVars>>
    \/ /\ ~host.stopping
       /\ Goto("sup", "fence", "launch")
       /\ host' = [host EXCEPT !.phase = "Starting", !.desired = "Running"]
       /\ Quiet

(* start_host_process.  The new process is owned by the supervisor alone   *)
(* until it is adopted.                                                    *)
Launch ==
    \/ /\ SpawnFails("launch", "spawnErr", "retry")
       /\ UNCHANGED <<host, queue, cont, held, procs, shown, appVars, userVars>>
    \/ /\ Goto("sup", "launch", "allocate")
       /\ held' = [held EXCEPT !["sup"] = host.gen + 1]
       /\ procs' = [procs EXCEPT ![host.gen + 1] = "running"]
       /\ UNCHANGED <<host, queue, cont, failure, shown, appVars, userVars>>

Allocate ==
    \/ /\ host.gen < MaxGeneration
       /\ Goto("sup", "allocate", "adopt")
       /\ host' = [host EXCEPT !.gen = @ + 1]
       /\ Quiet
    \/ /\ host.gen >= MaxGeneration
       /\ Goto("sup", "allocate", "refused")
       /\ Quiet /\ UNCHANGED host

MutAdoptInflight ==
    /\ Goto("sup", "adopt", "await")
    /\ host' = Adopt(host, held["sup"])
    /\ held' = [held EXCEPT !["sup"] = None]
    /\ procs' = Reaped(host.tree)
    /\ UNCHANGED <<queue, cont, failure, shown, appVars, userVars>>

(* adopt_inflight.  Its generation test cannot fail: nobody else allocates.*)
(* Overwriting a tree would drop, and so kill, the old one.                *)
AdoptInflight ==
    \/ /\ host.stopping
       /\ Goto("sup", "adopt", "refused")
       /\ Quiet /\ UNCHANGED host
    \/ /\ ~host.stopping
       /\ Goto("sup", "adopt", "await")
       /\ host' = Adopt(host, held["sup"])
       /\ held' = [held EXCEPT !["sup"] = None]
       /\ procs' = Reaped(host.tree)
       /\ UNCHANGED <<queue, cont, failure, shown, appVars, userVars>>

MutKillRefused ==
    /\ SpawnFails("refused", "spawnErr", "retry")
    /\ held' = [held EXCEPT !["sup"] = None]
    /\ UNCHANGED <<procs, host, queue, cont, shown, appVars, userVars>>

(* A process that could not be adopted is killed by its owner.             *)
KillRefused ==
    /\ SpawnFails("refused", "spawnErr", "retry")
    /\ KillHeld("sup")
    /\ UNCHANGED <<host, queue, cont, shown, appVars, userVars>>

(* wait_until_ready_in_state: still_current, then the ready slot, the      *)
(* refusal slot, the child's exit and the deadline, round after round.     *)
AwaitCurrent ==
    \/ /\ host.stopping
       /\ SpawnFails("await", "reap", "retry")
       /\ UNCHANGED <<host, queue, cont, held, procs, shown, appVars, userVars>>
    \/ /\ ~host.stopping
       /\ Goto("sup", "await", "awaitPoll")
       /\ Quiet /\ UNCHANGED host

AwaitReady == Goto("sup", "awaitPoll", "ping") /\ Quiet /\ UNCHANGED host

MutAwaitFailed ==
    /\ SpawnFails("awaitPoll", "spawnErr", "retry")
    /\ UNCHANGED <<host, queue, cont, held, procs, shown, appVars, userVars>>

(* A refused handshake and an expired deadline fail in the same way.       *)
AwaitFailed ==
    /\ SpawnFails("awaitPoll", "reap", "retry")
    /\ UNCHANGED <<host, queue, cont, held, procs, shown, appVars, userVars>>

AwaitExited ==
    /\ Exited(host.tree)
    /\ SpawnFails("awaitPoll", "reap",
                  IF procs[host.tree] = "stdio" THEN "stdio" ELSE "retry")
    /\ host' = ClearChild(host)
    /\ procs' = Reaped(host.tree)
    /\ UNCHANGED <<queue, cont, held, shown, appVars, userVars>>

AwaitAgain ==
    /\ ~Exited(host.tree)
    /\ Goto("sup", "awaitPoll", "await")
    /\ Quiet /\ UNCHANGED host

Ping ==
    \/ /\ host.peer
       /\ Goto("sup", "ping", "promote")
       /\ Quiet /\ UNCHANGED host
    \/ /\ SpawnFails("ping", "reap", "retry")
       /\ UNCHANGED <<host, queue, cont, held, procs, shown, appVars, userVars>>

Promote ==
    \/ /\ host.stopping \/ host.tree = None
       /\ SpawnFails("promote", "reap", "retry")
       /\ UNCHANGED <<host, queue, cont, held, procs, shown, appVars, userVars>>
    \/ /\ ~host.stopping /\ host.tree # None
       /\ Goto("sup", "promote", "announce")
       /\ host' = PromoteReady(host)
       /\ Quiet

(* Every failure after the adoption reaps the tree before it returns.      *)
ReapSpawn ==
    \/ /\ Goto("sup", "reap", "reapKill")
       /\ host' = ClearChild(host)
       /\ TakeTree("sup")
       /\ UNCHANGED <<queue, cont, failure, procs, shown, appVars, userVars>>
    \/ /\ Goto("sup", "reapKill", "spawnErr")
       /\ KillHeld("sup")
       /\ UNCHANGED <<host, queue, cont, failure, shown, appVars, userVars>>

Spawn ==
    \/ Fence \/ Launch \/ Allocate \/ AdoptInflight \/ KillRefused
    \/ AwaitCurrent \/ AwaitReady \/ AwaitFailed \/ AwaitExited \/ AwaitAgain
    \/ Ping \/ Promote \/ ReapSpawn

-----------------------------------------------------------------------------
(* What the segment does with the outcome of a spawn.  The failure is      *)
(* consumed.                                                               *)

AnnounceReady == Publish("announce", "watch")

SpawnError ==
    /\ Goto("sup", "spawnErr",
            IF ~WantsRunning(host) THEN "segDone"
            ELSE IF failure = "stdio" THEN "stdioLost" ELSE "bump")
    /\ failure' = "retry"
    /\ UNCHANGED <<host, queue, cont, held, procs, shown, appVars, userVars>>

(* Exit 52 is relaunched at once, uncharged and without backoff.           *)
StdioLost == Publish("stdioLost", "segRecv")

ChargeSpawn ==
    /\ Goto("sup", "bump", "capCheck")
    /\ host' = BumpStreak(host)
    /\ Quiet

CapCheck ==
    /\ Goto("sup", "capCheck", IF Capped(host) THEN "giveUp" ELSE "pubBackoff")
    /\ Quiet /\ UNCHANGED host

PublishBackoff == Publish("pubBackoff", "sleepFirst")

-----------------------------------------------------------------------------
(* watch_until_exit.  The bridge-failure poll only records lastError.      *)

WatchReceive ==
    \/ ReceiveAndCall("watch", "GracefulStop", "stopLatch", "segDone")
    \/ ReceiveAndCall("watch", "ForceKill", "killTake", "segDone")
    \/ /\ Receive("watch", "Restart", "hasChild")
       /\ host' = ResetStorm(host)
       /\ cont' = "resumeSeg"
    \/ \E command \in {"Reload", "Start"} :
          ReceiveOnly("watch", command, "watchFlags")
    \/ ReceiveNothing("watch", "watchFlags")

WatchFlags ==
    /\ Goto("sup", "watchFlags",
            IF host.desired = "AppExit" \/ host.stopping
            THEN "segDone" ELSE "watchChild")
    /\ Quiet /\ UNCHANGED host

MutWatchChild ==
    \/ /\ host.tree = None
       /\ Goto("sup", "watchChild", "segDone")
       /\ Quiet /\ UNCHANGED host
    \/ /\ Exited(host.tree)
       /\ Goto("sup", "watchChild",
               CASE procs[host.tree] = "restart" -> "noteRestart"
                 [] procs[host.tree] = "stdio"   -> "stdioLost"
                 [] procs[host.tree] = "other"   -> "noteCrash")
       /\ procs' = Reaped(host.tree)
       /\ UNCHANGED <<host, queue, cont, failure, held, shown, appVars, userVars>>
    \/ /\ host.tree # None /\ ~Exited(host.tree)
       /\ Goto("sup", "watchChild", "watch")
       /\ Quiet /\ UNCHANGED host

WatchChild ==
    \/ /\ host.tree = None
       /\ Goto("sup", "watchChild", "segDone")
       /\ Quiet /\ UNCHANGED host
    \/ /\ Exited(host.tree)
       /\ Goto("sup", "watchChild",
               CASE procs[host.tree] = "restart" -> "noteRestart"
                 [] procs[host.tree] = "stdio"   -> "stdioLost"
                 [] procs[host.tree] = "other"   -> "noteCrash")
       /\ host' = ClearChild(host)
       /\ procs' = Reaped(host.tree)
       /\ UNCHANGED <<queue, cont, failure, held, shown, appVars, userVars>>
    \/ /\ host.tree # None /\ ~Exited(host.tree)
       /\ Goto("sup", "watchChild", "watch")
       /\ Quiet /\ UNCHANGED host

(* A stable restart request is relaunched at once: its streak is 0, so the *)
(* cap test that follows it in the code cannot succeed.                    *)
ChargeExit ==
    /\ \E stable \in BOOLEAN :
          \/ /\ Goto("sup", "noteCrash", "capCheck")
             /\ host' = NoteExit(host, FALSE, stable)
          \/ /\ Goto("sup", "noteRestart", IF stable THEN "segRecv" ELSE "capCheck")
             /\ host' = NoteExit(host, TRUE, stable)
    /\ Quiet

-----------------------------------------------------------------------------
(* sleep_or_stop: one round tests the intent, then, under a lock of its    *)
(* own, sets phase Backoff whatever the phase is by then, then receives.   *)
(* A backoff is hundreds of milliseconds: its first round always runs.     *)

SleepCheck ==
    /\ \E from \in {"sleepFirst", "sleep"} :
          Goto("sup", from,
               IF WantsRunning(host) THEN "sleepMark" ELSE "segDone")
    /\ Quiet /\ UNCHANGED host

SleepMark ==
    /\ Goto("sup", "sleepMark", "sleepRecv")
    /\ host' = [host EXCEPT !.phase = "Backoff", !.nextRetry = TRUE]
    /\ Quiet

SleepReceive ==
    \/ \E command \in StartLike : ReceiveAndReset("sleepRecv", command, "segRecv")
    \/ ReceiveAndCall("sleepRecv", "GracefulStop", "stopLatch", "segDone")
    \/ ReceiveAndCall("sleepRecv", "ForceKill", "killTake", "segDone")
    \/ ReceiveOnly("sleepRecv", "Reload", "sleep")
    \/ ReceiveNothing("sleepRecv", "sleep")

SleepElapsed ==
    /\ Goto("sup", "sleep", IF WantsRunning(host) THEN "double" ELSE "segDone")
    /\ Quiet /\ UNCHANGED host

Lengthen ==
    /\ Goto("sup", "double", "segRecv")
    /\ host' = DoubleBackoff(host)
    /\ Quiet

-----------------------------------------------------------------------------
(* The supervisor thread.                                                  *)

Supervise ==
    \/ LoopTop \/ LoopExitCheck \/ Drain \/ CommandDone
    \/ Decide \/ DecideCapped \/ Park \/ HasChild \/ Resume
    \/ Stop("sup") \/ KillTake \/ KillRun \/ KillFinish
    \/ SegmentReceive \/ SegmentWants \/ SegmentCapped \/ GiveUp \/ SegmentDone
    \/ Spawn \/ AnnounceReady \/ SpawnError \/ StdioLost \/ ChargeSpawn
    \/ CapCheck \/ PublishBackoff
    \/ WatchReceive \/ WatchFlags \/ WatchChild \/ ChargeExit
    \/ SleepCheck \/ SleepMark \/ SleepReceive \/ SleepElapsed \/ Lengthen

-----------------------------------------------------------------------------
(* The application's own lifecycle (AppLifecycle::begin and lib.rs).       *)

Intent == {"Running", "Restarting", "Quitting", "ForceQuitting"}

BeginGraceful ==
    /\ AppCanExit
    /\ intent = "Running"
    /\ intent' \in {"Restarting", "Quitting"}
    /\ Goto("app", "idle", "appLatch")
    /\ UNCHANGED <<host, queue, cont, failure, held, procs, shown, userVars>>

(* latch_app_exit on the calling thread, before the worker is spawned.     *)
AppLatch ==
    /\ Goto("app", "appLatch", "stopLatch")
    /\ host' = LatchDesired(host, "AppExit")
    /\ Quiet

(* QuitForce may escalate whatever is in progress; it runs force_app_exit. *)
BeginForce ==
    /\ AppCanExit
    /\ intent # "ForceQuitting"
    /\ intent' = "ForceQuitting"
    /\ Goto("force", "idle", "reapLatch")
    /\ UNCHANGED <<host, queue, cont, failure, held, procs, shown, userVars>>

(* A repeated exit request during a graceful quit arms the exit watchdog,  *)
(* which also runs force_app_exit.                                         *)
Watchdog ==
    /\ intent = "Quitting"
    /\ Goto("force", "idle", "reapLatch")
    /\ Quiet /\ UNCHANGED host

(* RunEvent::Exit: a worker asked for the exit, or the event loop was      *)
(* asked to exit while another command than a quit was in progress.        *)
RunEventExit ==
    /\ \/ pc["app"] = "done"
       \/ pc["force"] = "done"
       \/ intent \in {"Restarting", "ForceQuitting"}
    /\ Goto("exit", "idle", "reapLatch")
    /\ Quiet /\ UNCHANGED host

MutForceAppExit(t) ==
    \/ /\ Goto(t, "reapLatch", "reapTake")
       /\ host' = ClearChild(host)
       /\ TakeTree(t)
       /\ UNCHANGED <<queue, cont, failure, procs, shown, appVars, userVars>>
    \/ /\ Goto(t, "reapTake", "reapKill")
       /\ host' = LatchDesired(host, "AppExit")
       /\ Quiet
    \/ /\ Goto(t, "reapKill", "done")
       /\ KillHeld(t)
       /\ UNCHANGED <<host, queue, cont, failure, shown, appVars, userVars>>

(* force_app_exit; the event loop's one is the last thing the shell does.  *)
ForceAppExit(t) ==
    \/ /\ Goto(t, "reapLatch", "reapTake")
       /\ host' = LatchDesired(host, "AppExit")
       /\ Quiet
    \/ /\ Goto(t, "reapTake", "reapKill")
       /\ host' = ClearChild(host)
       /\ TakeTree(t)
       /\ UNCHANGED <<queue, cont, failure, procs, shown, appVars, userVars>>
    \/ /\ Goto(t, "reapKill", "done")
       /\ KillHeld(t)
       /\ UNCHANGED <<host, queue, cont, failure, shown, appVars, userVars>>

App ==
    \/ BeginGraceful \/ AppLatch \/ Stop("app")
    \/ BeginForce \/ Watchdog \/ ForceAppExit("force")
    \/ RunEventExit \/ ForceAppExit("exit")

-----------------------------------------------------------------------------
(* The host process may exit at any time, with any status.                 *)

ChildExit(p) ==
    /\ procs[p] = "running"
    /\ \E how \in ExitKind : procs' = [procs EXCEPT ![p] = how]
    /\ UNCHANGED <<host, queue, pc, cont, failure, held, shown, appVars, userVars>>

-----------------------------------------------------------------------------

Init ==
    /\ host = InitialHost
    /\ queue = <<>>
    /\ pc = [t \in Threads |-> IF t = "sup" THEN "top" ELSE "idle"]
    /\ cont = "cmdDone"
    /\ failure = "retry"
    /\ held = [t \in Threads |-> None]
    /\ procs = [p \in Pids |-> "unborn"]
    /\ shown = "Stopped"
    /\ intent = "Running"
    /\ lastAccepted = "Start" /\ lateStart = FALSE
    /\ dispatched = 0

Next ==
    \/ Supervise
    \/ App
    \/ \E command \in Command : Dispatch(command)
    \/ \E p \in Pids : ChildExit(p)

Spec == Init /\ [][Next]_vars

(* Weak fairness of the supervisor thread, which the scheduler runs.  The  *)
(* deadlines are strongly fair: real time passes while their loops go      *)
(* round, so a loop that is polled for ever does reach its deadline.       *)
Fairness ==
    /\ WF_vars(Supervise)
    /\ SF_vars(AwaitFailed)
    /\ SF_vars(SleepElapsed)

FairSpec == Spec /\ Fairness

-----------------------------------------------------------------------------
(* Types.                                                                  *)

SupLabel ==
    {"top", "topExit", "exited", "drain", "cmdDone", "decide", "decideCap",
     "park", "parkRecv", "hasChild", "resumeCmd", "resumeSeg",
     "stopLatch", "stopPoll", "stopTake", "stopKill", "stopFinish",
     "killTake", "killRun", "killFinish",
     "segRecv", "segWants", "segCap", "giveUp", "segDone",
     "fence", "launch", "allocate", "adopt", "refused", "await", "awaitPoll",
     "ping", "promote", "reap", "reapKill", "announce", "spawnErr",
     "stdioLost", "bump", "capCheck", "pubBackoff",
     "watch", "watchFlags", "watchChild", "noteCrash", "noteRestart",
     "sleepFirst", "sleep", "sleepMark", "sleepRecv", "double"}

Continuation == {"cmdDone", "segDone", "resumeCmd", "resumeSeg"}

AppLabel ==
    {"idle", "appLatch", "stopLatch", "stopPoll", "stopTake", "stopKill",
     "stopFinish", "done"}

ExitLabel == {"idle", "reapLatch", "reapTake", "reapKill", "done"}

PidOrNone == Pids \cup {None}

HostInner ==
    [gen : 0 .. MaxGeneration, stopping : BOOLEAN, tree : PidOrNone,
     peer : BOOLEAN, ready : BOOLEAN, phase : Phase, desired : Desired,
     pid : PidOrNone, attempt : Nat, nextRetry : BOOLEAN, failStreak : Nat,
     backoff : InitialBackoff .. MaxBackoff]

TypeOK ==
    /\ host \in HostInner
    /\ queue \in Seq(Command)
    /\ pc \in [Threads -> SupLabel \cup AppLabel \cup ExitLabel]
    /\ pc["sup"] \in SupLabel
    /\ pc["app"] \in AppLabel
    /\ pc["force"] \in ExitLabel
    /\ pc["exit"] \in ExitLabel
    /\ cont \in Continuation
    /\ failure \in {"retry", "stdio"}
    /\ held \in [Threads -> PidOrNone]
    /\ procs \in [Pids -> ProcStatus]
    /\ shown \in Phase
    /\ intent \in Intent
    /\ lastAccepted \in Command /\ lateStart \in BOOLEAN
    /\ dispatched \in Nat

-----------------------------------------------------------------------------
(* Safety.                                                                 *)

Running == {p \in Pids : procs[p] = "running"}

(* The labels at which a generation is being started or watched.           *)
Attempting ==
    {"fence", "launch", "allocate", "adopt", "await", "awaitPoll", "ping",
     "promote", "announce", "watch", "watchFlags", "watchChild", "noteCrash",
     "noteRestart", "spawnErr", "bump", "reap", "reapKill", "refused",
     "stdioLost"}

(* The storm budget: the streak never passes its cap, the attempt shown to *)
(* the user is the streak, and nothing is spawned, watched or relaunched   *)
(* once the cap is reached - whatever commands and exits interleave.       *)
StormBudget ==
    /\ host.failStreak <= MaxFailures
    /\ host.attempt = host.failStreak
    /\ pc["sup"] \in Attempting => ~Capped(host)

(* No leak: a live host process is the adopted tree, or some thread owns   *)
(* it and is about to adopt or kill it.  A failed spawn, a stop, a kill    *)
(* and an exit may each be interrupted by all the others.                  *)
NoLeakedHost ==
    \A p \in Running : p = host.tree \/ \E t \in Threads : held[t] = p

(* Why: a thread holds a process only between taking or launching it and   *)
(* giving it away, so nothing it holds is ever overwritten, and a process  *)
(* that has not been reaped is always in somebody's hands.                 *)
Owning == {"allocate", "adopt", "refused", "stopKill", "killRun", "reapKill"}

Ownership ==
    /\ \A p \in Pids : procs[p] \notin {"unborn", "reaped"} =>
          p = host.tree \/ \E t \in Threads : held[t] = p
    /\ \A t \in Threads : held[t] # None => pc[t] \in Owning
    /\ pc["sup"] \in {"allocate", "adopt"} => held["sup"] # None

(* The supervisor is the only thread that spawns, so two hosts never run   *)
(* at once while the application is not exiting.                           *)
OneHost == \A p, q \in Running : p = q

(* The handles of a generation come and go together, on every path that    *)
(* adopts, clears, takes or reaps a tree: a peer without a tree would let  *)
(* shell capabilities talk to a dead host, a tree without a peer would     *)
(* watch a host nobody can stop.  The pid that is shown is the tree's or   *)
(* none; only while a force kill is at work it is the one being killed.    *)
HandlesTogether ==
    /\ host.peer <=> host.tree # None
    /\ host.ready => host.peer
    /\ \/ host.pid \in {None, host.tree}
       \/ host.tree = None /\ pc["sup"] \in {"killRun", "killFinish"}

(* While the application is not exiting the snapshot names the adopted     *)
(* process, and no other but one that is being force-killed.               *)
SnapshotNamesChild ==
    /\ host.tree # None => host.pid = host.tree
    /\ host.pid # None /\ host.tree = None =>
          pc["sup"] \in {"killRun", "killFinish"}

(* A supervisor parked in wait_for_start has no child: every path into it  *)
(* that leaves a running segment goes through the drain, which executes    *)
(* the command that set `stopping`.                                        *)
ParkedHasNoChild ==
    pc["sup"] \in {"park", "parkRecv"} => host.tree = None

(* A supervisor that returned because the application is exiting may leave *)
(* a child behind, but never one that nobody will reap: a thread of the    *)
(* exit still has its own take of the tree before it.                      *)
AbandonedChildIsReaped ==
    pc["sup"] = "exited" /\ host.tree # None =>
        \/ pc["app"] \in {"stopLatch", "stopPoll", "stopTake"}
        \/ \E t \in {"force", "exit"} : pc[t] \in {"reapLatch", "reapTake"}

(* A pending retry is only advertised around a backoff: a stopped, failed  *)
(* or ready host never shows one.                                          *)
NoStaleRetry == host.nextRetry => host.phase \notin {"Ready", "Failed", "Stopped"}

(* What wait_for_start is documented to wait in: with no command left to   *)
(* execute, a parked supervisor shows Stopped or Failed, the two phases    *)
(* from which an explicit Start or Restart recovers.                       *)
ParkedIsSettled ==
    pc["sup"] = "parkRecv" /\ queue = <<>> => host.phase \in {"Stopped", "Failed"}

(* What the observer is documented to be told, "every observable           *)
(* transition": a parked supervisor with no command left to execute has    *)
(* published the settled phase it waits in.                                *)
ParkedIsShown ==
    pc["sup"] = "parkRecv" /\ queue = <<>> /\ host.phase \in {"Stopped", "Failed"} =>
        shown = host.phase

(* What is shown is what there is: while the application is not exiting    *)
(* there is one host at most, the snapshot names it and advertises a retry *)
(* only where one can come, and a parked supervisor has none.              *)
SnapshotIsTrue ==
    OneHost /\ SnapshotNamesChild /\ ParkedHasNoChild /\ NoStaleRetry

-----------------------------------------------------------------------------
(* Action properties.                                                      *)

(* Adoption is the point of no return of a spawn.                          *)
AdoptionStep == pc["sup"] = "adopt" /\ pc'["sup"] = "await"

(* A graceful stop sticks: no process is adopted while the last accepted   *)
(* command is a graceful stop, although the command may still be queued    *)
(* behind a Restart that restores the running intent.                      *)
GracefulStopSticks == [][AdoptionStep => lastAccepted # "GracefulStop"]_vars

(* The same promise for ForceKill: "no automatic relaunch".                *)
ForceKillSticks == [][AdoptionStep => lastAccepted # "ForceKill"]_vars

(* Generations are only ever adopted in order, and never over a live tree, *)
(* unless a Start or a Restart was accepted although an exit stops a host. *)
AdoptionIsFresh ==
    [][AdoptionStep => /\ host.tree = None \/ lateStart
                       /\ host'.tree = host.gen
                       /\ procs[host.gen] # "reaped"]_vars

-----------------------------------------------------------------------------
(* Liveness.                                                               *)

(* An accepted graceful stop ends the child, wherever the supervisor was,  *)
(* unless a later command takes the intent back.                           *)
StopEndsChild ==
    lastAccepted = "GracefulStop"
        ~> (Running = {} \/ lastAccepted # "GracefulStop")

(* A running intent is served: it leads to a child, to a storm cap or to a *)
(* change of intent, and never leaves the supervisor idle.                 *)
RunningIntentIsServed ==
    WantsRunning(host) ~>
        (host.tree # None \/ host.phase = "Failed" \/ ~WantsRunning(host))

-----------------------------------------------------------------------------
(* Refinement.                                                             *)

LifeOf(p) ==
    CASE procs[p] = "unborn"   -> "unborn"
      [] procs[p] = "reaped"   -> "dead"
      [] procs[p] \notin {"unborn", "reaped"} ->
            IF p = host.tree THEN "adopted"
            ELSE IF held["sup"] = p /\ pc["sup"] \in {"allocate", "adopt"}
            THEN "private"
            ELSE IF \E t \in Threads : held[t] = p THEN "condemned"
            ELSE "leaked"

Generations == INSTANCE HostGenerations WITH
    Last <- MaxGeneration + 1,
    late <- lateStart,
    life <- [p \in Pids |-> LifeOf(p)]

(* Every process goes through the life HostGenerations promises, one step  *)
(* at a time: it is adopted once, over nothing unless a Start or a Restart *)
(* was accepted although an exit stops a host, and a taken process is      *)
(* killed by the thread that took it, whichever threads stop, kill, quit   *)
(* or exit meanwhile.                                                      *)
GenerationsLiveOnce == Generations!Spec

=============================================================================
