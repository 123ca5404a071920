---------------------------- MODULE HostShutdown ----------------------------
(***************************************************************************)
(* How the host leaves (host/src/signal.ts, lifecycle.ts, restart.ts, and  *)
(* the triggers in stdio.ts, stdin-watch.ts and index.ts).  Whoever asks   *)
(* for a shutdown first owns it: it disposes the plugins one after the     *)
(* other, waits for them or for a deadline that they may push forward up   *)
(* to a hard cap, and leaves with its own exit code.  Everybody else is    *)
(* told that a shutdown is in progress.                                    *)
(*                                                                         *)
(* A step is one turn of the event loop, up to the next await.  A disposer *)
(* may settle, fail or hang for ever; the first two are alike here.  Time  *)
(* only passes while a shutdown runs, and a turn may keep the event loop   *)
(* busy: a timer fires up to Lag after it is due, and never before.        *)
(*                                                                         *)
(* Mut... definitions are mistakes this code could contain, in the place   *)
(* of the definition that follows them.                                    *)
(***************************************************************************)
EXTENDS Integers, FiniteSets

CONSTANTS
    Disposers,      \* how many disposers there are, the root's being the last
    InitialTime,    \* GRACEFUL_STOP_TIMEOUT_MS
    HardCap,        \* GRACEFUL_STOP_HARD_CAP_MS
    ExitDelay,      \* the 10 ms between a finished shutdown and its exit
    ShellTimeout,   \* STOP_RPC_TIMEOUT of the shell
    Extensions,     \* what plugins pass to signal.extend
    Lag             \* bound: how long the event loop may be busy

ASSUME TimesAssumption ==
    /\ Disposers \in Nat \ {0}
    /\ InitialTime \in Nat /\ HardCap \in Nat
    /\ ExitDelay \in Nat /\ ShellTimeout \in Nat /\ Lag \in Nat
    /\ Extensions \subseteq Int

(* "Must be less than the Rust shell's STOP_RPC_TIMEOUT".                  *)
ASSUME CapAssumption == HardCap + ExitDelay + 2 * Lag < ShellTimeout

(* The stop and restart requests of the shell, the end of the input, the   *)
(* failed handshake, and a reload that needs a restart.                    *)
Trigger == {"stop", "restart", "stdin", "lost", "dev"}

ExitCode(t) ==
    CASE t \in {"stop", "stdin"}   -> 0
      [] t \in {"restart", "dev"}  -> 51
      [] t = "lost"                -> 52

Running == -1  \* the exit code of a host that has not left
Never   == -1  \* the due time of a timer that is not set

VARIABLES
    attached,  \* the host was started by a shell
    boot,      \* how far bootstrap() is
    stdin,     \* whether the far end of the input is still there
    broken,    \* whether a write to the shell has failed
    provided,  \* ctx.signal is still there
    signal,    \* the ShutdownSignal and its RenewableDeadline
    cleanup,   \* the disposer gracefulStop waits for; 0 before, one past the
               \* last after it
    at,        \* where each trigger is
    exitAt,    \* the exit timer of each trigger
    now,
    first,     \* history: the triggers that asked before anybody else
    exited     \* the exit code of the process

vars == <<attached, boot, stdin, broken, provided, signal, cleanup, at, exitAt,
          now, first, exited>>

linkVars == <<attached, boot, stdin, broken>>
stopVars == <<provided, signal, cleanup, at, exitAt, now, first>>

Finished == cleanup = Disposers + 1

Lesser(a, b) == IF a <= b THEN a ELSE b

-----------------------------------------------------------------------------
(* signal.ts.                                                              *)

(* _schedule: a deadline that is over resolves at once, any other one sets *)
(* the timer, in place of the one that was set.                            *)
Schedule(s) ==
    IF s.deadline <= now THEN [s EXCEPT !.timer = Never, !.expired = TRUE]
                         ELSE [s EXCEPT !.timer = s.deadline]

(* begin, for the caller that is the first.                                *)
Begun(reason) ==
    Schedule([stopping |-> TRUE, reason |-> reason,
              deadline |-> now + Lesser(InitialTime, HardCap),
              hardCap |-> now + HardCap, timer |-> Never, expired |-> FALSE])

MutUncapped(s, ms) ==
    IF s.deadline <= now THEN s
    ELSE Schedule([s EXCEPT !.deadline = s.deadline + ms])

MutNotRescheduled(s, ms) ==
    IF s.deadline <= now THEN s
    ELSE [s EXCEPT !.deadline = Lesser(s.deadline + ms, s.hardCap)]

(* extend: too late once the deadline is over.                             *)
Extended(s, ms) ==
    IF s.deadline <= now THEN s
    ELSE Schedule([s EXCEPT !.deadline = Lesser(s.deadline + ms, s.hardCap)])

(* A disposer, or any other code of a plugin, asks for more time.          *)
Extend ==
    /\ provided /\ signal.stopping
    /\ \E ms \in Extensions : signal' = Extended(signal, ms)
    /\ UNCHANGED <<linkVars, provided, cleanup, at, exitAt, now, first, exited>>

DeadlineFires ==
    /\ signal.timer # Never /\ signal.timer <= now
    /\ signal' = [signal EXCEPT !.timer = Never, !.expired = TRUE]
    /\ UNCHANGED <<linkVars, provided, cleanup, at, exitAt, now, first, exited>>

-----------------------------------------------------------------------------
(* lifecycle.ts: gracefulStopWithTimeout and gracefulStop.                 *)

MutAcquire(t, reason) ==
    /\ provided
    /\ signal' = Begun(reason)
    /\ cleanup' = 1
    /\ at' = [at EXCEPT ![t] = "racing"]
    /\ first' = IF first = {} THEN {t} ELSE first
    /\ UNCHANGED <<provided, exitAt, now>>

(* The first caller begins the shutdown and calls the first disposer.      *)
Acquire(t, reason) ==
    /\ provided /\ ~signal.stopping
    /\ signal' = Begun(reason)
    /\ cleanup' = 1
    /\ at' = [at EXCEPT ![t] = "racing"]
    /\ first' = IF first = {} THEN {t} ELSE first
    /\ UNCHANGED <<provided, exitAt, now>>

(* Any other caller yields, and so does one that comes after the shutdown  *)
(* has torn the signal down with everything else.                          *)
Yield(t) ==
    /\ ~provided \/ signal.stopping
    /\ UNCHANGED stopVars

RequestShutdown(t, reason) == Acquire(t, reason) \/ Yield(t)

(* The disposer that gracefulStop waits for settles, with an error or not, *)
(* and the next one is called: the loader's entries, leaves first, then    *)
(* the other plugins, then the root's own disposables.  The signal was     *)
(* provided before the rest of them, so it goes last.                      *)
DisposerSettles ==
    /\ cleanup \in 1 .. Disposers
    /\ cleanup' = cleanup + 1
    /\ provided' = (cleanup < Disposers)
    /\ UNCHANGED <<linkVars, signal, at, exitAt, now, first, exited>>

MutRaces(t) == at[t] = "racing" /\ Finished

(* Promise.race: the owner goes on when the cleanup is done or the         *)
(* deadline is over, and schedules the exit.                               *)
Races(t) == at[t] = "racing" /\ (Finished \/ signal.expired)

StopWaiting(t) ==
    /\ Races(t)
    /\ at' = [at EXCEPT ![t] = "leaving"]
    /\ exitAt' = [exitAt EXCEPT ![t] = now + ExitDelay]
    /\ UNCHANGED <<linkVars, provided, signal, cleanup, now, first, exited>>

Exit(t) ==
    /\ at[t] = "leaving" /\ exitAt[t] <= now
    /\ exited' = ExitCode(t)
    /\ UNCHANGED <<linkVars, stopVars>>

-----------------------------------------------------------------------------
(* The triggers.                                                           *)

Connected == attached /\ boot \in {"calling", "lost", "up"}

(* connectShellStdio: the shell's stop and restart requests.  The shell    *)
(* may repeat one that it was told is already in progress.                 *)
StopRpc ==
    /\ Connected /\ stdin = "open"
    /\ RequestShutdown("stop", "stop")
    /\ UNCHANGED <<linkVars, exited>>

RestartRpc ==
    /\ Connected /\ stdin = "open"
    /\ RequestShutdown("restart", "restart")
    /\ UNCHANGED <<linkVars, exited>>

(* The reader of the input finds it closed: the transport's onClose with a *)
(* shell, watchStdinClose without one.  It is told once.                   *)
StdinLoss ==
    /\ boot \in {"calling", "lost", "up"} /\ stdin = "closed"
    /\ stdin' = "seen"
    /\ RequestShutdown("stdin", "stop")
    /\ UNCHANGED <<attached, boot, broken, exited>>

(* makeRestartRequester: only a request that is acted on latches; whether  *)
(* the rate limit or the startup grace suppresses it is a matter of time.  *)
DevRestart ==
    /\ attached /\ boot = "up" /\ at["dev"] = "idle"
    /\ RequestShutdown("dev", "restart")
    /\ UNCHANGED <<linkVars, exited>>

(* SIGTERM and SIGINT end the process on the spot.                         *)
Terminate == exited' = 0 /\ UNCHANGED <<linkVars, stopVars>>

-----------------------------------------------------------------------------
(* bootstrap().                                                            *)

(* The shell is called, or without one the input is watched.               *)
Connect ==
    /\ boot = "starting"
    /\ boot' = IF attached THEN "calling" ELSE "up"
    /\ UNCHANGED <<attached, stdin, broken, stopVars, exited>>

ReadyDelivered ==
    /\ boot = "calling" /\ stdin = "open" /\ ~broken
    /\ boot' = "up"
    /\ UNCHANGED <<attached, stdin, broken, stopVars, exited>>

(* A rejection that neither side of the pipe explains is a startup fault.  *)
ReadyFault ==
    /\ boot = "calling" /\ stdin = "open" /\ ~broken
    /\ exited' = 1
    /\ UNCHANGED <<linkVars, stopVars>>

(* The read side is closed or a write has failed: stopOnShellLost.         *)
ReadyLost ==
    /\ boot = "calling" /\ (stdin # "open" \/ broken)
    /\ boot' = "lost"
    /\ RequestShutdown("lost", "stop")
    /\ UNCHANGED <<attached, stdin, broken, exited>>

(* bootstrap waited for the shutdown, or was told that it is not its own,  *)
(* and attaches the services all the same.                                 *)
LostReturns ==
    /\ boot = "lost" /\ at["lost"] # "racing"
    /\ boot' = "up"
    /\ UNCHANGED <<attached, stdin, broken, stopVars, exited>>

Bootstrap ==
    Connect \/ ReadyDelivered \/ ReadyFault \/ ReadyLost \/ LostReturns

-----------------------------------------------------------------------------
(* The environment.                                                        *)

ShellDies ==
    /\ stdin = "open"
    /\ stdin' = "closed"
    /\ UNCHANGED <<attached, boot, broken, stopVars, exited>>

WriteFails ==
    /\ Connected /\ ~broken
    /\ broken' = TRUE
    /\ UNCHANGED <<attached, boot, stdin, stopVars, exited>>

Overdue(due) == due # Never /\ due + Lag <= now

(* Bound: no time passes once the shell has given up, which BeatsTheShell   *)
(* says it never has to.                                                   *)
Tick ==
    /\ signal.stopping /\ now < ShellTimeout
    /\ ~Overdue(signal.timer)
    /\ \A t \in Trigger : ~Races(t) /\ ~Overdue(exitAt[t])
    /\ now' = now + 1
    /\ UNCHANGED <<linkVars, provided, signal, cleanup, at, exitAt, first, exited>>

-----------------------------------------------------------------------------

Init ==
    /\ attached \in BOOLEAN
    /\ boot = "starting"
    /\ stdin = "open"
    /\ broken = FALSE
    /\ provided = TRUE
    /\ signal = [stopping |-> FALSE, reason |-> "none", deadline |-> 0,
                 hardCap |-> 0, timer |-> Never, expired |-> FALSE]
    /\ cleanup = 0
    /\ at = [t \in Trigger |-> "idle"]
    /\ exitAt = [t \in Trigger |-> Never]
    /\ now = 0
    /\ first = {}
    /\ exited = Running

Shutdown ==
    \/ Extend \/ DeadlineFires \/ DisposerSettles
    \/ \E t \in Trigger : StopWaiting(t) \/ Exit(t)

Request == StopRpc \/ RestartRpc \/ StdinLoss \/ DevRestart \/ Terminate

Next ==
    /\ exited = Running
    /\ Shutdown \/ Request \/ Bootstrap \/ ShellDies \/ WriteFails \/ Tick

Spec == Init /\ [][Next]_vars

(* Time passes, and what is due gets its turn.  No disposer is fair.       *)
Fairness ==
    /\ WF_vars(exited = Running /\ Tick)
    /\ WF_vars(exited = Running /\ DeadlineFires)
    /\ \A t \in Trigger : WF_vars(exited = Running /\ (StopWaiting(t) \/ Exit(t)))

FairSpec == Spec /\ Fairness

-----------------------------------------------------------------------------
(* Types.                                                                  *)

ShutdownSignal ==
    [stopping : BOOLEAN, reason : {"none", "stop", "restart"},
     deadline : Int, hardCap : Nat, timer : Int, expired : BOOLEAN]

TypeOK ==
    /\ attached \in BOOLEAN
    /\ boot \in {"starting", "calling", "lost", "up"}
    /\ stdin \in {"open", "closed", "seen"}
    /\ broken \in BOOLEAN
    /\ provided \in BOOLEAN
    /\ signal \in ShutdownSignal
    /\ cleanup \in 0 .. Disposers + 1
    /\ at \in [Trigger -> {"idle", "racing", "leaving"}]
    /\ exitAt \in [Trigger -> Int]
    /\ now \in Nat
    /\ first \in SUBSET Trigger
    /\ exited \in {Running, 0, 1, 51, 52}

-----------------------------------------------------------------------------
(* Safety.                                                                 *)

(* "The first caller wins": of all that ask, whatever the order, and even  *)
(* once the signal itself has been torn down, only the first disposes the  *)
(* plugins and schedules an exit - the one its own code stands for.        *)
FirstTriggerOwnsTheExit ==
    \A t \in Trigger : at[t] # "idle" => first = {t}

(* Plugins get the time they asked for: a cleanup that is given up has     *)
(* used its whole deadline, extensions included.                           *)
NotAbandonedEarly ==
    [][\A t \in Trigger : at[t] = "racing" /\ at'[t] = "leaving" /\ ~Finished
          => signal.deadline <= now]_vars

(* However often it is extended, and whatever hangs, a shutdown is over    *)
(* before the shell gives up waiting and kills the process.                *)
BeatsTheShell == signal.stopping /\ exited = Running => now < ShellTimeout

-----------------------------------------------------------------------------
(* Liveness.                                                               *)

(* Whoever asks, the host leaves, although no disposer need ever settle.   *)
HostLeaves == (first # {}) ~> (exited # Running)

=============================================================================
