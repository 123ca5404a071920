----------------------- MODULE HostSupervisorProofs -----------------------
(***************************************************************************)
(* Proofs about the host supervisor, for every storm policy, every number  *)
(* of generations and commands, and with the application exiting or not:   *)
(* its types, the storm budget, the ownership of host processes and the    *)
(* handles of a generation; and what rests on that ownership: whose        *)
(* process is whose, that the application's exit leaves no child behind,   *)
(* that a stop sticks, that snapshots tell the truth, and that the         *)
(* supervisor implements HostGenerations.                                  *)
(***************************************************************************)
EXTENDS HostSupervisor, TLAPS

LEMMA BackoffRange ==
    /\ MaxFailures \in Nat /\ MaxFailures > 0
    /\ InitialBackoff \in InitialBackoff .. MaxBackoff
    /\ \A b \in InitialBackoff .. MaxBackoff :
          (IF 2 * b <= MaxBackoff THEN 2 * b ELSE MaxBackoff)
              \in InitialBackoff .. MaxBackoff
BY StormAssumption

(* The methods of HostState keep HostInner well formed.                    *)
LEMMA ReducerType ==
    ASSUME NEW phase \in Phase, NEW desired \in Desired, NEW command \in Command
    PROVE  /\ ReducedPhase(phase, command) \in Phase
           /\ ReducedDesired(desired, command) \in Desired
BY DEF ReducedPhase, ReducedDesired, Phase, Desired, Command, StartLike, StopLike

LEMMA ResetStormType == \A h \in HostInner : ResetStorm(h) \in HostInner
BY BackoffRange DEF HostInner, ResetStorm

LEMMA BumpStreakType == \A h \in HostInner : BumpStreak(h) \in HostInner
<1> SUFFICES ASSUME NEW h \in HostInner PROVE BumpStreak(h) \in HostInner
  OBVIOUS
<1>1. h.failStreak \in Nat /\ h.failStreak + 1 \in Nat
  BY DEF HostInner
<1> QED BY <1>1 DEF HostInner, BumpStreak

LEMMA DispatchedType ==
    ASSUME NEW h \in HostInner, NEW command \in Command
    PROVE  Dispatched(h, command) \in HostInner
<1>1. Reduced(h, command) \in HostInner
  BY ReducerType DEF HostInner, Reduced
<1>2. CASE command \in StartLike
  <2>1. [Reduced(h, command) EXCEPT !.stopping = FALSE] \in HostInner
    BY <1>1 DEF HostInner
  <2> QED BY <1>2, <2>1, ResetStormType DEF Dispatched
<1>3. CASE command \notin StartLike
  BY <1>1, <1>3 DEF Dispatched, HostInner
<1> QED BY <1>2, <1>3

LEMMA PhaseType ==
    \A h \in HostInner :
        /\ [h EXCEPT !.phase = "Starting", !.desired = "Running"] \in HostInner
        /\ [h EXCEPT !.phase = "Backoff", !.nextRetry = TRUE] \in HostInner
BY DEF HostInner, Phase, Desired

LEMMA MethodType ==
    ASSUME NEW h \in HostInner
    PROVE  /\ ClearChild(h) \in HostInner
           /\ ResetStorm(h) \in HostInner
           /\ \A d \in Desired : LatchDesired(h, d) \in HostInner
           /\ FinishStopped(h) \in HostInner
           /\ TakeForKill(h) \in HostInner
           /\ ResumeRunning(h) \in HostInner
           /\ BumpStreak(h) \in HostInner
           /\ MarkFailed(h) \in HostInner
           /\ DoubleBackoff(h) \in HostInner
           /\ \A r, s \in BOOLEAN : NoteExit(h, r, s) \in HostInner
           /\ \A p \in PidOrNone : Adopt(h, p) \in HostInner
           /\ PromoteReady(h) \in HostInner
<1> USE DEF HostInner, Phase, Desired, PidOrNone
<1>1. ClearChild(h) \in HostInner
  BY DEF ClearChild
<1>2. ResetStorm(h) \in HostInner
  BY ResetStormType
<1>3. \A d \in Desired : LatchDesired(h, d) \in HostInner
  BY DEF LatchDesired
<1>4. FinishStopped(h) \in HostInner
  BY DEF FinishStopped
<1>5. TakeForKill(h) \in HostInner
  BY DEF TakeForKill
<1>6. ResumeRunning(h) \in HostInner
  BY DEF ResumeRunning
<1>7. BumpStreak(h) \in HostInner
  BY BumpStreakType
<1>8. MarkFailed(h) \in HostInner
  BY DEF MarkFailed
<1>9. DoubleBackoff(h) \in HostInner
  BY BackoffRange DEF DoubleBackoff
<1>10. \A r, s \in BOOLEAN : NoteExit(h, r, s) \in HostInner
  <2> SUFFICES ASSUME NEW r \in BOOLEAN, NEW s \in BOOLEAN
               PROVE  NoteExit(h, r, s) \in HostInner
    OBVIOUS
  <2>1. Forgive(h, s) \in HostInner
    BY BackoffRange DEF Forgive
  <2>2. BumpStreak(Forgive(h, s)) \in HostInner
    BY <2>1, BumpStreakType
  <2>3. [Forgive(h, s) EXCEPT !.attempt = 0, !.nextRetry = FALSE] \in HostInner
    BY <2>1
  <2>4. CASE r /\ s
    BY <2>3, <2>4 DEF NoteExit
  <2>5. CASE ~(r /\ s)
    BY <2>2, <2>5 DEF NoteExit
  <2> QED BY <2>4, <2>5
<1>11. \A p \in PidOrNone : Adopt(h, p) \in HostInner
  BY DEF Adopt
<1>12. PromoteReady(h) \in HostInner
  BY DEF PromoteReady
<1> QED BY <1>1, <1>2, <1>3, <1>4, <1>5, <1>6, <1>7, <1>8, <1>9, <1>10, <1>11, <1>12

-----------------------------------------------------------------------------
(* Program counters.                                                       *)

PcType ==
    /\ pc \in [Threads -> SupLabel \cup AppLabel \cup ExitLabel]
    /\ pc["sup"] \in SupLabel
    /\ pc["app"] \in AppLabel
    /\ pc["force"] \in ExitLabel
    /\ pc["exit"] \in ExitLabel

LEMMA SupGoes ==
    ASSUME PcType, NEW from, NEW to \in SupLabel, Goto("sup", from, to)
    PROVE  PcType'
BY DEF PcType, Goto, Threads

LEMMA AppGoes ==
    ASSUME PcType, NEW from, NEW to \in AppLabel, Goto("app", from, to)
    PROVE  PcType'
BY DEF PcType, Goto, Threads

LEMMA ExitGoes ==
    ASSUME PcType, NEW t \in {"force", "exit"}, NEW from, NEW to \in ExitLabel,
           Goto(t, from, to)
    PROVE  PcType'
BY DEF PcType, Goto, Threads

LEMMA InitType == Init => TypeOK
<1> SUFFICES ASSUME Init PROVE TypeOK
  OBVIOUS
<1>1. host \in HostInner
  BY BackoffRange, BoundAssumption DEF Init, InitialHost, HostInner, Phase, Desired,
     PidOrNone, None, Pids
<1>2. lastAccepted \in Command /\ lateStart \in BOOLEAN /\ intent \in Intent
  BY DEF Init, Command, Intent
<1>3. PcType /\ cont \in Continuation
  BY DEF Init, PcType, Threads, SupLabel, AppLabel, ExitLabel, Continuation
<1>4. held \in [Threads -> PidOrNone] /\ procs \in [Pids -> ProcStatus]
  BY DEF Init, PidOrNone, None, ProcStatus
<1>5. queue = << >> /\ << >> \in Seq(Command)
  BY DEF Init
<1>6. failure \in {"retry", "stdio"} /\ shown \in Phase /\ dispatched \in Nat
  BY DEF Init, Phase
<1> QED BY <1>1, <1>2, <1>3, <1>4, <1>5, <1>6 DEF TypeOK, PcType

LEMMA PidType == 0 \in PidOrNone /\ \A n \in 0 .. MaxGeneration : n + 1 \in Pids
BY BoundAssumption DEF PidOrNone, Pids, None

LEMMA ReapedType ==
    ASSUME TypeOK, NEW p \in PidOrNone
    PROVE  Reaped(p) \in [Pids -> ProcStatus]
BY DEF TypeOK, Reaped, PidOrNone, ProcStatus

LEMMA HandsType ==
    ASSUME TypeOK, NEW t \in Threads
    PROVE  /\ KillHeld(t) => /\ procs' \in [Pids -> ProcStatus]
                             /\ held' \in [Threads -> PidOrNone]
           /\ TakeTree(t) => held' \in [Threads -> PidOrNone]
<1>1. held[t] \in PidOrNone /\ host.tree \in PidOrNone
  BY DEF TypeOK, HostInner
<1> QED BY <1>1, ReapedType, PidType DEF TypeOK, KillHeld, TakeTree, None

LEMMA StopType == \A t \in {"sup", "app"} : TypeOK /\ Stop(t) => TypeOK'
<1> SUFFICES ASSUME NEW t \in {"sup", "app"}, TypeOK, Stop(t) PROVE TypeOK'
  OBVIOUS
<1>1. PcType'
  <2>1. CASE t = "sup"
    BY <2>1, SupGoes DEF Stop, StopLatch, StopChildGone, StopDeadline, StopTake,
       StopKill, StopFinish, TypeOK, PcType, SupLabel, Continuation
  <2>2. CASE t = "app"
    BY <2>2, AppGoes DEF Stop, StopLatch, StopChildGone, StopDeadline, StopTake,
       StopKill, StopFinish, TypeOK, PcType, AppLabel
  <2> QED BY <2>1, <2>2
<1>2. t \in Threads
  BY DEF Threads
<1> USE MethodType DEF TypeOK, PcType, Quiet, appVars, userVars
<1>3. CASE StopLatch(t)
  BY <1>1, <1>3 DEF StopLatch, Desired
<1>4. CASE StopChildGone(t) \/ StopDeadline(t)
  BY <1>1, <1>4 DEF StopChildGone, StopDeadline
<1>5. CASE StopTake(t)
  BY <1>1, <1>2, <1>5, HandsType DEF StopTake
<1>6. CASE StopKill(t)
  BY <1>1, <1>2, <1>6, HandsType DEF StopKill
<1>7. CASE StopFinish(t)
  BY <1>1, <1>7 DEF StopFinish
<1> QED BY <1>3, <1>4, <1>5, <1>6, <1>7 DEF Stop

LEMMA SpawnType == TypeOK /\ Spawn => TypeOK'
<1> SUFFICES ASSUME TypeOK, Spawn PROVE TypeOK'
  OBVIOUS
<1>1. PcType'
  <2> USE SupGoes DEF TypeOK, PcType, SupLabel, SpawnFails
  <2>1. CASE Fence \/ Launch \/ Allocate \/ AdoptInflight \/ KillRefused
    BY <2>1 DEF Fence, Launch, Allocate, AdoptInflight, KillRefused
  <2>2. CASE AwaitCurrent \/ AwaitReady \/ AwaitFailed \/ AwaitExited \/ AwaitAgain
    BY <2>2 DEF AwaitCurrent, AwaitReady, AwaitFailed, AwaitExited, AwaitAgain
  <2>3. CASE Ping \/ Promote \/ ReapSpawn
    BY <2>3 DEF Ping, Promote, ReapSpawn
  <2> QED BY <2>1, <2>2, <2>3 DEF Spawn
<1>2. "sup" \in Threads
  BY DEF Threads
<1> USE <1>1, <1>2, MethodType
    DEF TypeOK, PcType, Quiet, appVars, userVars, SpawnFails
<1>3. CASE Fence
  <2>1. [host EXCEPT !.phase = "Starting", !.desired = "Running"] \in HostInner
    BY PhaseType
  <2> QED BY <1>3, <2>1 DEF Fence
<1>4. CASE Launch
  <2>1. host.gen + 1 \in Pids /\ "running" \in ProcStatus
    BY PidType DEF HostInner, ProcStatus
  <2> QED BY <1>4, <2>1 DEF Launch, PidOrNone
<1>5. CASE Allocate
  <2>1. host.gen < MaxGeneration => host.gen + 1 \in 0 .. MaxGeneration
    BY BoundAssumption DEF HostInner
  <2> QED BY <1>5, <2>1 DEF Allocate, HostInner
<1>6. CASE AdoptInflight
  <2>1. host.tree \in PidOrNone /\ held["sup"] \in PidOrNone
    BY DEF HostInner
  <2>2. CASE host.stopping
    BY <1>6, <2>2 DEF AdoptInflight
  <2>3. CASE ~host.stopping
    <3>1. /\ host' = Adopt(host, held["sup"])
          /\ held' = [held EXCEPT !["sup"] = None]
          /\ procs' = Reaped(host.tree)
          /\ UNCHANGED <<queue, cont, failure, shown, intent, lastAccepted, lateStart,
                         dispatched>>
      BY <1>6, <2>3 DEF AdoptInflight
    <3>2. host' \in HostInner /\ procs' \in [Pids -> ProcStatus]
      BY <2>1, <3>1, ReapedType
    <3>3. held' \in [Threads -> PidOrNone]
      BY <3>1, PidType DEF None
    <3> QED BY <3>1, <3>2, <3>3
  <2> QED BY <2>2, <2>3
<1>7. CASE KillRefused
  BY <1>7, HandsType DEF KillRefused
<1>8. CASE AwaitCurrent \/ AwaitReady \/ AwaitFailed \/ AwaitAgain \/ Ping
  BY <1>8 DEF AwaitCurrent, AwaitReady, AwaitFailed, AwaitAgain, Ping
<1>9. CASE AwaitExited
  <2>1. host.tree \in PidOrNone
    BY DEF HostInner
  <2> QED BY <1>9, <2>1, ReapedType DEF AwaitExited
<1>10. CASE Promote
  BY <1>10 DEF Promote
<1>11. CASE ReapSpawn
  BY <1>11, HandsType DEF ReapSpawn
<1> QED BY <1>3, <1>4, <1>5, <1>6, <1>7, <1>8, <1>9, <1>10, <1>11 DEF Spawn

(* What most steps of the supervisor are made of: a move with a new        *)
(* record, a publication, and the ways to receive a command.               *)

LEMMA MoveType ==
    ASSUME TypeOK, NEW from, NEW to \in SupLabel, Goto("sup", from, to), Quiet,
           host' \in HostInner
    PROVE  TypeOK'
<1>1. PcType'
  BY SupGoes DEF TypeOK, PcType
<1> QED BY <1>1 DEF TypeOK, PcType, Quiet, appVars, userVars

LEMMA StayType ==
    ASSUME TypeOK, NEW from, NEW to \in SupLabel, Goto("sup", from, to), Quiet,
           UNCHANGED host
    PROVE  TypeOK'
<1>1. host' \in HostInner
  BY DEF TypeOK
<1> QED BY <1>1, MoveType

LEMMA PublishType ==
    ASSUME TypeOK, NEW from, NEW to \in SupLabel, Publish(from, to)
    PROVE  TypeOK'
<1>1. PcType'
  BY SupGoes DEF TypeOK, PcType, Publish
<1>2. host.phase \in Phase
  BY DEF TypeOK, HostInner
<1> QED BY <1>1, <1>2 DEF TypeOK, PcType, Publish, appVars, userVars

LEMMA ReceivedType ==
    ASSUME TypeOK, NEW from, NEW command, NEW to \in SupLabel,
           Receive(from, command, to), host' \in HostInner, cont' \in Continuation
    PROVE  TypeOK'
<1>1. PcType'
  BY SupGoes DEF TypeOK, PcType, Receive
<1>2. queue' \in Seq(Command)
  BY DEF TypeOK, Receive
<1> QED BY <1>1, <1>2 DEF TypeOK, PcType, Receive, appVars, userVars

LEMMA ContType == TypeOK => cont \in Continuation /\ cont \in SupLabel
BY DEF TypeOK, Continuation, SupLabel

LEMMA ReceiveTypes ==
    ASSUME TypeOK, NEW from, NEW command, NEW to \in SupLabel
    PROVE  /\ ReceiveOnly(from, command, to) => TypeOK'
           /\ ReceiveAndReset(from, command, to) => TypeOK'
           /\ \A c \in Continuation : ReceiveAndCall(from, command, to, c) => TypeOK'
           /\ ReceiveNothing(from, to) => TypeOK'
<1>1. host \in HostInner /\ ResetStorm(host) \in HostInner /\ cont \in Continuation
  BY ResetStormType DEF TypeOK
<1>2. ReceiveOnly(from, command, to) => TypeOK'
  BY <1>1, ReceivedType DEF ReceiveOnly
<1>3. ReceiveAndReset(from, command, to) => TypeOK'
  BY <1>1, ReceivedType DEF ReceiveAndReset
<1>4. \A c \in Continuation : ReceiveAndCall(from, command, to, c) => TypeOK'
  BY <1>1, ReceivedType DEF ReceiveAndCall
<1>5. ReceiveNothing(from, to) => TypeOK'
  BY StayType DEF ReceiveNothing
<1> QED BY <1>2, <1>3, <1>4, <1>5

(* A Restart resets the storm and stops the child before it resumes.       *)
LEMMA RestartType ==
    ASSUME TypeOK, NEW from, Receive(from, "Restart", "hasChild"),
           host' = ResetStorm(host), cont' \in Continuation
    PROVE  TypeOK'
<1>1. host' \in HostInner /\ "hasChild" \in SupLabel
  BY ResetStormType DEF TypeOK, SupLabel
<1> QED BY <1>1, ReceivedType

LEMMA SuperviseType == TypeOK /\ Supervise => TypeOK'
<1> SUFFICES ASSUME TypeOK, Supervise PROVE TypeOK'
  OBVIOUS
<1> USE DEF SupLabel
<1>1. CASE LoopTop \/ SegmentDone \/ AnnounceReady \/ StdioLost \/ PublishBackoff
  BY <1>1, PublishType DEF LoopTop, SegmentDone, AnnounceReady, StdioLost, PublishBackoff
<1>2. CASE LoopExitCheck \/ CommandDone \/ Decide \/ DecideCapped
  BY <1>2, StayType DEF LoopExitCheck, CommandDone, Decide, DecideCapped
<1>3. CASE HasChild
  BY <1>3, StayType, ContType DEF HasChild
<1>4. CASE Drain
  BY <1>4, ReceiveTypes, RestartType DEF Drain, Continuation
<1>5. CASE Park
  <2>1. CASE Goto("sup", "park", IF host.desired = "AppExit" THEN "top" ELSE "parkRecv")
             /\ Quiet /\ UNCHANGED host
    BY <2>1, StayType
  <2>2. CASE ~(Goto("sup", "park", IF host.desired = "AppExit" THEN "top" ELSE "parkRecv")
               /\ Quiet /\ UNCHANGED host)
    BY <1>5, <2>2, ReceiveTypes DEF Park
  <2> QED BY <2>1, <2>2
<1>6. CASE Resume \/ GiveUp \/ ChargeSpawn \/ Lengthen \/ KillFinish
  <2>1. host' \in HostInner
    BY <1>6, MethodType DEF Resume, GiveUp, ChargeSpawn, Lengthen, KillFinish, TypeOK
  <2> QED BY <1>6, <2>1, MoveType, ContType
          DEF Resume, GiveUp, ChargeSpawn, Lengthen, KillFinish
<1>7. CASE Stop("sup")
  BY <1>7, StopType
<1>8. CASE KillTake \/ KillRun
  <2>1. PcType'
    BY <1>8, SupGoes, ContType DEF KillTake, KillRun, TypeOK, PcType
  <2>2. "sup" \in Threads
    BY DEF Threads
  <2> USE DEF TypeOK, PcType, appVars, userVars
  <2>3. CASE KillTake
    BY <2>1, <2>2, <2>3, MethodType, HandsType DEF KillTake
  <2>4. CASE KillRun
    BY <2>1, <2>2, <2>4, HandsType DEF KillRun
  <2> QED BY <1>8, <2>3, <2>4
<1>9. CASE SegmentReceive
  BY <1>9, ReceiveTypes DEF SegmentReceive, Continuation
<1>10. CASE WatchReceive
  BY <1>10, ReceiveTypes, RestartType DEF WatchReceive, Continuation
<1>11. CASE SleepReceive
  BY <1>11, ReceiveTypes DEF SleepReceive, Continuation
<1>12. CASE SegmentWants \/ SegmentCapped \/ CapCheck \/ WatchFlags \/ SleepCheck \/ SleepElapsed
  BY <1>12, StayType
     DEF SegmentWants, SegmentCapped, CapCheck, WatchFlags, SleepCheck, SleepElapsed
<1>13. CASE SleepMark
  <2>1. host' \in HostInner
    BY <1>13, PhaseType DEF SleepMark, TypeOK
  <2> QED BY <1>13, <2>1, MoveType DEF SleepMark
<1>14. CASE SpawnError
  <2>1. PcType'
    BY <1>14, SupGoes DEF SpawnError, TypeOK, PcType
  <2> QED BY <1>14, <2>1 DEF SpawnError, TypeOK, PcType, appVars, userVars
<1>15. CASE WatchChild
  <2>1. host.tree \in PidOrNone
    BY DEF TypeOK, HostInner
  <2>2. PcType'
    <3>1. Exited(host.tree) => procs[host.tree] \in ExitKind
      BY DEF Exited
    <3> QED BY <1>15, <3>1, SupGoes DEF WatchChild, ExitKind, TypeOK, PcType
  <2> QED BY <1>15, <2>1, <2>2, ReapedType, MethodType
          DEF WatchChild, TypeOK, PcType, Quiet, appVars, userVars
<1>16. CASE ChargeExit
  <2>1. host' \in HostInner
    BY <1>16, MethodType, Zenon DEF ChargeExit, TypeOK
  <2> QED BY <1>16, <2>1, MoveType DEF ChargeExit
<1>17. CASE Spawn
  BY <1>17, SpawnType
<1> QED BY <1>1, <1>2, <1>3, <1>4, <1>5, <1>6, <1>7, <1>8, <1>9, <1>10, <1>11,
           <1>12, <1>13, <1>14, <1>15, <1>16, <1>17 DEF Supervise

LEMMA AppType == TypeOK /\ App => TypeOK'
<1> SUFFICES ASSUME TypeOK, App PROVE TypeOK'
  OBVIOUS
<1> USE MethodType, ExitGoes, AppGoes
    DEF TypeOK, PcType, Quiet, appVars, userVars, AppLabel, ExitLabel
<1>1. CASE Stop("app")
  BY <1>1, StopType
<1>2. CASE BeginGraceful \/ AppLatch
  BY <1>2 DEF BeginGraceful, AppLatch, Intent, Desired
<1>3. CASE BeginForce \/ Watchdog \/ RunEventExit
  BY <1>3 DEF BeginForce, Watchdog, RunEventExit, Intent
<1>4. ASSUME NEW t \in {"force", "exit"}, ForceAppExit(t)
      PROVE  TypeOK'
  <2>1. PcType'
    BY <1>4 DEF ForceAppExit
  <2>2. t \in Threads
    BY DEF Threads
  <2> QED BY <1>4, <2>1, <2>2, HandsType DEF ForceAppExit, Desired
<1> QED BY <1>1, <1>2, <1>3, <1>4 DEF App

LEMMA DispatchType ==
    TypeOK /\ (\E command \in Command : Dispatch(command)) => TypeOK'
<1> SUFFICES ASSUME TypeOK, NEW command \in Command, Dispatch(command)
             PROVE  TypeOK'
  OBVIOUS
<1>1. host' \in HostInner
  BY DispatchedType DEF TypeOK, Dispatch
<1>2. queue' \in Seq(Command)
  BY DEF TypeOK, Dispatch
<1> QED BY <1>1, <1>2 DEF TypeOK, Dispatch, appVars

LEMMA ChildExitType ==
    TypeOK /\ (\E p \in Pids : ChildExit(p)) => TypeOK'
BY DEF TypeOK, ChildExit, ProcStatus, ExitKind, appVars, userVars

(* Every state of the supervisor is well formed: the pid and the           *)
(* generation stay in range, the backoff between its initial and its       *)
(* maximal value, and each thread at one of its own labels.                *)
THEOREM TypeCorrect == Spec => []TypeOK
<1>1. Init => TypeOK
  BY InitType
<1>2. TypeOK /\ [Next]_vars => TypeOK'
  <2>1. CASE UNCHANGED vars
    BY <2>1 DEF vars, TypeOK
  <2> QED BY <2>1, SuperviseType, AppType, DispatchType, ChildExitType DEF Next
<1> QED BY <1>1, <1>2, PTL DEF Spec

-----------------------------------------------------------------------------
(* The storm budget.  It is inductive together with the types: a failure   *)
(* is only charged at a label where the streak is below its cap, and the   *)
(* only way back to such a label is through a test of the cap.             *)

LEMMA MethodStorm ==
    ASSUME NEW h \in HostInner
    PROVE  LET Same(g) == g.failStreak = h.failStreak /\ g.attempt = h.attempt
           IN  /\ Same(ClearChild(h))
               /\ \A d \in Desired : Same(LatchDesired(h, d))
               /\ Same(FinishStopped(h))
               /\ Same(TakeForKill(h))
               /\ Same(ResumeRunning(h))
               /\ Same(MarkFailed(h))
               /\ Same(DoubleBackoff(h))
               /\ \A p : Same(Adopt(h, p))
               /\ Same(PromoteReady(h))
BY DEF HostInner, ClearChild, LatchDesired, FinishStopped, TakeForKill, ResumeRunning,
   MarkFailed, DoubleBackoff, Adopt, PromoteReady

LEMMA ResetStormStorm ==
    \A h \in HostInner : /\ ResetStorm(h).failStreak = 0
                         /\ ResetStorm(h).attempt = 0
BY DEF HostInner, ResetStorm

LEMMA DispatchedStorm ==
    ASSUME NEW h \in HostInner, NEW command \in Command
    PROVE  \/ /\ Dispatched(h, command).failStreak = 0
              /\ Dispatched(h, command).attempt = 0
           \/ /\ Dispatched(h, command).failStreak = h.failStreak
              /\ Dispatched(h, command).attempt = h.attempt
<1>1. Reduced(h, command) \in HostInner
  BY ReducerType DEF HostInner, Reduced
<1>2. /\ Reduced(h, command).failStreak = h.failStreak
      /\ Reduced(h, command).attempt = h.attempt
  BY DEF Reduced, HostInner
<1>3. CASE command \in StartLike
  <2>1. [Reduced(h, command) EXCEPT !.stopping = FALSE] \in HostInner
    BY <1>1 DEF HostInner
  <2> QED BY <1>3, <2>1, ResetStormStorm DEF Dispatched
<1>4. CASE command \notin StartLike
  BY <1>1, <1>2, <1>4 DEF Dispatched, HostInner
<1> QED BY <1>3, <1>4

LEMMA ChargeStorm ==
    ASSUME NEW h \in HostInner, h.failStreak < MaxFailures
    PROVE  /\ BumpStreak(h).failStreak <= MaxFailures
           /\ BumpStreak(h).attempt = BumpStreak(h).failStreak
<1>1. h.failStreak \in Nat
  BY DEF HostInner
<1> QED BY <1>1, BackoffRange DEF HostInner, BumpStreak

LEMMA NoteExitStorm ==
    ASSUME NEW h \in HostInner, h.failStreak < MaxFailures,
           NEW r \in BOOLEAN, NEW s \in BOOLEAN
    PROVE  /\ NoteExit(h, r, s).failStreak <= MaxFailures
           /\ NoteExit(h, r, s).attempt = NoteExit(h, r, s).failStreak
           /\ r /\ s => NoteExit(h, r, s).failStreak = 0
<1>1. /\ Forgive(h, s) \in HostInner
      /\ Forgive(h, s).failStreak < MaxFailures
      /\ s => Forgive(h, s).failStreak = 0
  BY BackoffRange DEF Forgive, HostInner
<1>2. CASE r /\ s
  <2>1. NoteExit(h, r, s) = [Forgive(h, s) EXCEPT !.attempt = 0, !.nextRetry = FALSE]
    BY <1>2 DEF NoteExit
  <2>2. /\ NoteExit(h, r, s).attempt = 0
        /\ NoteExit(h, r, s).failStreak = Forgive(h, s).failStreak
    BY <1>1, <2>1 DEF HostInner
  <2>3. Forgive(h, s).failStreak = 0
    BY <1>1, <1>2, Zenon
  <2> QED BY <2>2, <2>3, BackoffRange
<1>3. CASE ~(r /\ s)
  BY <1>1, <1>3, ChargeStorm DEF NoteExit
<1> QED BY <1>2, <1>3

(* Other threads leave the supervisor where it is.                         *)
LEMMA OthersStay ==
    ASSUME TypeOK, NEW t \in Threads \ {"sup"}, NEW from, NEW to, Goto(t, from, to)
    PROVE  pc'["sup"] = pc["sup"]
BY DEF TypeOK, Goto, Threads

LEMMA AppStays == TypeOK /\ App => pc'["sup"] = pc["sup"]
BY OthersStay DEF App, Stop, StopLatch, StopChildGone, StopDeadline, StopTake, StopKill,
   StopFinish, BeginGraceful, AppLatch, BeginForce, Watchdog, RunEventExit, ForceAppExit,
   Threads

LEMMA StopStorm ==
    ASSUME TypeOK, NEW t \in {"sup", "app"}, Stop(t)
    PROVE  /\ host'.failStreak = host.failStreak
           /\ host'.attempt = host.attempt
<1>1. host \in HostInner
  BY DEF TypeOK
<1> QED BY <1>1, MethodStorm DEF Stop, StopLatch, StopChildGone, StopDeadline, StopTake,
           StopKill, StopFinish, Quiet, Desired

LEMMA AppStorm ==
    TypeOK /\ App => /\ host'.failStreak = host.failStreak
                     /\ host'.attempt = host.attempt
<1> SUFFICES ASSUME TypeOK, App
             PROVE  /\ host'.failStreak = host.failStreak
                    /\ host'.attempt = host.attempt
  OBVIOUS
<1>1. host \in HostInner
  BY DEF TypeOK
<1>2. CASE Stop("app")
  BY <1>2, StopStorm
<1> QED BY <1>1, <1>2, MethodStorm DEF App, BeginGraceful, AppLatch, BeginForce, Watchdog,
           RunEventExit, ForceAppExit, Quiet, Desired

LEMMA SuperviseStorm == TypeOK /\ StormBudget /\ Supervise => StormBudget'
<1> SUFFICES ASSUME TypeOK, StormBudget, Supervise PROVE StormBudget'
  OBVIOUS
<1>1. /\ host \in HostInner /\ host.failStreak \in Nat
      /\ pc \in [Threads -> SupLabel \cup AppLabel \cup ExitLabel]
  BY DEF TypeOK, HostInner
<1>2. "sup" \in Threads
  BY DEF Threads
<1> USE <1>1, <1>2, BackoffRange
    DEF StormBudget, Goto, Quiet, Capped, Attempting
(* Steps that leave the streak alone.                                      *)
<1>3. CASE LoopTop \/ SegmentDone \/ AnnounceReady \/ StdioLost \/ PublishBackoff
  BY <1>3 DEF LoopTop, SegmentDone, AnnounceReady, StdioLost, PublishBackoff, Publish
<1>4. CASE LoopExitCheck \/ CommandDone \/ Decide \/ DecideCapped
  BY <1>4 DEF LoopExitCheck, CommandDone, Decide, DecideCapped
<1>5. CASE HasChild \/ KillRun
  BY <1>5 DEF HasChild, KillRun, TypeOK, Continuation
<1>6. CASE Park
  BY <1>6 DEF Park, ReceiveOnly, ReceiveNothing, Receive
<1>7. CASE SegmentWants \/ SegmentCapped \/ CapCheck \/ WatchFlags \/ SleepCheck \/ SleepElapsed
  BY <1>7 DEF SegmentWants, SegmentCapped, CapCheck, WatchFlags, SleepCheck, SleepElapsed
<1>8. CASE SpawnError
  BY <1>8 DEF SpawnError
<1>9. CASE Stop("sup")
  <2>1. pc'["sup"] \notin Attempting
    BY <1>9 DEF Stop, StopLatch, StopChildGone, StopDeadline, StopTake, StopKill,
       StopFinish, TypeOK, Continuation
  <2> QED BY <1>9, <2>1, StopStorm
<1>10. CASE KillTake \/ KillFinish \/ Resume \/ GiveUp \/ Lengthen
  BY <1>10, MethodStorm DEF KillTake, KillFinish, Resume, GiveUp, Lengthen, TypeOK, Continuation
<1>11. CASE SleepMark
  BY <1>11 DEF SleepMark, HostInner
<1>12. CASE WatchChild
  <2>1. Exited(host.tree) => procs[host.tree] \in ExitKind
    BY DEF Exited
  <2> QED BY <1>12, <2>1, MethodStorm DEF WatchChild, ExitKind
(* Commands reset it.                                                      *)
<1>13. CASE Drain
  BY <1>13, ResetStormStorm DEF Drain, ReceiveAndReset, ReceiveAndCall, ReceiveOnly,
     ReceiveNothing, Receive
<1>14. CASE SegmentReceive
  BY <1>14, ResetStormStorm DEF SegmentReceive, ReceiveAndReset, ReceiveAndCall,
     ReceiveOnly, ReceiveNothing, Receive
<1>15. CASE WatchReceive
  BY <1>15, ResetStormStorm DEF WatchReceive, ReceiveAndReset, ReceiveAndCall,
     ReceiveOnly, ReceiveNothing, Receive
<1>16. CASE SleepReceive
  BY <1>16, ResetStormStorm DEF SleepReceive, ReceiveAndReset, ReceiveAndCall,
     ReceiveOnly, ReceiveNothing, Receive
(* Failures are charged to it.                                             *)
<1>17. CASE ChargeSpawn
  BY <1>17, ChargeStorm DEF ChargeSpawn
<1>18. CASE ChargeExit
  <2>1. PICK stable \in BOOLEAN :
          \/ /\ Goto("sup", "noteCrash", "capCheck")
             /\ host' = NoteExit(host, FALSE, stable)
          \/ /\ Goto("sup", "noteRestart", IF stable THEN "segRecv" ELSE "capCheck")
             /\ host' = NoteExit(host, TRUE, stable)
    BY <1>18 DEF ChargeExit
  <2>2. host.failStreak < MaxFailures
    <3>1. pc["sup"] \in {"noteCrash", "noteRestart"}
      BY <2>1, Zenon
    <3> QED BY <3>1
  <2>3. host'.failStreak <= MaxFailures /\ host'.attempt = host'.failStreak
    BY <2>1, <2>2, NoteExitStorm
  <2>4. \E to \in {"segRecv", "capCheck"} : pc' = [pc EXCEPT !["sup"] = to]
    BY <2>1, Zenon
  <2> QED BY <2>3, <2>4
(* A spawn keeps it below its cap.                                         *)
<1>19. CASE Spawn
  <2> USE DEF SpawnFails
  <2>1. CASE Fence \/ Launch \/ Allocate \/ KillRefused
    BY <2>1 DEF Fence, Launch, Allocate, KillRefused, HostInner
  <2>2. CASE AwaitCurrent \/ AwaitReady \/ AwaitFailed \/ AwaitAgain \/ Ping
    BY <2>2 DEF AwaitCurrent, AwaitReady, AwaitFailed, AwaitAgain, Ping
  <2>3. CASE AdoptInflight \/ AwaitExited \/ Promote \/ ReapSpawn
    BY <2>3, MethodStorm DEF AdoptInflight, AwaitExited, Promote, ReapSpawn
  <2> QED BY <1>19, <2>1, <2>2, <2>3 DEF Spawn
<1> QED BY <1>3, <1>4, <1>5, <1>6, <1>7, <1>8, <1>9, <1>10, <1>11, <1>12, <1>13, <1>14,
           <1>15, <1>16, <1>17, <1>18, <1>19 DEF Supervise

LEMMA OthersStorm == TypeOK /\ StormBudget /\ [App]_vars => StormBudget'
<1> SUFFICES ASSUME TypeOK, StormBudget, [App]_vars PROVE StormBudget'
  OBVIOUS
<1>1. CASE App
  BY <1>1, AppStorm, AppStays DEF StormBudget, Capped
<1>2. CASE UNCHANGED vars
  BY <1>2 DEF vars, StormBudget, Capped
<1> QED BY <1>1, <1>2

LEMMA DispatchStorm ==
    ASSUME TypeOK, StormBudget, NEW command \in Command, Dispatch(command)
    PROVE  StormBudget'
<1>1. host \in HostInner /\ pc' = pc
  BY DEF TypeOK, Dispatch
<1> QED BY <1>1, DispatchedStorm, BackoffRange DEF Dispatch, StormBudget, Capped, HostInner

(* The streak never passes its cap and is the attempt the user is shown,   *)
(* and a host is only spawned, watched or relaunched below the cap,        *)
(* however commands, exits and the application's exit interleave.          *)
THEOREM StormIsBounded == Spec => []StormBudget
<1>1. Init => StormBudget
  BY BackoffRange DEF Init, InitialHost, StormBudget, Capped, Attempting, Threads
<1>2. TypeOK /\ StormBudget /\ [Next]_vars => StormBudget'
  <2> SUFFICES ASSUME TypeOK, StormBudget, [Next]_vars PROVE StormBudget'
    OBVIOUS
  <2>1. ASSUME NEW p \in Pids, ChildExit(p) PROVE StormBudget'
    BY <2>1 DEF ChildExit, StormBudget, Capped
  <2> QED BY <2>1, SuperviseStorm, OthersStorm, DispatchStorm DEF Next
<1> QED BY <1>1, <1>2, TypeCorrect, PTL DEF Spec

-----------------------------------------------------------------------------
(* Ownership.  Every step is of one of six kinds; the lemmas say what each *)
(* kind does to the owners.                                                *)

LEMMA MethodTree ==
    ASSUME NEW h \in HostInner
    PROVE  /\ ClearChild(h).tree = None
           /\ ResetStorm(h).tree = h.tree
           /\ \A d \in Desired : LatchDesired(h, d).tree = h.tree
           /\ FinishStopped(h).tree = h.tree
           /\ TakeForKill(h).tree = None
           /\ ResumeRunning(h).tree = h.tree
           /\ BumpStreak(h).tree = h.tree
           /\ MarkFailed(h).tree = h.tree
           /\ DoubleBackoff(h).tree = h.tree
           /\ \A r, s \in BOOLEAN : NoteExit(h, r, s).tree = h.tree
           /\ \A p : Adopt(h, p).tree = p
           /\ PromoteReady(h).tree = h.tree
           /\ \A c \in Command : Dispatched(h, c).tree = h.tree
<1>1. \A r, s \in BOOLEAN : NoteExit(h, r, s).tree = h.tree
  <2> SUFFICES ASSUME NEW r \in BOOLEAN, NEW s \in BOOLEAN
               PROVE  NoteExit(h, r, s).tree = h.tree
    OBVIOUS
  <2>1. Forgive(h, s) \in HostInner /\ Forgive(h, s).tree = h.tree
    BY BackoffRange DEF Forgive, HostInner
  <2> HIDE DEF HostInner
  <2>2. /\ BumpStreak(Forgive(h, s)).tree = h.tree
        /\ [Forgive(h, s) EXCEPT !.attempt = 0, !.nextRetry = FALSE].tree = h.tree
    BY <2>1 DEF BumpStreak, HostInner
  <2>3. CASE r /\ s
    BY <2>2, <2>3 DEF NoteExit
  <2>4. CASE ~(r /\ s)
    BY <2>2, <2>4 DEF NoteExit
  <2> QED BY <2>3, <2>4
<1>2. \A c \in Command : Dispatched(h, c).tree = h.tree
  <2> SUFFICES ASSUME NEW c \in Command PROVE Dispatched(h, c).tree = h.tree
    OBVIOUS
  <2>1. Reduced(h, c) \in HostInner /\ Reduced(h, c).tree = h.tree
    BY ReducerType DEF HostInner, Reduced
  <2>2. CASE c \in StartLike
    BY <2>1, <2>2 DEF Dispatched, ResetStorm, HostInner
  <2>3. CASE c \notin StartLike
    BY <2>1, <2>3 DEF Dispatched, HostInner
  <2> QED BY <2>2, <2>3
<1> QED BY <1>1, <1>2 DEF HostInner, ClearChild, ResetStorm, LatchDesired, FinishStopped,
           TakeForKill, ResumeRunning, BumpStreak, MarkFailed, DoubleBackoff, Adopt,
           PromoteReady

(* A step of thread t that touches no process and no owner.                *)
LEMMA InertKeeps ==
    ASSUME TypeOK, Ownership, NEW t \in Threads, NEW from, NEW to, Goto(t, from, to),
           host'.tree = host.tree, held' = held, procs' = procs,
           from \notin Owning \/ to \in Owning,
           t = "sup" => to # "allocate" /\ (to = "adopt" => from = "allocate")
    PROVE  Ownership'
BY DEF TypeOK, Ownership, Goto, Threads

(* Thread t takes the tree out of HostInner.                               *)
LEMMA TakeKeeps ==
    ASSUME TypeOK, Ownership, NEW t \in Threads, NEW from, NEW to, Goto(t, from, to),
           host'.tree = None, TakeTree(t), procs' = procs,
           from \notin Owning, to \in Owning \ {"allocate", "adopt"}
    PROVE  Ownership'
BY DEF TypeOK, Ownership, Goto, Threads, TakeTree, Pids, None

(* Thread t kills what it holds.                                           *)
LEMMA KillKeeps ==
    ASSUME TypeOK, Ownership, NEW t \in Threads, NEW from, NEW to, Goto(t, from, to),
           host'.tree = host.tree, KillHeld(t), to \notin {"allocate", "adopt"}
    PROVE  Ownership'
BY DEF TypeOK, Ownership, Goto, Threads, KillHeld, Reaped, None, Pids

(* The supervisor collects the exit of the tree.                           *)
LEMMA CollectKeeps ==
    ASSUME TypeOK, Ownership, NEW from, NEW to, Goto("sup", from, to),
           host'.tree = None, held' = held, procs' = Reaped(host.tree),
           from \notin Owning, to \notin {"allocate", "adopt"}
    PROVE  Ownership'
BY DEF TypeOK, Ownership, Goto, Threads, Reaped, None, Pids

LEMMA StopOwnership ==
    ASSUME TypeOK, Ownership, NEW t \in {"sup", "app"}, Stop(t)
    PROVE  Ownership'
<1>1. /\ host \in HostInner /\ t \in Threads
      /\ cont \in Continuation
  BY DEF TypeOK, Threads
<1> USE DEF Quiet, Owning
<1>2. CASE StopLatch(t)
  BY <1>1, <1>2, InertKeeps, MethodTree DEF StopLatch, Desired
<1>3. CASE StopChildGone(t) \/ StopDeadline(t)
  BY <1>1, <1>3, InertKeeps DEF StopChildGone, StopDeadline
<1>4. CASE StopTake(t)
  BY <1>1, <1>4, TakeKeeps, MethodTree DEF StopTake
<1>5. CASE StopKill(t)
  BY <1>1, <1>5, KillKeeps DEF StopKill
<1>6. CASE StopFinish(t)
  BY <1>1, <1>6, InertKeeps, MethodTree DEF StopFinish, Continuation
<1> QED BY <1>2, <1>3, <1>4, <1>5, <1>6 DEF Stop

LEMMA SpawnOwnership == TypeOK /\ Ownership /\ Spawn => Ownership'
<1> SUFFICES ASSUME TypeOK, Ownership, Spawn PROVE Ownership'
  OBVIOUS
<1>1. /\ host \in HostInner /\ "sup" \in Threads
  BY DEF TypeOK, Threads
<1> USE DEF Quiet, Owning, SpawnFails
<1>2. CASE Fence \/ Allocate
  BY <1>1, <1>2, InertKeeps DEF Fence, Allocate, HostInner
<1>3. CASE AwaitCurrent \/ AwaitReady \/ AwaitFailed \/ AwaitAgain \/ Ping \/ Promote
  BY <1>1, <1>3, InertKeeps, MethodTree DEF AwaitCurrent, AwaitReady, AwaitFailed,
     AwaitAgain, Ping, Promote
<1>4. CASE Launch
  <2>1. CASE SpawnFails("launch", "spawnErr", "retry")
    <3>1. /\ Goto("sup", "launch", "spawnErr")
          /\ host' = host /\ held' = held /\ procs' = procs
      BY <1>1, <1>4, <2>1 DEF Launch, Goto, TypeOK
    <3> QED BY <1>1, <3>1, InertKeeps
  <2>2. CASE Goto("sup", "launch", "allocate")
    <3>1. /\ host' = host
          /\ held' = [held EXCEPT !["sup"] = host.gen + 1]
          /\ procs' = [procs EXCEPT ![host.gen + 1] = "running"]
      BY <1>4, <2>2 DEF Launch, Goto, TypeOK, Threads
    <3>2. held["sup"] = None
      BY <2>2 DEF Ownership, Goto, Threads
    <3>3. host.gen + 1 \in Pids /\ host.gen + 1 # None
      BY PidType DEF TypeOK, HostInner, Pids, None
    <3>4. /\ pc' = [pc EXCEPT !["sup"] = "allocate"]
          /\ host'.tree = host.tree
          /\ held'["sup"] = host.gen + 1
          /\ \A t \in Threads \ {"sup"} : held'[t] = held[t] /\ pc'[t] = pc[t]
          /\ pc'["sup"] = "allocate"
          /\ \A p \in Pids : p = host.gen + 1 \/ procs'[p] = procs[p]
      BY <1>1, <2>2, <3>1, <3>3 DEF TypeOK, Goto, Threads
    <3>5. ASSUME NEW p \in Pids, procs'[p] \notin {"unborn", "reaped"}
          PROVE  p = host'.tree \/ \E t \in Threads : held'[t] = p
      <4>1. CASE p = host.gen + 1
        BY <1>1, <3>4, <4>1
      <4>2. CASE p # host.gen + 1
        <5>1. p = host.tree \/ \E t \in Threads : held[t] = p
          BY <3>4, <3>5, <4>2 DEF Ownership
        <5>2. p # None
          BY DEF Pids, None
        <5> QED BY <3>2, <3>4, <5>1, <5>2
      <4> QED BY <4>1, <4>2
    <3> QED BY <3>3, <3>4, <3>5 DEF Ownership
  <2> QED BY <1>4, <2>1, <2>2 DEF Launch
<1>5. CASE AdoptInflight
  <2>1. CASE host.stopping
    BY <1>1, <1>5, <2>1, InertKeeps DEF AdoptInflight
  <2>2. CASE ~host.stopping
    <3>1. /\ Goto("sup", "adopt", "await")
          /\ host'.tree = held["sup"]
          /\ held' = [held EXCEPT !["sup"] = None]
          /\ procs' = Reaped(host.tree)
      BY <1>1, <1>5, <2>2, MethodTree DEF AdoptInflight
    <3> QED BY <3>1 DEF Ownership, TypeOK, Goto, Threads, Reaped, None, Pids
  <2> QED BY <2>1, <2>2
<1>6. CASE KillRefused
  BY <1>1, <1>6, KillKeeps DEF KillRefused
<1>7. CASE AwaitExited
  BY <1>1, <1>7, CollectKeeps, MethodTree DEF AwaitExited
<1>8. CASE ReapSpawn
  BY <1>1, <1>8, TakeKeeps, KillKeeps, MethodTree DEF ReapSpawn
<1> QED BY <1>2, <1>3, <1>4, <1>5, <1>6, <1>7, <1>8 DEF Spawn

LEMMA SuperviseOwnership == TypeOK /\ Ownership /\ Supervise => Ownership'
<1> SUFFICES ASSUME TypeOK, Ownership, Supervise PROVE Ownership'
  OBVIOUS
<1>1. /\ host \in HostInner /\ "sup" \in Threads
      /\ cont \in Continuation
  BY DEF TypeOK, Threads
<1> USE DEF Quiet, Owning, Continuation
<1>2. CASE LoopTop \/ SegmentDone \/ AnnounceReady \/ StdioLost \/ PublishBackoff
  BY <1>1, <1>2, InertKeeps DEF LoopTop, SegmentDone, AnnounceReady, StdioLost,
     PublishBackoff, Publish
<1>3. CASE LoopExitCheck \/ CommandDone \/ Decide \/ DecideCapped \/ HasChild
  BY <1>1, <1>3, InertKeeps DEF LoopExitCheck, CommandDone, Decide, DecideCapped, HasChild
<1>4. CASE Drain \/ Park
  BY <1>1, <1>4, InertKeeps, MethodTree DEF Drain, Park, ReceiveAndReset, ReceiveAndCall,
     ReceiveOnly, ReceiveNothing, Receive
<1>5. CASE SegmentReceive \/ SleepReceive
  BY <1>1, <1>5, InertKeeps, MethodTree DEF SegmentReceive, SleepReceive, ReceiveAndReset,
     ReceiveAndCall, ReceiveOnly, ReceiveNothing, Receive
<1>6. CASE WatchReceive
  BY <1>1, <1>6, InertKeeps, MethodTree DEF WatchReceive, ReceiveAndReset,
     ReceiveAndCall, ReceiveOnly, ReceiveNothing, Receive
<1>7. CASE Stop("sup")
  BY <1>7, StopOwnership
<1>8. CASE KillTake
  <2>1. CASE host.tree = None
    BY <1>1, <1>8, <2>1, InertKeeps DEF KillTake
  <2>2. CASE host.tree # None
    BY <1>1, <1>8, <2>2, TakeKeeps, MethodTree DEF KillTake
  <2> QED BY <2>1, <2>2
<1>9. CASE KillRun
  BY <1>1, <1>9, KillKeeps DEF KillRun
<1>10. CASE KillFinish \/ Resume \/ GiveUp \/ ChargeSpawn \/ Lengthen
  BY <1>1, <1>10, InertKeeps, MethodTree DEF KillFinish, Resume, GiveUp, ChargeSpawn, Lengthen
<1>11. CASE SegmentWants \/ SegmentCapped \/ CapCheck \/ WatchFlags \/ SleepCheck \/ SleepElapsed
  BY <1>1, <1>11, InertKeeps DEF SegmentWants, SegmentCapped, CapCheck, WatchFlags,
     SleepCheck, SleepElapsed
<1>12. CASE SleepMark
  BY <1>1, <1>12, InertKeeps DEF SleepMark, HostInner
<1>13. CASE SpawnError
  BY <1>1, <1>13, InertKeeps DEF SpawnError
<1>14. CASE WatchChild
  <2>1. Exited(host.tree) => procs[host.tree] \in ExitKind
    BY DEF Exited
  <2> QED BY <1>1, <1>14, <2>1, InertKeeps, CollectKeeps, MethodTree DEF WatchChild, ExitKind
<1>15. CASE ChargeExit
  <2>1. PICK stable \in BOOLEAN :
          \/ /\ Goto("sup", "noteCrash", "capCheck")
             /\ host' = NoteExit(host, FALSE, stable)
          \/ /\ Goto("sup", "noteRestart", IF stable THEN "segRecv" ELSE "capCheck")
             /\ host' = NoteExit(host, TRUE, stable)
    BY <1>15 DEF ChargeExit
  <2>2. host'.tree = host.tree
    <3>1. \E r, s \in BOOLEAN : host' = NoteExit(host, r, s)
      BY <2>1, Zenon
    <3> QED BY <1>1, <3>1, MethodTree
  <2>3. \E from \in {"noteCrash", "noteRestart"}, to \in {"segRecv", "capCheck"} :
            Goto("sup", from, to)
    BY <2>1, Zenon
  <2> QED BY <1>1, <1>15, <2>2, <2>3, InertKeeps DEF ChargeExit
<1>16. CASE Spawn
  BY <1>16, SpawnOwnership
<1> QED BY <1>2, <1>3, <1>4, <1>5, <1>6, <1>7, <1>8, <1>9, <1>10, <1>11, <1>12, <1>13,
           <1>14, <1>15, <1>16 DEF Supervise

LEMMA AppOwnership == TypeOK /\ Ownership /\ App => Ownership'
<1> SUFFICES ASSUME TypeOK, Ownership, App PROVE Ownership'
  OBVIOUS
<1>1. host \in HostInner
  BY DEF TypeOK
<1> USE DEF Quiet, Owning, Threads
<1>2. CASE Stop("app")
  BY <1>2, StopOwnership
<1>3. CASE BeginGraceful \/ BeginForce \/ Watchdog \/ RunEventExit \/ AppLatch
  BY <1>1, <1>3, InertKeeps, MethodTree DEF BeginGraceful, BeginForce, Watchdog,
     RunEventExit, AppLatch, Desired
<1>4. ASSUME NEW t \in {"force", "exit"}, ForceAppExit(t) PROVE Ownership'
  BY <1>1, <1>4, InertKeeps, TakeKeeps, KillKeeps, MethodTree DEF ForceAppExit, Desired
<1> QED BY <1>2, <1>3, <1>4 DEF App

LEMMA DispatchOwnership ==
    ASSUME TypeOK, Ownership, NEW command \in Command, Dispatch(command)
    PROVE  Ownership'
<1>1. host'.tree = host.tree
  BY MethodTree DEF TypeOK, Dispatch
<1> QED BY <1>1 DEF Dispatch, Ownership

LEMMA ChildExitOwnership ==
    ASSUME TypeOK, Ownership, NEW p \in Pids, ChildExit(p)
    PROVE  Ownership'
BY DEF ChildExit, Ownership, TypeOK

(* Whatever is alive is owned, and an owner never overwrites what it holds.*)
THEOREM OwnershipHolds == Spec => []Ownership
<1>1. Init => Ownership
  BY DEF Init, Ownership, Threads, None
<1>2. TypeOK /\ Ownership /\ [Next]_vars => Ownership'
  <2>1. CASE UNCHANGED vars
    BY <2>1 DEF vars, Ownership
  <2> QED BY <2>1, SuperviseOwnership, AppOwnership, DispatchOwnership,
             ChildExitOwnership DEF Next
<1> QED BY <1>1, <1>2, TypeCorrect, PTL DEF Spec

(* A live host is the adopted tree or in the hands of a thread that is     *)
(* about to adopt or kill it: neither a failed spawn nor a stop, a kill,   *)
(* an exit or the application's exit, interrupted by any of the others,    *)
(* leaves one that nobody can end.                                         *)
THEOREM NoHostLeaks == Spec => []NoLeakedHost
<1>1. Ownership => NoLeakedHost
  BY DEF Ownership, NoLeakedHost, Running
<1> QED BY <1>1, OwnershipHolds, PTL

-----------------------------------------------------------------------------
(* The handles of a generation.  Only an adoption sets them, and it needs  *)
(* the process the supervisor still owns.                                  *)

Handled(h) == (h.peer <=> h.tree # None) /\ (h.ready => h.peer)

(* The pid that is shown is the tree's or none, but for a force kill.      *)
PidIsTold ==
    \/ host.pid \in {None, host.tree}
    \/ host.tree = None /\ pc["sup"] \in {"killRun", "killFinish"}

LEMMA KeepsHandles ==
    ASSUME NEW h \in HostInner, NEW g \in HostInner, Handled(h),
           g.tree = h.tree, g.peer = h.peer, g.ready = h.ready
    PROVE  Handled(g)
BY DEF Handled

LEMMA MethodHandles ==
    ASSUME NEW h \in HostInner, Handled(h)
    PROVE  /\ Handled(ClearChild(h))
           /\ Handled(ResetStorm(h))
           /\ \A d \in Desired : Handled(LatchDesired(h, d))
           /\ Handled(FinishStopped(h))
           /\ Handled(TakeForKill(h))
           /\ Handled(ResumeRunning(h))
           /\ Handled(BumpStreak(h))
           /\ Handled(MarkFailed(h))
           /\ Handled(DoubleBackoff(h))
           /\ \A r, s \in BOOLEAN : Handled(NoteExit(h, r, s))
           /\ \A p \in Pids : Handled(Adopt(h, p))
           /\ h.tree # None => Handled(PromoteReady(h))
           /\ \A c \in Command : Handled(Dispatched(h, c))
<1>1. \A r, s \in BOOLEAN : Handled(NoteExit(h, r, s))
  <2> SUFFICES ASSUME NEW r \in BOOLEAN, NEW s \in BOOLEAN
               PROVE  Handled(NoteExit(h, r, s))
    OBVIOUS
  <2>1. Forgive(h, s) \in HostInner /\ Handled(Forgive(h, s))
    BY BackoffRange DEF Forgive, HostInner, Handled
  <2>2. /\ Handled(BumpStreak(Forgive(h, s)))
        /\ Handled([Forgive(h, s) EXCEPT !.attempt = 0, !.nextRetry = FALSE])
    BY <2>1 DEF BumpStreak, HostInner, Handled
  <2>3. CASE r /\ s
    BY <2>2, <2>3 DEF NoteExit
  <2>4. CASE ~(r /\ s)
    BY <2>2, <2>4 DEF NoteExit
  <2> QED BY <2>3, <2>4
<1>2. \A c \in Command : Handled(Dispatched(h, c))
  <2> SUFFICES ASSUME NEW c \in Command PROVE Handled(Dispatched(h, c))
    OBVIOUS
  <2>1. Reduced(h, c) \in HostInner /\ Handled(Reduced(h, c))
    BY ReducerType DEF HostInner, Reduced, Handled
  <2>2. CASE c \in StartLike
    BY <2>1, <2>2 DEF Dispatched, ResetStorm, HostInner, Handled
  <2>3. CASE c \notin StartLike
    BY <2>1, <2>3 DEF Dispatched, HostInner, Handled
  <2> QED BY <2>2, <2>3
<1>3. /\ Handled(ClearChild(h))
      /\ Handled(TakeForKill(h))
      /\ \A p \in Pids : Handled(Adopt(h, p))
      /\ h.tree # None => Handled(PromoteReady(h))
  BY DEF HostInner, Handled, ClearChild, TakeForKill, Adopt, PromoteReady, Pids, None
<1>4. /\ Handled(ResetStorm(h))
      /\ \A d \in Desired : Handled(LatchDesired(h, d))
      /\ Handled(FinishStopped(h))
      /\ Handled(ResumeRunning(h))
      /\ Handled(BumpStreak(h))
      /\ Handled(MarkFailed(h))
      /\ Handled(DoubleBackoff(h))
  BY DEF HostInner, Handled, ResetStorm, LatchDesired, FinishStopped, ResumeRunning,
     BumpStreak, MarkFailed, DoubleBackoff
<1> QED BY <1>1, <1>2, <1>3, <1>4

LEMMA SpawnHandles == TypeOK /\ Ownership /\ Handled(host) /\ Spawn => Handled(host')
<1> SUFFICES ASSUME TypeOK, Ownership, Handled(host), Spawn PROVE Handled(host')
  OBVIOUS
<1>1. host \in HostInner
  BY DEF TypeOK
<1> USE DEF Quiet
<1>2. CASE Fence \/ Launch \/ Allocate \/ KillRefused
  BY <1>1, <1>2 DEF Fence, Launch, Allocate, KillRefused, HostInner, Handled
<1>3. CASE AwaitCurrent \/ AwaitReady \/ AwaitFailed \/ AwaitAgain \/ Ping
  BY <1>3 DEF AwaitCurrent, AwaitReady, AwaitFailed, AwaitAgain, Ping
<1>4. CASE AdoptInflight
  <2>1. CASE host.stopping
    BY <1>4, <2>1 DEF AdoptInflight
  <2>2. CASE ~host.stopping
    <3>1. host' = Adopt(host, held["sup"]) /\ held["sup"] \in Pids
      BY <1>4, <2>2 DEF AdoptInflight, Goto, Ownership, TypeOK, PidOrNone, Threads
    <3> QED BY <1>1, <3>1, MethodHandles
  <2> QED BY <2>1, <2>2
<1>5. CASE AwaitExited \/ Promote \/ ReapSpawn
  BY <1>1, <1>5, MethodHandles DEF AwaitExited, Promote, ReapSpawn
<1> QED BY <1>2, <1>3, <1>4, <1>5 DEF Spawn

LEMMA StopHandles ==
    ASSUME TypeOK, Handled(host), NEW t \in {"sup", "app"}, Stop(t)
    PROVE  Handled(host')
<1>1. host \in HostInner
  BY DEF TypeOK
<1> QED BY <1>1, MethodHandles DEF Stop, StopLatch, StopChildGone, StopDeadline, StopTake,
           StopKill, StopFinish, Quiet, Desired

LEMMA SuperviseHandles ==
    TypeOK /\ Ownership /\ Handled(host) /\ Supervise => Handled(host')
<1> SUFFICES ASSUME TypeOK, Ownership, Handled(host), Supervise PROVE Handled(host')
  OBVIOUS
<1>1. host \in HostInner
  BY DEF TypeOK
<1> USE DEF Quiet
<1>2. CASE LoopTop \/ SegmentDone \/ AnnounceReady \/ StdioLost \/ PublishBackoff
           \/ LoopExitCheck \/ CommandDone \/ Decide \/ DecideCapped \/ HasChild
           \/ KillRun
  BY <1>2 DEF LoopTop, SegmentDone, AnnounceReady, StdioLost, PublishBackoff, Publish,
     LoopExitCheck, CommandDone, Decide, DecideCapped, HasChild, KillRun
<1>3. CASE SegmentWants \/ SegmentCapped \/ CapCheck \/ WatchFlags \/ SleepCheck
           \/ SleepElapsed \/ SpawnError
  BY <1>3 DEF SegmentWants, SegmentCapped, CapCheck, WatchFlags, SleepCheck, SleepElapsed,
     SpawnError
<1>4. CASE Drain \/ Park \/ SegmentReceive \/ WatchReceive \/ SleepReceive
  BY <1>1, <1>4, MethodHandles DEF Drain, Park, SegmentReceive, WatchReceive, SleepReceive,
     ReceiveAndReset, ReceiveAndCall, ReceiveOnly, ReceiveNothing
<1>5. CASE Resume \/ KillTake \/ KillFinish \/ GiveUp \/ ChargeSpawn \/ WatchChild \/ Lengthen
  BY <1>1, <1>5, MethodHandles DEF Resume, KillTake, KillFinish, GiveUp, ChargeSpawn,
     WatchChild, Lengthen
<1>6. CASE SleepMark
  BY <1>1, <1>6 DEF SleepMark, HostInner, Handled
<1>7. CASE ChargeExit
  <2>1. \E r, s \in BOOLEAN : host' = NoteExit(host, r, s)
    BY <1>7, Zenon DEF ChargeExit
  <2> QED BY <1>1, <2>1, MethodHandles
<1> QED BY <1>2, <1>3, <1>4, <1>5, <1>6, <1>7, StopHandles, SpawnHandles DEF Supervise

LEMMA AppHandles == TypeOK /\ Handled(host) /\ App => Handled(host')
<1> SUFFICES ASSUME TypeOK, Handled(host), App PROVE Handled(host')
  OBVIOUS
<1>1. host \in HostInner
  BY DEF TypeOK
<1> QED BY <1>1, StopHandles, MethodHandles DEF App, BeginGraceful, AppLatch, BeginForce,
           Watchdog, RunEventExit, ForceAppExit, Quiet, Desired

LEMMA MethodPid ==
    ASSUME NEW h \in HostInner
    PROVE  /\ ClearChild(h).pid = None
           /\ FinishStopped(h).pid = None
           /\ MarkFailed(h).pid = None
           /\ \A p : Adopt(h, p).pid = p
           /\ PromoteReady(h).pid = h.tree
           /\ ResetStorm(h).pid = h.pid
           /\ \A d \in Desired : LatchDesired(h, d).pid = h.pid
           /\ TakeForKill(h).pid = h.pid
           /\ ResumeRunning(h).pid = h.pid
           /\ BumpStreak(h).pid = h.pid
           /\ DoubleBackoff(h).pid = h.pid
           /\ \A r, s \in BOOLEAN : NoteExit(h, r, s).pid = h.pid
           /\ \A c \in Command : Dispatched(h, c).pid = h.pid
<1>1. ASSUME NEW r \in BOOLEAN, NEW s \in BOOLEAN PROVE NoteExit(h, r, s).pid = h.pid
  <2>1. Forgive(h, s) \in HostInner /\ Forgive(h, s).pid = h.pid
    BY BackoffRange DEF Forgive, HostInner
  <2>2. /\ BumpStreak(Forgive(h, s)).pid = h.pid
        /\ [Forgive(h, s) EXCEPT !.attempt = 0, !.nextRetry = FALSE].pid = h.pid
    BY <2>1 DEF BumpStreak, HostInner
  <2>3. CASE r /\ s
    BY <2>2, <2>3 DEF NoteExit
  <2>4. CASE ~(r /\ s)
    BY <2>2, <2>4 DEF NoteExit
  <2> QED BY <2>3, <2>4
<1>2. ASSUME NEW c \in Command PROVE Dispatched(h, c).pid = h.pid
  <2>1. Reduced(h, c) \in HostInner /\ Reduced(h, c).pid = h.pid
    BY ReducerType DEF HostInner, Reduced
  <2>2. CASE c \in StartLike
    BY <2>1, <2>2 DEF Dispatched, ResetStorm, HostInner
  <2>3. CASE c \notin StartLike
    BY <2>1, <2>3 DEF Dispatched, HostInner
  <2> QED BY <2>2, <2>3
<1> QED BY <1>1, <1>2 DEF HostInner, ClearChild, FinishStopped, MarkFailed, Adopt,
           PromoteReady, ResetStorm, LatchDesired, TakeForKill, ResumeRunning, BumpStreak,
           DoubleBackoff

(* Every method leaves the pid and the tree, or clears or sets both; only  *)
(* a force kill drops the tree and keeps showing the pid until it is done. *)
LEMMA SupervisePid ==
    TypeOK /\ PidIsTold /\ Supervise => PidIsTold'
<1> SUFFICES ASSUME TypeOK, PidIsTold, Supervise
             PROVE  PidIsTold'
  OBVIOUS
<1>1. /\ pc \in [Threads -> SupLabel \cup AppLabel \cup ExitLabel] /\ "sup" \in Threads
      /\ host \in HostInner
  BY DEF TypeOK, Threads
<1>2. ASSUME host'.tree = host.tree, host'.pid = host.pid,
             pc["sup"] \notin {"killRun", "killFinish"}
      PROVE  PidIsTold'
  BY <1>2 DEF PidIsTold
<1>3. ASSUME host'.pid = None PROVE PidIsTold'
  BY <1>3 DEF PidIsTold
<1> USE <1>1 DEF Goto, Quiet
<1>4. CASE LoopTop \/ SegmentDone \/ AnnounceReady \/ StdioLost \/ PublishBackoff
           \/ LoopExitCheck \/ CommandDone \/ Decide \/ DecideCapped \/ HasChild
  BY <1>2, <1>4 DEF LoopTop, SegmentDone, AnnounceReady, StdioLost, PublishBackoff,
     Publish,
     LoopExitCheck, CommandDone, Decide, DecideCapped, HasChild
<1>5. CASE SegmentWants \/ SegmentCapped \/ CapCheck \/ WatchFlags \/ SleepCheck
           \/ SleepElapsed \/ SpawnError
  BY <1>2, <1>5 DEF SegmentWants, SegmentCapped, CapCheck, WatchFlags, SleepCheck,
     SleepElapsed, SpawnError
<1>6. CASE Drain \/ Park \/ SegmentReceive \/ WatchReceive \/ SleepReceive
  BY <1>2, <1>6, MethodTree, MethodPid DEF Drain, Park, SegmentReceive, WatchReceive,
     SleepReceive, Receive, ReceiveAndReset, ReceiveAndCall, ReceiveOnly, ReceiveNothing
<1>7. CASE Resume \/ ChargeSpawn \/ Lengthen
  BY <1>2, <1>7, MethodTree, MethodPid DEF Resume, ChargeSpawn, Lengthen
<1>8. CASE KillRun
  BY <1>8 DEF KillRun, PidIsTold
<1>9. CASE KillFinish \/ GiveUp \/ StopFinish("sup")
  <2>1. host'.pid = None
    BY <1>9, MethodPid DEF KillFinish, GiveUp, StopFinish
  <2> QED BY <1>3, <2>1
<1>10. CASE KillTake
  <2>1. CASE host.tree = None
    BY <1>2, <1>10, <2>1 DEF KillTake
  <2>2. CASE host.tree # None
    <3>1. pc'["sup"] = "killRun" /\ host'.tree = None
      BY <1>10, <2>2, MethodTree DEF KillTake
    <3> QED BY <3>1 DEF PidIsTold
  <2> QED BY <2>1, <2>2
<1>11. CASE SleepMark
  BY <1>2, <1>11 DEF SleepMark, HostInner
<1>12. CASE WatchChild
  BY <1>2, <1>3, <1>12, MethodTree, MethodPid DEF WatchChild
<1>13. CASE ChargeExit
  <2>1. pc["sup"] \in {"noteCrash", "noteRestart"}
    BY <1>13, Zenon DEF ChargeExit
  <2>2. \E r, s \in BOOLEAN : host' = NoteExit(host, r, s)
    BY <1>13, Zenon DEF ChargeExit
  <2>3. host'.tree = host.tree /\ host'.pid = host.pid
    BY <2>2, MethodTree, MethodPid
  <2> QED BY <1>2, <2>1, <2>3
<1>14. CASE Stop("sup") /\ ~StopFinish("sup")
  BY <1>2, <1>3, <1>14, MethodTree, MethodPid DEF Stop, StopLatch, StopChildGone,
     StopDeadline, StopTake, StopKill, Desired
<1>15. CASE Spawn
  <2> USE DEF SpawnFails
  <2>1. CASE Fence \/ Launch \/ Allocate \/ KillRefused
    <3>1. host'.tree = host.tree /\ host'.pid = host.pid
      BY <2>1 DEF Fence, Launch, Allocate, KillRefused, HostInner
    <3>2. pc["sup"] \notin {"killRun", "killFinish"}
      BY <2>1 DEF Fence, Launch, Allocate, KillRefused
    <3> QED BY <1>2, <3>1, <3>2
  <2>2. CASE AwaitCurrent \/ AwaitReady \/ AwaitFailed \/ AwaitAgain \/ Ping
    BY <1>2, <2>2 DEF AwaitCurrent, AwaitReady, AwaitFailed, AwaitAgain, Ping
  <2>3. CASE AwaitExited \/ ReapSpawn
    BY <1>2, <1>3, <2>3, MethodTree, MethodPid DEF AwaitExited, ReapSpawn
  <2>4. CASE AdoptInflight
    <3>1. CASE UNCHANGED host
      BY <1>2, <2>4, <3>1 DEF AdoptInflight
    <3>2. CASE host' = Adopt(host, held["sup"])
      BY <3>2, MethodTree, MethodPid DEF PidIsTold
    <3> QED BY <2>4, <3>1, <3>2 DEF AdoptInflight
  <2>5. CASE Promote
    <3>1. CASE UNCHANGED host
      BY <1>2, <2>5, <3>1 DEF Promote
    <3>2. CASE host' = PromoteReady(host) /\ host.tree # None
      BY <3>2, MethodTree, MethodPid DEF PidIsTold
    <3> QED BY <2>5, <3>1, <3>2 DEF Promote
  <2> QED BY <1>15, <2>1, <2>2, <2>3, <2>4, <2>5 DEF Spawn
<1> QED BY <1>4, <1>5, <1>6, <1>7, <1>8, <1>9, <1>10, <1>11, <1>12, <1>13, <1>14,
           <1>15 DEF Supervise, Stop

LEMMA AppPid == TypeOK /\ PidIsTold /\ App => PidIsTold'
<1> SUFFICES ASSUME TypeOK, PidIsTold, App PROVE PidIsTold'
  OBVIOUS
<1>1. host \in HostInner /\ pc'["sup"] = pc["sup"]
  BY AppStays DEF TypeOK
<1>2. host'.pid = None \/ (host'.tree = host.tree /\ host'.pid = host.pid)
  BY <1>1, MethodTree, MethodPid DEF App, Stop, StopLatch, StopChildGone, StopDeadline,
     StopTake, StopKill, StopFinish, BeginGraceful, AppLatch, BeginForce, Watchdog,
     RunEventExit, ForceAppExit, Quiet, Desired
<1> QED BY <1>1, <1>2 DEF PidIsTold

(* No peer without a tree and no tree without a peer: shell capabilities   *)
(* never talk to a host that was taken, and no host is watched that a stop *)
(* could not address.  And the pid that is shown is the tree's own, or     *)
(* that of the process a force kill is killing.                            *)
THEOREM HandlesStayTogether == Spec => []HandlesTogether
<1>1. Init => HandlesTogether
  BY DEF Init, InitialHost, HandlesTogether
<1>2. TypeOK /\ Ownership /\ HandlesTogether /\ [Next]_vars => HandlesTogether'
  <2> SUFFICES ASSUME TypeOK, Ownership, HandlesTogether, [Next]_vars
               PROVE  HandlesTogether'
    OBVIOUS
  <2>1. Handled(host) /\ PidIsTold
    BY DEF Handled, PidIsTold, HandlesTogether
  <2>2. Handled(host') /\ PidIsTold'
    <3>1. ASSUME NEW command \in Command, Dispatch(command)
          PROVE  Handled(host') /\ PidIsTold'
      <4>1. Handled(host')
        BY <2>1, <3>1, MethodHandles DEF Dispatch, TypeOK
      <4>2. host'.tree = host.tree /\ host'.pid = host.pid /\ pc' = pc
        BY <3>1, MethodTree, MethodPid DEF Dispatch, TypeOK
      <4> QED BY <2>1, <4>1, <4>2 DEF PidIsTold
    <3>2. CASE (\E p \in Pids : ChildExit(p)) \/ UNCHANGED vars
      BY <2>1, <3>2 DEF ChildExit, vars, PidIsTold
    <3> QED BY <2>1, <3>1, <3>2, SuperviseHandles, AppHandles, SupervisePid, AppPid
            DEF Next
  <2> QED BY <2>2 DEF Handled, PidIsTold, HandlesTogether
<1> QED BY <1>1, <1>2, TypeCorrect, OwnershipHolds, PTL DEF Spec

-----------------------------------------------------------------------------
(* Custody: which process each owner has.  For this every step is of one   *)
(* of nine kinds, which the refinement below uses again.                   *)

(* The supervisor has launched a process and not adopted or killed it yet. *)
Launched == {"allocate", "adopt", "refused"}

SupElsewhere ==
    \/ pc'["sup"] = pc["sup"]
    \/ pc["sup"] \notin Launched /\ pc'["sup"] \notin Launched

SameProcesses == host'.gen = host.gen /\ procs' = procs

Inert == SupElsewhere /\ SameProcesses /\ host'.tree = host.tree /\ held' = held

Refused ==
    /\ pc["sup"] \in {"allocate", "adopt"} /\ pc'["sup"] = "refused"
    /\ pc["sup"] = "allocate" => host.gen = MaxGeneration
    /\ SameProcesses /\ host'.tree = host.tree /\ held' = held

TakenBy(t) ==
    /\ SupElsewhere /\ SameProcesses
    /\ held[t] = None /\ TakeTree(t) /\ host'.tree = None
    /\ t = "sup" => pc["sup"] \notin Launched

KilledBy(t) ==
    /\ \/ t # "sup" /\ pc'["sup"] = pc["sup"]
       \/ /\ t = "sup" /\ pc["sup"] \notin {"allocate", "adopt"}
          /\ pc'["sup"] \notin Launched
    /\ KillHeld(t)
    /\ host'.tree = host.tree /\ host'.gen = host.gen

Collected ==
    /\ SupElsewhere
    /\ Exited(host.tree) /\ procs' = Reaped(host.tree)
    /\ host'.tree = None /\ held' = held /\ host'.gen = host.gen

LaunchedOne ==
    /\ pc["sup"] = "launch" /\ pc'["sup"] = "allocate"
    /\ held["sup"] = None
    /\ held' = [held EXCEPT !["sup"] = host.gen + 1]
    /\ procs' = [procs EXCEPT ![host.gen + 1] = "running"]
    /\ host'.tree = host.tree /\ host'.gen = host.gen

Numbered ==
    /\ pc["sup"] = "allocate" /\ pc'["sup"] = "adopt"
    /\ host.gen < MaxGeneration /\ host'.gen = host.gen + 1
    /\ host'.tree = host.tree /\ held' = held /\ procs' = procs

Adopted ==
    /\ pc["sup"] = "adopt" /\ pc'["sup"] = "await" /\ ~host.stopping
    /\ host'.tree = held["sup"] /\ host'.gen = host.gen
    /\ held' = [held EXCEPT !["sup"] = None]
    /\ procs' = Reaped(host.tree)

ExitedByItself(p) ==
    /\ procs[p] = "running"
    /\ \E how \in ExitKind : procs' = [procs EXCEPT ![p] = how]
    /\ UNCHANGED <<host, pc, held>>

StepOfAKind ==
    \/ Inert \/ Refused
    \/ \E t \in Threads : TakenBy(t) \/ KilledBy(t)
    \/ Collected \/ LaunchedOne \/ Numbered \/ Adopted
    \/ \E p \in Pids : ExitedByItself(p)

LEMMA MethodGen ==
    ASSUME NEW h \in HostInner
    PROVE  /\ ClearChild(h).gen = h.gen
           /\ ResetStorm(h).gen = h.gen
           /\ \A d \in Desired : LatchDesired(h, d).gen = h.gen
           /\ FinishStopped(h).gen = h.gen
           /\ TakeForKill(h).gen = h.gen
           /\ ResumeRunning(h).gen = h.gen
           /\ BumpStreak(h).gen = h.gen
           /\ MarkFailed(h).gen = h.gen
           /\ DoubleBackoff(h).gen = h.gen
           /\ \A r, s \in BOOLEAN : NoteExit(h, r, s).gen = h.gen
           /\ \A p : Adopt(h, p).gen = h.gen
           /\ PromoteReady(h).gen = h.gen
           /\ \A c \in Command : Dispatched(h, c).gen = h.gen
<1>1. \A r, s \in BOOLEAN : NoteExit(h, r, s).gen = h.gen
  <2> SUFFICES ASSUME NEW r \in BOOLEAN, NEW s \in BOOLEAN
               PROVE  NoteExit(h, r, s).gen = h.gen
    OBVIOUS
  <2>1. Forgive(h, s) \in HostInner /\ Forgive(h, s).gen = h.gen
    BY BackoffRange DEF Forgive, HostInner
  <2> HIDE DEF HostInner
  <2>2. /\ BumpStreak(Forgive(h, s)).gen = h.gen
        /\ [Forgive(h, s) EXCEPT !.attempt = 0, !.nextRetry = FALSE].gen = h.gen
    BY <2>1 DEF BumpStreak, HostInner
  <2>3. CASE r /\ s
    BY <2>2, <2>3 DEF NoteExit
  <2>4. CASE ~(r /\ s)
    BY <2>2, <2>4 DEF NoteExit
  <2> QED BY <2>3, <2>4
<1>2. \A c \in Command : Dispatched(h, c).gen = h.gen
  <2> SUFFICES ASSUME NEW c \in Command PROVE Dispatched(h, c).gen = h.gen
    OBVIOUS
  <2>1. Reduced(h, c) \in HostInner /\ Reduced(h, c).gen = h.gen
    BY ReducerType DEF HostInner, Reduced
  <2>2. CASE c \in StartLike
    BY <2>1, <2>2 DEF Dispatched, ResetStorm, HostInner
  <2>3. CASE c \notin StartLike
    BY <2>1, <2>3 DEF Dispatched, HostInner
  <2> QED BY <2>2, <2>3
<1> QED BY <1>1, <1>2 DEF HostInner, ClearChild, ResetStorm, LatchDesired, FinishStopped,
           TakeForKill, ResumeRunning, BumpStreak, MarkFailed, DoubleBackoff, Adopt,
           PromoteReady

(* A step of thread t from one label to another, by what it does.          *)
LEMMA GoingIsOfAKind ==
    ASSUME TypeOK, Ownership, NEW t \in Threads, NEW from, NEW to, Goto(t, from, to),
           host'.gen = host.gen, t = "sup" => to \notin Launched
    PROVE  /\ /\ host'.tree = host.tree /\ held' = held /\ procs' = procs
              /\ from \notin Launched
              => StepOfAKind
           /\ /\ host'.tree = None /\ TakeTree(t) /\ procs' = procs
              /\ from \notin Owning
              => StepOfAKind
           /\ /\ host'.tree = host.tree /\ KillHeld(t)
              /\ from \notin {"allocate", "adopt"}
              => StepOfAKind
           /\ /\ host'.tree = None /\ held' = held /\ Exited(host.tree)
              /\ procs' = Reaped(host.tree) /\ from \notin Launched
              => StepOfAKind
<1>1. /\ pc[t] = from
      /\ t = "sup" => pc'["sup"] = to
      /\ t # "sup" => pc'["sup"] = pc["sup"]
  BY DEF Goto, TypeOK, Threads
<1>2. from \notin Launched => SupElsewhere
  BY <1>1 DEF SupElsewhere
<1>3. from \notin Owning => from \notin Launched /\ held[t] = None
  BY <1>1 DEF Ownership, Owning, Launched
<1> QED BY <1>1, <1>2, <1>3 DEF StepOfAKind, Inert, TakenBy, KilledBy, Collected,
           SameProcesses

LEMMA StopKind ==
    ASSUME TypeOK, Ownership, NEW t \in {"sup", "app"}, Stop(t)
    PROVE  StepOfAKind
<1>1. /\ host \in HostInner /\ t \in Threads /\ cont \in Continuation
  BY DEF TypeOK, Threads
<1> USE DEF Quiet, Owning, Launched
<1>2. CASE StopLatch(t)
  BY <1>1, <1>2, GoingIsOfAKind, MethodTree, MethodGen DEF StopLatch, Desired
<1>3. CASE StopChildGone(t) \/ StopDeadline(t)
  BY <1>1, <1>3, GoingIsOfAKind DEF StopChildGone, StopDeadline
<1>4. CASE StopTake(t)
  BY <1>1, <1>4, GoingIsOfAKind, MethodTree, MethodGen DEF StopTake
<1>5. CASE StopKill(t)
  BY <1>1, <1>5, GoingIsOfAKind DEF StopKill
<1>6. CASE StopFinish(t)
  BY <1>1, <1>6, GoingIsOfAKind, MethodTree, MethodGen DEF StopFinish, Continuation
<1> QED BY <1>2, <1>3, <1>4, <1>5, <1>6 DEF Stop

LEMMA SpawnKind == TypeOK /\ Ownership /\ Spawn => StepOfAKind
<1> SUFFICES ASSUME TypeOK, Ownership, Spawn PROVE StepOfAKind
  OBVIOUS
<1>1. host \in HostInner /\ "sup" \in Threads
  BY DEF TypeOK, Threads
<1> USE DEF Quiet, Owning, Launched, SpawnFails
<1>2. CASE Fence
  <2>1. /\ \E to \in {"spawnErr", "launch"} : Goto("sup", "fence", to)
        /\ host'.tree = host.tree /\ host'.gen = host.gen
        /\ held' = held /\ procs' = procs
    BY <1>1, <1>2 DEF Fence, HostInner
  <2> QED BY <1>1, <2>1, GoingIsOfAKind
<1>3. CASE AwaitCurrent \/ AwaitReady \/ AwaitFailed \/ AwaitAgain \/ Ping \/ Promote
  BY <1>1, <1>3, GoingIsOfAKind, MethodTree, MethodGen DEF AwaitCurrent, AwaitReady,
     AwaitFailed, AwaitAgain, Ping, Promote
<1>4. CASE Launch
  <2>1. CASE SpawnFails("launch", "spawnErr", "retry")
    <3>1. Goto("sup", "launch", "spawnErr") /\ UNCHANGED <<host, held, procs>>
      BY <1>1, <1>4, <2>1 DEF Launch, Goto, TypeOK
    <3> QED BY <1>1, <3>1, GoingIsOfAKind
  <2>2. CASE Goto("sup", "launch", "allocate")
    <3>1. /\ pc["sup"] = "launch" /\ pc'["sup"] = "allocate"
          /\ host' = host
          /\ held' = [held EXCEPT !["sup"] = host.gen + 1]
          /\ procs' = [procs EXCEPT ![host.gen + 1] = "running"]
      BY <1>4, <2>2 DEF Launch, Goto, TypeOK, Threads
    <3>2. held["sup"] = None
      BY <1>1, <3>1 DEF Ownership
    <3> QED BY <3>1, <3>2 DEF StepOfAKind, LaunchedOne
  <2> QED BY <1>4, <2>1, <2>2 DEF Launch
<1>5. CASE Allocate
  <2>1. pc["sup"] = "allocate" /\ pc'["sup"] \in {"adopt", "refused"}
    BY <1>1, <1>5 DEF Allocate, Goto, TypeOK
  <2>2. CASE host.gen < MaxGeneration
    <3>1. /\ pc'["sup"] = "adopt" /\ host' = [host EXCEPT !.gen = @ + 1]
          /\ held' = held /\ procs' = procs
      BY <1>1, <1>5, <2>2, BoundAssumption DEF Allocate, Goto, TypeOK, HostInner
    <3>2. host'.gen = host.gen + 1 /\ host'.tree = host.tree
      BY <1>1, <3>1 DEF HostInner
    <3> QED BY <2>1, <2>2, <3>1, <3>2 DEF StepOfAKind, Numbered
  <2>3. CASE ~(host.gen < MaxGeneration)
    <3>1. /\ pc'["sup"] = "refused" /\ host' = host /\ held' = held /\ procs' = procs
      BY <1>1, <1>5, <2>3 DEF Allocate, Goto, TypeOK
    <3>2. host.gen = MaxGeneration
      BY <1>1, <2>3, BoundAssumption DEF HostInner
    <3> QED BY <2>1, <3>1, <3>2 DEF StepOfAKind, Refused, SameProcesses
  <2> QED BY <2>2, <2>3
<1>6. CASE AdoptInflight
  <2>1. CASE host.stopping
    <3>1. /\ pc["sup"] = "adopt" /\ pc'["sup"] = "refused"
          /\ UNCHANGED <<host, held, procs>>
      BY <1>1, <1>6, <2>1 DEF AdoptInflight, Goto, TypeOK
    <3> QED BY <3>1 DEF StepOfAKind, Refused, SameProcesses
  <2>2. CASE ~host.stopping
    <3>1. /\ pc["sup"] = "adopt" /\ pc'["sup"] = "await"
          /\ host' = Adopt(host, held["sup"])
          /\ held' = [held EXCEPT !["sup"] = None]
          /\ procs' = Reaped(host.tree)
      BY <1>1, <1>6, <2>2 DEF AdoptInflight, Goto, TypeOK
    <3>2. host'.tree = held["sup"] /\ host'.gen = host.gen
      BY <1>1, <3>1, MethodTree, MethodGen
    <3> QED BY <2>2, <3>1, <3>2 DEF StepOfAKind, Adopted
  <2> QED BY <2>1, <2>2
<1>7. CASE KillRefused
  BY <1>1, <1>7, GoingIsOfAKind DEF KillRefused
<1>8. CASE AwaitExited
  BY <1>1, <1>8, GoingIsOfAKind, MethodTree, MethodGen DEF AwaitExited
<1>9. CASE ReapSpawn
  BY <1>1, <1>9, GoingIsOfAKind, MethodTree, MethodGen DEF ReapSpawn
<1> QED BY <1>2, <1>3, <1>4, <1>5, <1>6, <1>7, <1>8, <1>9 DEF Spawn

LEMMA SuperviseKind == TypeOK /\ Ownership /\ Supervise => StepOfAKind
<1> SUFFICES ASSUME TypeOK, Ownership, Supervise PROVE StepOfAKind
  OBVIOUS
<1>1. host \in HostInner /\ "sup" \in Threads /\ cont \in Continuation
  BY DEF TypeOK, Threads
<1> USE DEF Quiet, Owning, Launched, Continuation
<1>2. CASE LoopTop \/ SegmentDone \/ AnnounceReady \/ StdioLost \/ PublishBackoff
  BY <1>1, <1>2, GoingIsOfAKind DEF LoopTop, SegmentDone, AnnounceReady, StdioLost,
     PublishBackoff, Publish
<1>3. CASE LoopExitCheck \/ CommandDone \/ Decide \/ DecideCapped \/ HasChild
  BY <1>1, <1>3, GoingIsOfAKind DEF LoopExitCheck, CommandDone, Decide, DecideCapped,
     HasChild
<1>4. CASE Drain \/ Park
  BY <1>1, <1>4, GoingIsOfAKind, MethodTree, MethodGen DEF Drain, Park, ReceiveAndReset,
     ReceiveAndCall, ReceiveOnly, ReceiveNothing, Receive
<1>5. CASE SegmentReceive \/ SleepReceive
  BY <1>1, <1>5, GoingIsOfAKind, MethodTree, MethodGen DEF SegmentReceive, SleepReceive,
     ReceiveAndReset, ReceiveAndCall, ReceiveOnly, ReceiveNothing, Receive
<1>6. CASE WatchReceive
  BY <1>1, <1>6, GoingIsOfAKind, MethodTree, MethodGen DEF WatchReceive,
     ReceiveAndReset,
     ReceiveAndCall, ReceiveOnly, ReceiveNothing, Receive
<1>7. CASE Stop("sup")
  BY <1>7, StopKind
<1>8. CASE KillTake
  <2>1. CASE host.tree = None
    BY <1>1, <1>8, <2>1, GoingIsOfAKind DEF KillTake
  <2>2. CASE host.tree # None
    BY <1>1, <1>8, <2>2, GoingIsOfAKind, MethodTree, MethodGen DEF KillTake
  <2> QED BY <2>1, <2>2
<1>9. CASE KillRun
  BY <1>1, <1>9, GoingIsOfAKind DEF KillRun
<1>10. CASE KillFinish \/ Resume \/ GiveUp \/ ChargeSpawn \/ Lengthen
  BY <1>1, <1>10, GoingIsOfAKind, MethodTree, MethodGen DEF KillFinish, Resume, GiveUp,
     ChargeSpawn, Lengthen
<1>11. CASE SegmentWants \/ SegmentCapped \/ CapCheck \/ WatchFlags \/ SleepCheck \/ SleepElapsed
  BY <1>1, <1>11, GoingIsOfAKind DEF SegmentWants, SegmentCapped, CapCheck, WatchFlags,
     SleepCheck, SleepElapsed
<1>12. CASE SleepMark
  BY <1>1, <1>12, GoingIsOfAKind DEF SleepMark, HostInner
<1>13. CASE SpawnError
  BY <1>1, <1>13, GoingIsOfAKind DEF SpawnError
<1>14. CASE WatchChild
  <2>1. Exited(host.tree) => procs[host.tree] \in ExitKind
    BY DEF Exited
  <2> QED BY <1>1, <1>14, <2>1, GoingIsOfAKind, MethodTree, MethodGen DEF WatchChild, ExitKind
<1>15. CASE ChargeExit
  <2>1. PICK stable \in BOOLEAN :
          \/ /\ Goto("sup", "noteCrash", "capCheck")
             /\ host' = NoteExit(host, FALSE, stable)
          \/ /\ Goto("sup", "noteRestart", IF stable THEN "segRecv" ELSE "capCheck")
             /\ host' = NoteExit(host, TRUE, stable)
    BY <1>15 DEF ChargeExit
  <2>2. host'.tree = host.tree /\ host'.gen = host.gen
    <3>1. \E r, s \in BOOLEAN : host' = NoteExit(host, r, s)
      BY <2>1, Zenon
    <3> QED BY <1>1, <3>1, MethodTree, MethodGen
  <2>3. \E from \in {"noteCrash", "noteRestart"}, to \in {"segRecv", "capCheck"} :
            Goto("sup", from, to)
    BY <2>1, Zenon
  <2> QED BY <1>1, <1>15, <2>2, <2>3, GoingIsOfAKind DEF ChargeExit
<1>16. CASE Spawn
  BY <1>16, SpawnKind
<1> QED BY <1>2, <1>3, <1>4, <1>5, <1>6, <1>7, <1>8, <1>9, <1>10, <1>11, <1>12, <1>13,
           <1>14, <1>15, <1>16 DEF Supervise

LEMMA AppKind == TypeOK /\ Ownership /\ App => StepOfAKind
<1> SUFFICES ASSUME TypeOK, Ownership, App PROVE StepOfAKind
  OBVIOUS
<1>1. host \in HostInner
  BY DEF TypeOK
<1> USE DEF Quiet, Owning, Launched, Threads
<1>2. CASE Stop("app")
  BY <1>2, StopKind
<1>3. CASE BeginGraceful \/ BeginForce \/ Watchdog \/ RunEventExit \/ AppLatch
  BY <1>1, <1>3, GoingIsOfAKind, MethodTree, MethodGen DEF BeginGraceful, BeginForce,
     Watchdog, RunEventExit, AppLatch, Desired
<1>4. ASSUME NEW t \in {"force", "exit"}, ForceAppExit(t) PROVE StepOfAKind
  BY <1>1, <1>4, GoingIsOfAKind, MethodTree, MethodGen DEF ForceAppExit, Desired
<1> QED BY <1>2, <1>3, <1>4 DEF App

LEMMA EveryStepIsOfAKind == TypeOK /\ Ownership /\ [Next]_vars => StepOfAKind
<1> SUFFICES ASSUME TypeOK, Ownership, [Next]_vars PROVE StepOfAKind
  OBVIOUS
<1>1. CASE UNCHANGED vars
  BY <1>1 DEF vars, StepOfAKind, Inert, SupElsewhere, SameProcesses
<1>2. ASSUME NEW command \in Command, Dispatch(command) PROVE StepOfAKind
  <2>1. host'.tree = host.tree /\ host'.gen = host.gen
    BY <1>2, MethodTree, MethodGen DEF Dispatch, TypeOK
  <2> QED BY <1>2, <2>1 DEF Dispatch, StepOfAKind, Inert, SupElsewhere, SameProcesses
<1>3. ASSUME NEW p \in Pids, ChildExit(p) PROVE StepOfAKind
  BY <1>3 DEF ChildExit, StepOfAKind, ExitedByItself
<1> QED BY <1>1, <1>2, <1>3, SuperviseKind, AppKind DEF Next

(* Alive, or dead and not yet waited for: somebody has to end or reap it.  *)
Pending(p) == procs[p] \notin {"unborn", "reaped"}

(* The numbers up to the current generation are used; of the others only   *)
(* the process that the supervisor launched last may have been born, and   *)
(* the last slot is used again once the numbers are exhausted.             *)
Numbering ==
    /\ \A p \in Pids : p <= host.gen => procs[p] # "unborn"
    /\ \A p \in Pids : p > host.gen =>
          \/ procs[p] = "unborn"
          \/ p = held["sup"] /\ pc["sup"] \in Launched
          \/ p = MaxGeneration + 1 /\ host.gen = MaxGeneration /\ procs[p] = "reaped"

(* Which process the supervisor has in its hands before it is adopted.     *)
InFlight ==
    /\ pc["sup"] = "allocate" => held["sup"] = host.gen + 1
    /\ pc["sup"] = "adopt" => held["sup"] = host.gen
    /\ pc["sup"] = "refused" =>
          \/ held["sup"] = host.gen
          \/ host.gen = MaxGeneration /\ held["sup"] = host.gen + 1

(* Nobody owns what is over, and no process has two owners.                *)
OneOwner ==
    /\ host.tree # None => Pending(host.tree) /\ host.tree <= host.gen
    /\ \A t \in Threads : held[t] # None =>
          /\ Pending(held[t]) /\ held[t] # host.tree
          /\ held[t] <= host.gen \/ (t = "sup" /\ pc["sup"] \in Launched)
          /\ \A u \in Threads : held[u] = held[t] => u = t

Custody == Numbering /\ InFlight /\ OneOwner

(* The part of the state that custody is about.                            *)
LEMMA CustodyType ==
    TypeOK => /\ host.gen \in 0 .. MaxGeneration
              /\ host.tree \in PidOrNone
              /\ held \in [Threads -> PidOrNone]
              /\ procs \in [Pids -> ProcStatus]
              /\ "sup" \in Threads
              /\ MaxGeneration \in Nat
BY BoundAssumption DEF TypeOK, HostInner, Threads

LEMMA CustodyStep ==
    ASSUME TypeOK, Ownership, Custody, StepOfAKind
    PROVE  Custody'
<1>1. /\ host.gen \in 0 .. MaxGeneration /\ MaxGeneration \in Nat
      /\ host.tree \in PidOrNone
      /\ held \in [Threads -> PidOrNone] /\ procs \in [Pids -> ProcStatus]
      /\ "sup" \in Threads
  BY CustodyType
<1> USE <1>1 DEF Custody, Pending
<1>2. CASE Inert
  BY <1>2 DEF Inert, SupElsewhere, SameProcesses, Numbering, InFlight, OneOwner,
     Launched
<1>3. CASE Refused
  BY <1>3 DEF Refused, SameProcesses, Numbering, InFlight, OneOwner, Launched
<1>4. ASSUME NEW t \in Threads, TakenBy(t) PROVE Custody'
  BY <1>4 DEF TakenBy, TakeTree, SupElsewhere, SameProcesses, Numbering, InFlight,
     OneOwner, Launched, PidOrNone, None
<1>5. ASSUME NEW t \in Threads, KilledBy(t) PROVE Custody'
  BY <1>5 DEF KilledBy, KillHeld, Reaped, Numbering, InFlight, OneOwner, Launched,
     PidOrNone, Pids, None
<1>6. CASE Collected
  BY <1>6 DEF Collected, Exited, Reaped, SupElsewhere, Numbering, InFlight, OneOwner,
     Launched, PidOrNone, Pids, None
<1>7. CASE LaunchedOne
  BY <1>7 DEF LaunchedOne, Numbering, InFlight, OneOwner, Launched, PidOrNone, Pids,
     None
<1>8. CASE Numbered
  BY <1>8 DEF Numbered, Numbering, InFlight, OneOwner, Launched, PidOrNone, Pids, None
<1>9. CASE Adopted
  BY <1>9 DEF Adopted, Reaped, Numbering, InFlight, OneOwner, Launched, PidOrNone,
     Pids, None
<1>10. ASSUME NEW p \in Pids, ExitedByItself(p) PROVE Custody'
  BY <1>10 DEF ExitedByItself, ExitKind, Numbering, InFlight, OneOwner, Launched
<1> QED BY <1>2, <1>3, <1>4, <1>5, <1>6, <1>7, <1>8, <1>9, <1>10 DEF StepOfAKind

LEMMA CustodyHolds == Spec => []Custody
<1>1. Init => Custody
  BY BoundAssumption DEF Init, InitialHost, Custody, Numbering, InFlight, OneOwner,
     Threads, Pids, None
<1>2. TypeOK /\ Ownership /\ Custody /\ [Next]_vars => Custody'
  BY EveryStepIsOfAKind, CustodyStep
<1> QED BY <1>1, <1>2, TypeCorrect, OwnershipHolds, PTL DEF Spec

-----------------------------------------------------------------------------
(* What the methods do to the intent and to the snapshot.                  *)

SameIntent(g, h) == g.desired = h.desired /\ g.stopping = h.stopping

LEMMA MethodIntent ==
    ASSUME NEW h \in HostInner
    PROVE  /\ SameIntent(ClearChild(h), h)
           /\ SameIntent(ResetStorm(h), h)
           /\ \A d \in Desired : /\ LatchDesired(h, d).desired = d
                                 /\ LatchDesired(h, d).stopping
           /\ SameIntent(FinishStopped(h), h)
           /\ SameIntent(TakeForKill(h), h)
           /\ ResumeRunning(h).desired = "Running"
           /\ SameIntent(BumpStreak(h), h)
           /\ SameIntent(MarkFailed(h), h)
           /\ SameIntent(DoubleBackoff(h), h)
           /\ \A r, s \in BOOLEAN : SameIntent(NoteExit(h, r, s), h)
           /\ \A p : SameIntent(Adopt(h, p), h)
           /\ SameIntent(PromoteReady(h), h)
           /\ \A c \in StartLike : Dispatched(h, c).desired = "Running"
           /\ \A c \in StopLike : /\ Dispatched(h, c).desired = "Stopped"
                                  /\ Dispatched(h, c).stopping
           /\ SameIntent(Dispatched(h, "Reload"), h)
<1>1. \A r, s \in BOOLEAN : SameIntent(NoteExit(h, r, s), h)
  <2> SUFFICES ASSUME NEW r \in BOOLEAN, NEW s \in BOOLEAN
               PROVE  SameIntent(NoteExit(h, r, s), h)
    OBVIOUS
  <2>1. Forgive(h, s) \in HostInner /\ SameIntent(Forgive(h, s), h)
    BY BackoffRange DEF Forgive, HostInner, SameIntent
  <2>2. /\ SameIntent(BumpStreak(Forgive(h, s)), h)
        /\ SameIntent([Forgive(h, s) EXCEPT !.attempt = 0, !.nextRetry = FALSE], h)
    BY <2>1 DEF BumpStreak, HostInner, SameIntent
  <2>3. CASE r /\ s
    BY <2>2, <2>3 DEF NoteExit
  <2>4. CASE ~(r /\ s)
    BY <2>2, <2>4 DEF NoteExit
  <2> QED BY <2>3, <2>4
<1>2. ASSUME NEW c \in Command
      PROVE  /\ Reduced(h, c) \in HostInner
             /\ Reduced(h, c).desired = ReducedDesired(h.desired, c)
             /\ Reduced(h, c).stopping = h.stopping
  BY ReducerType DEF HostInner, Reduced
<1>3. \A c \in StartLike : Dispatched(h, c).desired = "Running"
  <2> SUFFICES ASSUME NEW c \in StartLike PROVE Dispatched(h, c).desired = "Running"
    OBVIOUS
  <2>1. Reduced(h, c) \in HostInner /\ Reduced(h, c).desired = "Running"
    <3>1. c \in Command /\ ReducedDesired(h.desired, c) = "Running"
      BY DEF StartLike, StopLike, Command, ReducedDesired
    <3> QED BY <1>2, <3>1
  <2> QED BY <2>1 DEF Dispatched, ResetStorm, HostInner
<1>4. \A c \in StopLike : Dispatched(h, c).desired = "Stopped" /\ Dispatched(h, c).stopping
  BY <1>2 DEF Dispatched, HostInner, StartLike, StopLike, Command, ReducedDesired
<1>5. SameIntent(Dispatched(h, "Reload"), h)
  BY <1>2 DEF Dispatched, HostInner, StartLike, StopLike, Command, ReducedDesired,
     SameIntent
<1>6. /\ SameIntent(ClearChild(h), h)
      /\ SameIntent(ResetStorm(h), h)
      /\ SameIntent(FinishStopped(h), h)
      /\ SameIntent(TakeForKill(h), h)
      /\ SameIntent(BumpStreak(h), h)
      /\ SameIntent(MarkFailed(h), h)
      /\ SameIntent(DoubleBackoff(h), h)
      /\ \A p : SameIntent(Adopt(h, p), h)
      /\ SameIntent(PromoteReady(h), h)
  BY DEF HostInner, SameIntent, ClearChild, ResetStorm, FinishStopped, TakeForKill,
     BumpStreak, MarkFailed, DoubleBackoff, Adopt, PromoteReady
<1> QED BY <1>1, <1>3, <1>4, <1>5, <1>6 DEF HostInner, LatchDesired, ResumeRunning

LEMMA CommandKinds == Command = StartLike \cup StopLike \cup {"Reload"}
BY DEF Command, StartLike, StopLike

-----------------------------------------------------------------------------
(* A child left behind is reaped.  Every exit latches AppExit, which       *)
(* fences the adoption, before it takes the tree; only a new intent to run *)
(* lifts the fence, and with it the latch.                                 *)

ExitTakes ==
    \/ pc["app"] \in {"stopLatch", "stopPoll", "stopTake"}
    \/ \E t \in {"force", "exit"} : pc[t] = "reapTake"

ExitFenced ==
    /\ host.desired = "AppExit" => host.stopping
    /\ host.tree # None /\ (host.desired = "AppExit" \/ pc["sup"] = "exited")
          => ExitTakes

(* What a step of the supervisor or a command does to the latch.           *)
Unlatched ==
    host'.desired = "AppExit" =>
        host.desired = "AppExit" /\ (host.stopping => host'.stopping)

LEMMA SuperviseUnlatched == TypeOK /\ Supervise => Unlatched
<1> SUFFICES ASSUME TypeOK, Supervise PROVE Unlatched
  OBVIOUS
<1>1. host \in HostInner
  BY DEF TypeOK
<1> USE DEF Quiet, Unlatched, SameIntent
<1>2. CASE LoopTop \/ SegmentDone \/ AnnounceReady \/ StdioLost \/ PublishBackoff
           \/ LoopExitCheck \/ CommandDone \/ Decide \/ DecideCapped \/ HasChild
           \/ KillRun
  BY <1>2 DEF LoopTop, SegmentDone, AnnounceReady, StdioLost, PublishBackoff, Publish,
     LoopExitCheck, CommandDone, Decide, DecideCapped, HasChild, KillRun
<1>3. CASE SegmentWants \/ SegmentCapped \/ CapCheck \/ WatchFlags \/ SleepCheck
           \/ SleepElapsed \/ SpawnError
  BY <1>3 DEF SegmentWants, SegmentCapped, CapCheck, WatchFlags, SleepCheck,
     SleepElapsed,
     SpawnError
<1>4. CASE Drain \/ Park \/ SegmentReceive \/ WatchReceive \/ SleepReceive
  BY <1>1, <1>4, MethodIntent DEF Drain, Park, SegmentReceive, WatchReceive,
     SleepReceive,
     ReceiveAndReset, ReceiveAndCall, ReceiveOnly, ReceiveNothing
<1>5. CASE Resume \/ KillTake \/ KillFinish \/ GiveUp \/ ChargeSpawn \/ WatchChild \/ Lengthen
  BY <1>1, <1>5, MethodIntent DEF Resume, KillTake, KillFinish, GiveUp, ChargeSpawn,
     WatchChild, Lengthen
<1>6. CASE SleepMark
  BY <1>1, <1>6 DEF SleepMark, HostInner
<1>7. CASE ChargeExit
  <2>1. \E r, s \in BOOLEAN : host' = NoteExit(host, r, s)
    BY <1>7, Zenon DEF ChargeExit
  <2> QED BY <1>1, <2>1, MethodIntent
<1>8. CASE Stop("sup")
  BY <1>1, <1>8, MethodIntent DEF Stop, StopLatch, StopChildGone, StopDeadline,
     StopTake,
     StopKill, StopFinish, Desired
<1>9. CASE Spawn
  <2>1. CASE Fence \/ Launch \/ Allocate \/ KillRefused
    BY <1>1, <2>1 DEF Fence, Launch, Allocate, KillRefused, HostInner
  <2>2. CASE AwaitCurrent \/ AwaitReady \/ AwaitFailed \/ AwaitAgain \/ Ping
    BY <2>2 DEF AwaitCurrent, AwaitReady, AwaitFailed, AwaitAgain, Ping
  <2>3. CASE AdoptInflight \/ AwaitExited \/ Promote \/ ReapSpawn
    BY <1>1, <2>3, MethodIntent DEF AdoptInflight, AwaitExited, Promote, ReapSpawn
  <2> QED BY <1>9, <2>1, <2>2, <2>3 DEF Spawn
<1> QED BY <1>2, <1>3, <1>4, <1>5, <1>6, <1>7, <1>8, <1>9 DEF Supervise

(* The supervisor moves alone, returns only because of the latch, and      *)
(* adopts only without the fence.                                          *)
LEMMA SuperviseMoves ==
    TypeOK /\ Supervise =>
        /\ \A t \in Threads \ {"sup"} : pc'[t] = pc[t]
        /\ pc'["sup"] = "exited" => host.desired = "AppExit" /\ host' = host
        /\ pc["sup"] # "exited"
<1> SUFFICES ASSUME TypeOK, Supervise
             PROVE  /\ \A t \in Threads \ {"sup"} : pc'[t] = pc[t]
                    /\ pc'["sup"] = "exited" => host.desired = "AppExit" /\ host' = host
                    /\ pc["sup"] # "exited"
  OBVIOUS
<1>1. /\ pc \in [Threads -> SupLabel \cup AppLabel \cup ExitLabel] /\ "sup" \in Threads
      /\ cont \in Continuation
  BY DEF TypeOK, Threads
<1> USE <1>1 DEF Goto, Quiet
<1>2. CASE LoopTop \/ SegmentDone \/ AnnounceReady \/ StdioLost \/ PublishBackoff
           \/ LoopExitCheck \/ CommandDone \/ Decide \/ DecideCapped \/ HasChild
           \/ KillRun
  BY <1>2 DEF LoopTop, SegmentDone, AnnounceReady, StdioLost, PublishBackoff, Publish,
     LoopExitCheck, CommandDone, Decide, DecideCapped, HasChild, KillRun, Continuation
<1>3. CASE SegmentWants \/ SegmentCapped \/ CapCheck \/ WatchFlags \/ SleepCheck
           \/ SleepElapsed \/ SpawnError \/ SleepMark
  BY <1>3 DEF SegmentWants, SegmentCapped, CapCheck, WatchFlags, SleepCheck,
     SleepElapsed,
     SpawnError, SleepMark
<1>4. CASE Drain \/ Park \/ SegmentReceive \/ WatchReceive \/ SleepReceive
  BY <1>4 DEF Drain, Park, SegmentReceive, WatchReceive, SleepReceive, Receive,
     ReceiveAndReset, ReceiveAndCall, ReceiveOnly, ReceiveNothing
<1>5. CASE Resume \/ KillTake \/ KillFinish \/ GiveUp \/ ChargeSpawn \/ Lengthen
  BY <1>5 DEF Resume, KillTake, KillFinish, GiveUp, ChargeSpawn, Lengthen, Continuation
<1>6. CASE WatchChild
  <2>1. Exited(host.tree) => procs[host.tree] \in ExitKind
    BY DEF Exited
  <2> QED BY <1>6, <2>1 DEF WatchChild, ExitKind
<1>7. CASE ChargeExit
  <2>1. \E from \in {"noteCrash", "noteRestart"}, to \in {"segRecv", "capCheck"} :
            Goto("sup", from, to)
    BY <1>7, Zenon DEF ChargeExit
  <2> QED BY <2>1
<1>8. CASE Stop("sup")
  BY <1>8 DEF Stop, StopLatch, StopChildGone, StopDeadline, StopTake,
     StopKill, StopFinish, Continuation
<1>9. CASE Spawn
  <2> USE DEF SpawnFails
  <2>1. CASE Fence \/ Launch \/ Allocate \/ AdoptInflight \/ KillRefused
    BY <2>1 DEF Fence, Launch, Allocate, AdoptInflight, KillRefused
  <2>2. CASE AwaitCurrent \/ AwaitReady \/ AwaitFailed \/ AwaitExited \/ AwaitAgain
    BY <2>2 DEF AwaitCurrent, AwaitReady, AwaitFailed, AwaitExited, AwaitAgain
  <2>3. CASE Ping \/ Promote \/ ReapSpawn
    BY <2>3 DEF Ping, Promote, ReapSpawn
  <2> QED BY <1>9, <2>1, <2>2, <2>3 DEF Spawn
<1> QED BY <1>2, <1>3, <1>4, <1>5, <1>6, <1>7, <1>8, <1>9 DEF Supervise

LEMMA SuperviseKeepsIntent == Supervise => UNCHANGED <<intent, lateStart>>
<1> USE DEF Quiet, appVars, userVars
<1>1. CASE Spawn
  BY <1>1 DEF Spawn, SpawnFails, Fence, Launch, Allocate, AdoptInflight, KillRefused,
     AwaitCurrent, AwaitReady, AwaitFailed, AwaitExited, AwaitAgain, Ping, Promote, ReapSpawn
<1>2. CASE Stop("sup") \/ KillTake \/ KillRun \/ KillFinish
  BY <1>2 DEF Stop, StopLatch, StopChildGone, StopDeadline, StopTake, StopKill,
     StopFinish,
     KillTake, KillRun, KillFinish
<1>3. CASE Drain \/ Park \/ SegmentReceive \/ WatchReceive \/ SleepReceive
  BY <1>3 DEF Drain, Park, SegmentReceive, WatchReceive, SleepReceive, Receive,
     ReceiveAndReset, ReceiveAndCall, ReceiveOnly, ReceiveNothing
<1> QED BY <1>1, <1>2, <1>3 DEF Supervise, LoopTop, SegmentDone, AnnounceReady, StdioLost,
           PublishBackoff, Publish, LoopExitCheck, CommandDone, Decide, DecideCapped,
           HasChild, Resume, SegmentWants, SegmentCapped, GiveUp, SpawnError, ChargeSpawn,
           CapCheck, WatchFlags, WatchChild, ChargeExit, SleepCheck, SleepMark,
           SleepElapsed, Lengthen

(* The tree only changes by being cleared or by an adoption.               *)
LEMMA TreeChanges ==
    StepOfAKind => host'.tree = host.tree \/ host'.tree = None \/ Adopted
BY DEF StepOfAKind, Inert, Refused, TakenBy, KilledBy, Collected, LaunchedOne, Numbered,
   ExitedByItself

LEMMA SuperviseFenced ==
    TypeOK /\ Ownership /\ ExitFenced /\ Supervise => ExitFenced'
<1> SUFFICES ASSUME TypeOK, Ownership, ExitFenced, Supervise PROVE ExitFenced'
  OBVIOUS
<1>1. /\ Unlatched /\ ExitTakes' = ExitTakes
      /\ pc'["sup"] = "exited" => host.desired = "AppExit" /\ host' = host
  BY SuperviseUnlatched, SuperviseMoves DEF ExitTakes, Threads
<1>2. host'.tree = host.tree \/ host'.tree = None \/ Adopted
  BY SuperviseKind, TreeChanges
<1>3. CASE Adopted
  <2>1. host.desired # "AppExit" /\ pc'["sup"] # "exited"
    BY <1>3 DEF Adopted, ExitFenced
  <2> QED BY <1>1, <2>1 DEF ExitFenced, Unlatched
<1>4. CASE host'.tree = host.tree \/ host'.tree = None
  BY <1>1, <1>4 DEF ExitFenced, Unlatched
<1> QED BY <1>2, <1>3, <1>4

LEMMA AppFenced == TypeOK /\ ExitFenced /\ App => ExitFenced'
<1> SUFFICES ASSUME TypeOK, ExitFenced, App PROVE ExitFenced'
  OBVIOUS
<1>1. /\ host \in HostInner
      /\ pc \in [Threads -> SupLabel \cup AppLabel \cup ExitLabel]
  BY DEF TypeOK
<1> USE <1>1 DEF Quiet, Goto, Threads, ExitFenced, ExitTakes
<1>2. CASE AppLatch \/ StopLatch("app")
  BY <1>2, MethodIntent, MethodTree DEF AppLatch, StopLatch, Desired
<1>3. CASE StopTake("app")
  BY <1>3, MethodIntent, MethodTree DEF StopTake, SameIntent
<1>4. CASE StopChildGone("app") \/ StopDeadline("app") \/ StopKill("app")
  BY <1>4 DEF StopChildGone, StopDeadline, StopKill
<1>5. CASE StopFinish("app")
  BY <1>5, MethodIntent, MethodTree DEF StopFinish, SameIntent
<1>6. CASE BeginGraceful \/ BeginForce \/ Watchdog \/ RunEventExit
  BY <1>6 DEF BeginGraceful, BeginForce, Watchdog, RunEventExit
<1>7. ASSUME NEW t \in {"force", "exit"}, ForceAppExit(t) PROVE ExitFenced'
  <2>1. CASE Goto(t, "reapLatch", "reapTake") /\ host' = LatchDesired(host, "AppExit")
    BY <2>1, MethodIntent, MethodTree DEF Desired
  <2>2. CASE Goto(t, "reapTake", "reapKill") /\ host' = ClearChild(host)
    BY <2>2, MethodIntent, MethodTree DEF SameIntent
  <2>3. CASE Goto(t, "reapKill", "done") /\ UNCHANGED host
    BY <2>3
  <2> QED BY <1>7, <2>1, <2>2, <2>3 DEF ForceAppExit
<1> QED BY <1>2, <1>3, <1>4, <1>5, <1>6, <1>7 DEF App, Stop

LEMMA DispatchFenced ==
    ASSUME TypeOK, ExitFenced, NEW command \in Command, Dispatch(command)
    PROVE  ExitFenced'
<1>1. host \in HostInner /\ pc' = pc /\ host' = Dispatched(host, command)
  BY DEF TypeOK, Dispatch
<1>2. host'.tree = host.tree
  BY <1>1, MethodTree
<1>3. Unlatched
  BY <1>1, MethodIntent, CommandKinds DEF Unlatched, SameIntent
<1> QED BY <1>1, <1>2, <1>3 DEF ExitFenced, ExitTakes, Unlatched

LEMMA FencedStep == TypeOK /\ Ownership /\ ExitFenced /\ [Next]_vars => ExitFenced'
<1> SUFFICES ASSUME TypeOK, Ownership, ExitFenced, [Next]_vars PROVE ExitFenced'
  OBVIOUS
<1>1. CASE (\E p \in Pids : ChildExit(p)) \/ UNCHANGED vars
  BY <1>1 DEF ChildExit, vars, ExitFenced, ExitTakes
<1> QED BY <1>1, SuperviseFenced, AppFenced, DispatchFenced DEF Next

(* A supervisor that returned leaves no child that nobody will reap: the   *)
(* thread whose latch made it return has not taken the tree yet, and       *)
(* nothing was adopted since.                                              *)
THEOREM NoChildIsAbandoned == Spec => []AbandonedChildIsReaped
<1>1. Init => ExitFenced
  BY DEF Init, InitialHost, ExitFenced
<1>2. ExitFenced => AbandonedChildIsReaped
  BY DEF ExitFenced, ExitTakes, AbandonedChildIsReaped
<1> QED BY <1>1, <1>2, FencedStep, TypeCorrect, OwnershipHolds, PTL DEF Spec

-----------------------------------------------------------------------------
(* A graceful stop sticks.  The supervisor may lift the fence of a stop    *)
(* that was accepted behind a Restart, when it serves the Restart; but     *)
(* then the stop is still on the channel, behind everything else, and the  *)
(* way back to a spawn leads through the drain.                            *)

Newest(q) == q[Len(q)]

LEMMA NewestStays ==
    ASSUME NEW q \in Seq(Command), q # <<>>
    PROVE  /\ Tail(q) # <<>> => Newest(Tail(q)) = Newest(q)
           /\ Tail(q) = <<>> => Head(q) = Newest(q)
<1>1. Tail(q) # <<>> => Newest(Tail(q)) = Newest(q)
  BY DEF Newest
<1>2. Len(q) \in Nat /\ Len(q) > 0 /\ Len(Tail(q)) = Len(q) - 1
  OBVIOUS
<1>3. Tail(q) = <<>> => Len(Tail(q)) = 0
  <2>1. Len(<<>>) = 0
    OBVIOUS
  <2> QED BY <2>1
<1>4. Tail(q) = <<>> => Len(q) = 1
  BY <1>2, <1>3
<1> QED BY <1>1, <1>4 DEF Newest

LEMMA NewestComes ==
    ASSUME NEW q \in Seq(Command), NEW command \in Command
    PROVE  Append(q, command) # <<>> /\ Newest(Append(q, command)) = command
BY DEF Newest

(* The labels between a test of the intent and the drain.                  *)
Draining == {"segDone", "top", "topExit", "drain", "cmdDone"}
Halting  == {"stopLatch", "stopPoll", "stopTake", "stopKill", "stopFinish",
             "killTake", "killRun", "killFinish"}
Resuming == {"resumeCmd", "resumeSeg"}

(* The supervisor is serving a Restart.                                    *)
Restarting ==
    \/ pc["sup"] \in Resuming \cup {"hasChild"}
    \/ pc["sup"] \in Halting /\ cont \in Resuming

StopStands ==
    pc["sup"] # "exited" =>
        /\ queue # <<>> => Newest(queue) = lastAccepted
        /\ pc["sup"] = "hasChild" => cont \in Resuming
        /\ lastAccepted = "GracefulStop" =>
              /\ \/ host.stopping \/ pc["sup"] = "stopLatch"
                 \/ /\ queue # <<>>
                    /\ pc["sup"] \in Draining \cup Halting \cup Resuming \cup {"hasChild"}
              /\ Restarting => queue # <<>>

(* The newest command is the last to be received.                          *)
LEMMA Received ==
    ASSUME TypeOK, StopStands, NEW from, NEW command, NEW to, from # "exited",
           Receive(from, command, to)
    PROVE  /\ queue' # <<>> => Newest(queue') = lastAccepted
           /\ queue' = <<>> => lastAccepted = command
           /\ pc["sup"] = from /\ pc'["sup"] = to
           /\ lastAccepted' = lastAccepted
<1>1. queue \in Seq(Command) /\ queue # <<>> /\ queue' = Tail(queue)
      /\ Head(queue) = command
  BY DEF TypeOK, Receive
<1>2. pc["sup"] = from /\ pc'["sup"] = to /\ lastAccepted' = lastAccepted
  BY DEF TypeOK, Receive, Goto, Threads, userVars
<1>3. Newest(queue) = lastAccepted
  BY <1>1, <1>2 DEF StopStands
<1> QED BY <1>1, <1>2, <1>3, NewestStays

LEMMA ReceivedStands ==
    ASSUME TypeOK, StopStands, NEW from, NEW command, NEW to, from # "exited",
           Receive(from, command, to), SameIntent(host', host)
    PROVE  LET Serving == Draining \cup Halting \cup Resuming \cup {"hasChild"}
           IN  /\ to = "stopLatch" /\ cont' \notin Resuming => StopStands'
               /\ /\ command # "GracefulStop"
                  /\ to = "hasChild" => cont' \in Resuming
                  /\ to \in Serving \/ from \notin Serving
                  => StopStands'
               /\ from \notin Serving /\ to \notin Serving => StopStands'
<1>1. /\ queue' # <<>> => Newest(queue') = lastAccepted
      /\ queue' = <<>> => lastAccepted = command
      /\ pc["sup"] = from /\ pc'["sup"] = to
      /\ lastAccepted' = lastAccepted
  BY Received
<1>2. host'.stopping = host.stopping
  BY DEF SameIntent
<1> HIDE DEF Newest
<1> QED BY <1>1, <1>2 DEF StopStands, Restarting, Draining, Halting, Resuming

LEMMA SuperviseStands == TypeOK /\ StopStands /\ Supervise => StopStands'
<1> SUFFICES ASSUME TypeOK, StopStands, Supervise PROVE StopStands'
  OBVIOUS
<1>1. /\ pc \in [Threads -> SupLabel \cup AppLabel \cup ExitLabel] /\ "sup" \in Threads
      /\ cont \in Continuation
      /\ queue \in Seq(Command)
      /\ pc["sup"] # "exited"
      /\ host \in HostInner
  BY SuperviseMoves DEF TypeOK, Threads
<1>2. SameIntent(ResetStorm(host), host) /\ SameIntent(host, host)
  BY <1>1, MethodIntent DEF SameIntent
<1>3. \A from, command, to :
          /\ from \in {"drain", "parkRecv", "segRecv", "watch", "sleepRecv"}
          /\ Receive(from, command, to)
          /\ host' = ResetStorm(host) \/ UNCHANGED host
          => LET Serving == Draining \cup Halting \cup Resuming \cup {"hasChild"}
             IN  /\ to = "stopLatch" /\ cont' \notin Resuming => StopStands'
                 /\ /\ command # "GracefulStop"
                    /\ to = "hasChild" => cont' \in Resuming
                    /\ to \in Serving \/ from \notin Serving
                    => StopStands'
                 /\ from \notin Serving /\ to \notin Serving => StopStands'
  BY <1>2, ReceivedStands
<1>4. CASE \E from, to :
             /\ ReceiveNothing(from, to)
             /\ from \in {"parkRecv", "segRecv", "watch", "sleepRecv"}
             /\ to \notin Halting \cup Resuming \cup {"hasChild"}
  BY <1>1, <1>4 DEF ReceiveNothing, Goto, Quiet, StopStands, Draining, Halting,
     Resuming, Restarting, userVars
<1>5. CASE Drain
  <2>1. CASE ReceiveNothing("drain", "decide")
    BY <1>1, <2>1 DEF ReceiveNothing, Goto, Quiet, StopStands, Draining, Halting,
       Resuming, Restarting, userVars
  <2>2. CASE \/ ReceiveAndReset("drain", "Start", "cmdDone")
             \/ ReceiveOnly("drain", "Reload", "cmdDone")
    BY <1>3, <2>2 DEF ReceiveAndReset, ReceiveOnly, Draining
  <2>3. CASE \/ ReceiveAndCall("drain", "GracefulStop", "stopLatch", "cmdDone")
             \/ ReceiveAndCall("drain", "ForceKill", "killTake", "cmdDone")
    BY <1>3, <2>3 DEF ReceiveAndCall, Halting, Resuming
  <2>4. CASE /\ Receive("drain", "Restart", "hasChild")
             /\ host' = ResetStorm(host)
             /\ cont' = "resumeCmd"
    BY <1>3, <2>4 DEF Resuming
  <2> QED BY <1>5, <2>1, <2>2, <2>3, <2>4 DEF Drain
<1>6. CASE Park
  <2>1. CASE /\ Goto("sup", "park",
                     IF host.desired = "AppExit" THEN "top" ELSE "parkRecv")
             /\ Quiet /\ UNCHANGED host
    BY <1>1, <2>1 DEF Goto, Quiet, StopStands, Draining, Halting, Resuming, Restarting,
       userVars
  <2>2. CASE \E command \in StartLike : ReceiveOnly("parkRecv", command, "top")
    BY <1>3, <2>2 DEF ReceiveOnly, Draining, StartLike
  <2>3. CASE \E command \in Command \ StartLike : ReceiveOnly("parkRecv", command, "park")
    BY <1>3, <2>3 DEF ReceiveOnly, Draining, Halting, Resuming
  <2>4. CASE ReceiveNothing("parkRecv", "park")
    BY <1>4, <2>4 DEF Halting, Resuming
  <2> QED BY <1>6, <2>1, <2>2, <2>3, <2>4 DEF Park
<1>7. CASE SegmentReceive \/ SleepReceive
  <2>1. CASE \/ ReceiveAndCall("segRecv", "GracefulStop", "stopLatch", "segDone")
             \/ ReceiveAndCall("segRecv", "ForceKill", "killTake", "segDone")
             \/ ReceiveAndCall("sleepRecv", "GracefulStop", "stopLatch", "segDone")
             \/ ReceiveAndCall("sleepRecv", "ForceKill", "killTake", "segDone")
    BY <1>3, <2>1 DEF ReceiveAndCall, Halting, Resuming
  <2>2. CASE \/ \E command \in StartLike : ReceiveAndReset("segRecv", command, "segWants")
             \/ \E command \in StartLike : ReceiveAndReset("sleepRecv", command, "segRecv")
    BY <1>3, <2>2 DEF ReceiveAndReset, StartLike, Draining, Halting, Resuming
  <2>3. CASE \/ ReceiveOnly("segRecv", "Reload", "segWants")
             \/ ReceiveOnly("sleepRecv", "Reload", "sleep")
    BY <1>3, <2>3 DEF ReceiveOnly, Draining, Halting, Resuming
  <2>4. CASE ReceiveNothing("segRecv", "segWants") \/ ReceiveNothing("sleepRecv", "sleep")
    BY <1>4, <2>4 DEF Halting, Resuming
  <2> QED BY <1>7, <2>1, <2>2, <2>3, <2>4 DEF SegmentReceive, SleepReceive
<1>8. CASE WatchReceive
  <2>1. CASE \/ ReceiveAndCall("watch", "GracefulStop", "stopLatch", "segDone")
             \/ ReceiveAndCall("watch", "ForceKill", "killTake", "segDone")
    BY <1>3, <2>1 DEF ReceiveAndCall, Halting, Resuming
  <2>2. CASE /\ Receive("watch", "Restart", "hasChild")
             /\ host' = ResetStorm(host)
             /\ cont' = "resumeSeg"
    BY <1>3, <2>2 DEF Resuming
  <2>3. CASE \E command \in {"Reload", "Start"} : ReceiveOnly("watch", command, "watchFlags")
    BY <1>3, <2>3 DEF ReceiveOnly, Draining, Halting, Resuming
  <2>4. CASE ReceiveNothing("watch", "watchFlags")
    BY <1>4, <2>4 DEF Halting, Resuming
  <2> QED BY <1>8, <2>1, <2>2, <2>3, <2>4 DEF WatchReceive
<1> USE <1>1 DEF Goto, Quiet, StopStands, Draining, Halting, Resuming, Restarting,
        Continuation, userVars
(* Moves that leave the channel alone.                                     *)
<1>9. CASE LoopTop \/ SegmentDone \/ AnnounceReady \/ StdioLost \/ PublishBackoff
  BY <1>9 DEF LoopTop, SegmentDone, AnnounceReady, StdioLost, PublishBackoff, Publish
<1>10. CASE LoopExitCheck \/ CommandDone \/ Decide \/ DecideCapped \/ HasChild \/ KillRun
  BY <1>10 DEF LoopExitCheck, CommandDone, Decide, DecideCapped, HasChild, KillRun
<1>11. CASE SegmentWants \/ SegmentCapped \/ CapCheck \/ WatchFlags \/ SleepCheck
           \/ SleepElapsed \/ SpawnError
  BY <1>11 DEF SegmentWants, SegmentCapped, CapCheck, WatchFlags, SleepCheck,
     SleepElapsed,
     SpawnError
<1>12. CASE Resume
  BY <1>12 DEF Resume
<1>13. CASE KillTake \/ KillFinish \/ GiveUp \/ ChargeSpawn \/ Lengthen
  <2>1. SameIntent(host', host)
    BY <1>13, MethodIntent DEF KillTake, KillFinish, GiveUp, ChargeSpawn, Lengthen,
       SameIntent
  <2> QED BY <1>13, <2>1 DEF KillTake, KillFinish, GiveUp, ChargeSpawn, Lengthen,
             SameIntent
<1>14. CASE SleepMark
  <2>1. SameIntent(host', host)
    BY <1>14 DEF SleepMark, HostInner, SameIntent
  <2> QED BY <1>14, <2>1 DEF SleepMark, SameIntent
<1>15. CASE WatchChild
  <2>1. Exited(host.tree) => procs[host.tree] \in ExitKind
    BY DEF Exited
  <2>2. SameIntent(host', host)
    BY <1>15, MethodIntent DEF WatchChild, SameIntent
  <2> QED BY <1>15, <2>1, <2>2 DEF WatchChild, ExitKind, SameIntent
<1>16. CASE ChargeExit
  <2>1. \E from \in {"noteCrash", "noteRestart"}, to \in {"segRecv", "capCheck"} :
            Goto("sup", from, to)
    BY <1>16, Zenon DEF ChargeExit
  <2>2. \E r, s \in BOOLEAN : host' = NoteExit(host, r, s)
    BY <1>16, Zenon DEF ChargeExit
  <2>3. SameIntent(host', host)
    BY <2>2, MethodIntent
  <2> QED BY <1>16, <2>1, <2>3 DEF ChargeExit, SameIntent
<1>17. CASE Stop("sup")
  <2>1. StopLatch("sup") => host'.stopping
    BY MethodIntent DEF StopLatch, Desired
  <2>2. ~StopLatch("sup") => SameIntent(host', host)
    BY <1>17, MethodIntent DEF Stop, StopChildGone, StopDeadline, StopTake, StopKill,
       StopFinish, SameIntent
  <2> QED BY <1>17, <2>1, <2>2 DEF Stop, StopLatch, StopChildGone, StopDeadline, StopTake,
             StopKill, StopFinish, SameIntent
<1>18. CASE Spawn
  <2> USE DEF SpawnFails
  <2>1. CASE Fence
    <3>1. SameIntent(host', host) \/ ~host.stopping
      BY <2>1 DEF Fence, SameIntent
    <3>2. host.stopping => host'.stopping
      BY <3>1 DEF SameIntent
    <3> QED BY <2>1, <3>2 DEF Fence
  <2>2. CASE Launch \/ Allocate \/ KillRefused
    <3>1. SameIntent(host', host)
      BY <2>2 DEF Launch, Allocate, KillRefused, HostInner, SameIntent
    <3> QED BY <2>2, <3>1 DEF Launch, Allocate, KillRefused, SameIntent
  <2>3. CASE AwaitCurrent \/ AwaitReady \/ AwaitFailed \/ AwaitAgain \/ Ping
    BY <2>3 DEF AwaitCurrent, AwaitReady, AwaitFailed, AwaitAgain, Ping
  <2>4. CASE AdoptInflight \/ AwaitExited \/ Promote \/ ReapSpawn
    <3>1. SameIntent(host', host)
      BY <2>4, MethodIntent DEF AdoptInflight, AwaitExited, Promote, ReapSpawn,
         SameIntent
    <3> QED BY <2>4, <3>1 DEF AdoptInflight, AwaitExited, Promote, ReapSpawn, SameIntent
  <2> QED BY <1>18, <2>1, <2>2, <2>3, <2>4 DEF Spawn
<1> QED BY <1>5, <1>6, <1>7, <1>8, <1>9, <1>10, <1>11, <1>12, <1>13, <1>14, <1>15,
           <1>16, <1>17, <1>18 DEF Supervise

(* The exit of the application only ever raises the fence.                 *)
LEMMA AppStands == TypeOK /\ StopStands /\ App => StopStands'
<1> SUFFICES ASSUME TypeOK, StopStands, App PROVE StopStands'
  OBVIOUS
<1>1. host \in HostInner /\ pc'["sup"] = pc["sup"]
  BY AppStays DEF TypeOK
<1>2. host.stopping => host'.stopping
  BY <1>1, MethodIntent DEF App, Stop, StopLatch, StopChildGone, StopDeadline, StopTake,
     StopKill, StopFinish, BeginGraceful, AppLatch, BeginForce, Watchdog, RunEventExit,
     ForceAppExit, Quiet, SameIntent, Desired
<1>3. UNCHANGED <<queue, cont, lastAccepted>>
  BY DEF App, Stop, StopLatch, StopChildGone, StopDeadline, StopTake,
     StopKill, StopFinish, BeginGraceful, AppLatch, BeginForce, Watchdog, RunEventExit,
     ForceAppExit, Quiet, userVars
<1> QED BY <1>1, <1>2, <1>3 DEF StopStands, Restarting

LEMMA DispatchStands ==
    ASSUME TypeOK, StopStands, NEW command \in Command, Dispatch(command)
    PROVE  StopStands'
<1>1. host \in HostInner /\ queue \in Seq(Command)
  BY DEF TypeOK
<1>2. command = "GracefulStop" => host'.stopping
  BY <1>1, MethodIntent DEF Dispatch, StopLike
<1>3. pc["sup"] # "exited" => queue' # <<>> /\ Newest(queue') = command
  BY <1>1, NewestComes DEF Dispatch
<1> QED BY <1>2, <1>3 DEF Dispatch, StopStands, Restarting

LEMMA StandsStep == TypeOK /\ StopStands /\ [Next]_vars => StopStands'
<1> SUFFICES ASSUME TypeOK, StopStands, [Next]_vars PROVE StopStands'
  OBVIOUS
<1>1. CASE (\E p \in Pids : ChildExit(p)) \/ UNCHANGED vars
  BY <1>1 DEF ChildExit, vars, userVars, StopStands, Restarting
<1> QED BY <1>1, SuperviseStands, AppStands, DispatchStands DEF Next

(* No process is adopted while the last accepted command is a graceful     *)
(* stop, although a Restart accepted before it may be served after it was  *)
(* accepted, and lifts its fence.                                          *)
THEOREM StopsStick == Spec => GracefulStopSticks
<1>1. Init => StopStands
  BY DEF Init, StopStands, Restarting, Halting, Resuming, Threads
<1>2. TypeOK /\ Ownership /\ StopStands /\ [Next]_vars
        => (AdoptionStep => lastAccepted # "GracefulStop")
  <2> SUFFICES ASSUME TypeOK, Ownership, StopStands, [Next]_vars, AdoptionStep
               PROVE  lastAccepted # "GracefulStop"
    OBVIOUS
  <2>1. StepOfAKind /\ pc["sup"] = "adopt" /\ pc'["sup"] = "await"
    BY EveryStepIsOfAKind DEF AdoptionStep
  <2>2. Adopted
    BY <2>1 DEF StepOfAKind, Inert, Refused, TakenBy, KilledBy, Collected, LaunchedOne,
       Numbered, ExitedByItself, SupElsewhere, Launched
  <2> QED BY <2>1, <2>2 DEF Adopted, StopStands, Draining, Halting, Resuming
<1> QED BY <1>1, <1>2, StandsStep, TypeCorrect, OwnershipHolds, PTL DEF Spec, GracefulStopSticks

-----------------------------------------------------------------------------
(* Where a child can be.  The supervisor only looks for work with no child *)
(* or with a command that will stop the child still on the channel.        *)

BeforeExit == \A t \in Threads \ {"sup"} : pc[t] = "idle"

(* The labels that have a child: those of a spawn after the adoption, of   *)
(* the watch, and of the procedures that take the child.                   *)
Tending == {"await", "awaitPoll", "ping", "promote", "reap", "announce", "watch",
            "watchFlags", "watchChild", "hasChild", "stopLatch", "stopPoll",
            "stopTake", "killTake"}
Looking == {"decide", "park", "parkRecv", "exited"}

TreeInPlace ==
    host.tree # None =>
        /\ pc["sup"] \in Tending \cup Draining \cup Looking
        /\ pc["sup"] \in Draining \cup Looking => host.stopping

LEMMA MethodStays ==
    ASSUME NEW h \in HostInner
    PROVE  /\ FinishStopped(h).tree = h.tree
           /\ ResetStorm(h).tree = h.tree /\ ResetStorm(h).stopping = h.stopping
           /\ ClearChild(h).tree = None /\ TakeForKill(h).tree = None
           /\ ClearChild(h).stopping = h.stopping
BY MethodTree, MethodIntent DEF SameIntent

LEMMA SuperviseInPlace ==
    TypeOK /\ ExitFenced /\ TreeInPlace /\ Supervise => TreeInPlace'
<1> SUFFICES ASSUME TypeOK, ExitFenced, TreeInPlace, Supervise PROVE TreeInPlace'
  OBVIOUS
<1>1. /\ pc \in [Threads -> SupLabel \cup AppLabel \cup ExitLabel] /\ "sup" \in Threads
      /\ cont \in Continuation
      /\ pc["sup"] # "exited"
      /\ host \in HostInner
      /\ host.desired = "AppExit" => host.stopping
  BY SuperviseMoves DEF TypeOK, Threads, ExitFenced
<1>2. ResetStorm(host).tree = host.tree /\ ResetStorm(host).stopping = host.stopping
  BY <1>1, MethodStays
<1> USE <1>1 DEF Goto, Quiet, TreeInPlace, Tending, Looking, Draining, Continuation
<1>4. CASE Drain
  BY <1>2, <1>4 DEF Drain, Receive, ReceiveAndReset, ReceiveAndCall, ReceiveOnly,
     ReceiveNothing
<1>5. CASE Park
  BY <1>5 DEF Park, Receive, ReceiveOnly, ReceiveNothing
<1>6. CASE SegmentReceive \/ SleepReceive
  BY <1>2, <1>6 DEF SegmentReceive, SleepReceive, Receive, ReceiveAndReset,
     ReceiveAndCall,
     ReceiveOnly, ReceiveNothing
<1>7. CASE WatchReceive
  BY <1>2, <1>7 DEF WatchReceive, Receive, ReceiveAndReset, ReceiveAndCall,
     ReceiveOnly, ReceiveNothing
<1>9. CASE LoopTop \/ SegmentDone \/ AnnounceReady \/ StdioLost \/ PublishBackoff
  BY <1>9 DEF LoopTop, SegmentDone, AnnounceReady, StdioLost, PublishBackoff, Publish
<1>10. CASE LoopExitCheck \/ CommandDone \/ Decide \/ DecideCapped \/ HasChild \/ KillRun
  BY <1>10 DEF LoopExitCheck, CommandDone, Decide, DecideCapped, HasChild, KillRun,
     WantsRunning
<1>11. CASE SegmentWants \/ SegmentCapped \/ CapCheck \/ WatchFlags \/ SleepCheck
           \/ SleepElapsed \/ SpawnError
  BY <1>11 DEF SegmentWants, SegmentCapped, CapCheck, WatchFlags, SleepCheck,
     SleepElapsed,
     SpawnError
<1>12. CASE Resume \/ KillFinish \/ GiveUp \/ ChargeSpawn \/ Lengthen
  <2>1. host'.tree = host.tree
    BY <1>12, MethodTree DEF Resume, KillFinish, GiveUp, ChargeSpawn, Lengthen
  <2> QED BY <1>12, <2>1 DEF Resume, KillFinish, GiveUp, ChargeSpawn, Lengthen
<1>13. CASE KillTake
  BY <1>13, MethodStays DEF KillTake
<1>14. CASE SleepMark
  <2>1. host'.tree = host.tree
    BY <1>14 DEF SleepMark, HostInner
  <2> QED BY <1>14, <2>1 DEF SleepMark
<1>15. CASE WatchChild
  <2>1. Exited(host.tree) => procs[host.tree] \in ExitKind
    BY DEF Exited
  <2> QED BY <1>15, <2>1, MethodStays DEF WatchChild, ExitKind
<1>16. CASE ChargeExit
  <2>1. \E from \in {"noteCrash", "noteRestart"}, to \in {"segRecv", "capCheck"} :
            Goto("sup", from, to)
    BY <1>16, Zenon DEF ChargeExit
  <2>2. \E r, s \in BOOLEAN : host' = NoteExit(host, r, s)
    BY <1>16, Zenon DEF ChargeExit
  <2>3. host'.tree = host.tree
    BY <2>2, MethodTree
  <2> QED BY <2>1, <2>3
<1>17. CASE Stop("sup")
  <2>1. StopLatch("sup") => host'.tree = host.tree
    BY MethodTree DEF StopLatch, Desired
  <2> QED BY <1>17, <2>1, MethodStays DEF Stop, StopLatch, StopChildGone, StopDeadline,
             StopTake, StopKill, StopFinish
<1>18. CASE Spawn
  <2> USE DEF SpawnFails
  <2>1. CASE Fence
    <3>1. host'.tree = host.tree
      BY <2>1 DEF Fence, HostInner
    <3> QED BY <2>1, <3>1 DEF Fence
  <2>2. CASE Launch \/ Allocate \/ KillRefused
    <3>1. host'.tree = host.tree
      BY <2>2 DEF Launch, Allocate, KillRefused, HostInner
    <3> QED BY <2>2, <3>1 DEF Launch, Allocate, KillRefused
  <2>3. CASE AwaitCurrent \/ AwaitReady \/ AwaitFailed \/ AwaitAgain \/ Ping
    BY <2>3 DEF AwaitCurrent, AwaitReady, AwaitFailed, AwaitAgain, Ping
  <2>4. CASE AdoptInflight \/ AwaitExited \/ ReapSpawn
    BY <2>4, MethodStays DEF AdoptInflight, AwaitExited, ReapSpawn
  <2>5. CASE Promote
    <3>1. host'.tree = host.tree
      BY <2>5, MethodTree DEF Promote
    <3> QED BY <2>5, <3>1 DEF Promote
  <2> QED BY <1>18, <2>1, <2>2, <2>3, <2>4, <2>5 DEF Spawn
<1> QED BY <1>4, <1>5, <1>6, <1>7, <1>9, <1>10, <1>11, <1>12, <1>13, <1>14, <1>15,
           <1>16, <1>17, <1>18 DEF Supervise

LEMMA AppInPlace == TypeOK /\ TreeInPlace /\ App => TreeInPlace'
<1> SUFFICES ASSUME TypeOK, TreeInPlace, App PROVE TreeInPlace'
  OBVIOUS
<1>1. host \in HostInner /\ pc'["sup"] = pc["sup"]
  BY AppStays DEF TypeOK
<1>2. host.stopping => host'.stopping
  BY <1>1, MethodIntent DEF App, Stop, StopLatch, StopChildGone, StopDeadline, StopTake,
     StopKill, StopFinish, BeginGraceful, AppLatch, BeginForce, Watchdog, RunEventExit,
     ForceAppExit, Quiet, SameIntent, Desired
<1>3. host'.tree = host.tree \/ host'.tree = None
  BY <1>1, MethodTree DEF App, Stop, StopLatch, StopChildGone, StopDeadline, StopTake,
     StopKill, StopFinish, BeginGraceful, AppLatch, BeginForce, Watchdog, RunEventExit,
     ForceAppExit, Quiet, Desired
<1> QED BY <1>1, <1>2, <1>3 DEF TreeInPlace

(* The threads of the exit never become idle again.                        *)
LEMMA ExitHasBegun ==
    TypeOK /\ [Next]_vars /\ BeforeExit' => BeforeExit /\ ~App
<1> SUFFICES ASSUME TypeOK, [Next]_vars, BeforeExit' PROVE BeforeExit /\ ~App
  OBVIOUS
<1>1. pc \in [Threads -> SupLabel \cup AppLabel \cup ExitLabel]
  BY DEF TypeOK
<1>2. App => \E t \in Threads \ {"sup"} : pc'[t] # "idle"
  BY <1>1 DEF App, Stop, StopLatch, StopChildGone, StopDeadline, StopTake,
     StopKill, StopFinish, BeginGraceful, AppLatch, BeginForce, Watchdog, RunEventExit,
     ForceAppExit, Goto, Threads
<1>3. ~App
  BY <1>2 DEF BeforeExit
<1>4. \A t \in Threads \ {"sup"} : pc'[t] = pc[t]
  BY <1>3, SuperviseMoves DEF Next, Dispatch, ChildExit, vars
<1> QED BY <1>3, <1>4 DEF BeforeExit

-----------------------------------------------------------------------------
(* Before the exit: a child that is to stop is being stopped, or the       *)
(* command that will stop it is on the channel.  Its phase refuses every   *)
(* command that would take the stop back.                                  *)

StopQueued ==
    host.phase = "Stopping" /\ queue # <<>> /\ lastAccepted \in StopLike

StopComes ==
    /\ host.desired # "AppExit" /\ pc["sup"] # "exited"
    /\ pc["sup"] \in {"decide", "park", "parkRecv"} => host.tree = None
    /\ host.tree # None /\ host.stopping => pc["sup"] \in Halting \/ StopQueued

LEMMA MethodPhase ==
    ASSUME NEW h \in HostInner
    PROVE  /\ ResetStorm(h).phase = h.phase
           /\ ClearChild(h).phase = h.phase
           /\ BumpStreak(h).phase = h.phase
           /\ DoubleBackoff(h).phase = h.phase
           /\ \A c \in StopLike : Dispatched(h, c).phase = "Stopping"
           /\ \A c \in StartLike : Dispatched(h, c).phase = "Starting"
           /\ Dispatched(h, "Reload").phase = h.phase
<1>1. ASSUME NEW c \in Command
      PROVE  Reduced(h, c) \in HostInner /\ Reduced(h, c).phase = ReducedPhase(h.phase, c)
  BY ReducerType DEF HostInner, Reduced
<1>2. ASSUME NEW c \in StartLike PROVE Dispatched(h, c).phase = "Starting"
  <2>1. Reduced(h, c) \in HostInner /\ Reduced(h, c).phase = "Starting"
    BY <1>1, CommandKinds DEF ReducedPhase, StartLike, StopLike
  <2> QED BY <2>1 DEF Dispatched, ResetStorm, HostInner
<1>3. ASSUME NEW c \in StopLike PROVE Dispatched(h, c).phase = "Stopping"
  <2>1. Reduced(h, c) \in HostInner /\ Reduced(h, c).phase = "Stopping" /\ c \notin StartLike
    BY <1>1, CommandKinds DEF ReducedPhase, StartLike, StopLike
  <2> QED BY <2>1 DEF Dispatched, HostInner
<1>4. Dispatched(h, "Reload").phase = h.phase
  <2>1. /\ Reduced(h, "Reload") \in HostInner /\ Reduced(h, "Reload").phase = h.phase
        /\ "Reload" \notin StartLike
    BY <1>1, CommandKinds DEF ReducedPhase, StartLike, StopLike
  <2> QED BY <2>1 DEF Dispatched, HostInner
<1> QED BY <1>2, <1>3, <1>4 DEF HostInner, ResetStorm, ClearChild, BumpStreak, DoubleBackoff

LEMMA SuperviseStopComes ==
    TypeOK /\ StopStands /\ TreeInPlace /\ StopComes /\ Supervise => StopComes'
<1> SUFFICES ASSUME TypeOK, StopStands, TreeInPlace, StopComes, Supervise PROVE StopComes'
  OBVIOUS
<1>1. /\ pc \in [Threads -> SupLabel \cup AppLabel \cup ExitLabel] /\ "sup" \in Threads
      /\ cont \in Continuation
      /\ host \in HostInner
      /\ host.desired # "AppExit" /\ pc["sup"] # "exited" /\ pc'["sup"] # "exited"
  BY SuperviseMoves DEF TypeOK, Threads, StopComes
<1>2. host'.desired # "AppExit"
  BY <1>1, SuperviseUnlatched DEF Unlatched
<1>3. /\ ResetStorm(host).tree = host.tree /\ ResetStorm(host).stopping = host.stopping
      /\ ResetStorm(host).phase = host.phase
  BY <1>1, MethodStays, MethodPhase
(* Whoever receives a command that does not stop the child leaves the      *)
(* command that will.                                                      *)
<1>4. \A from, command, to :
          /\ Receive(from, command, to)
          /\ from \in {"drain", "parkRecv", "segRecv", "watch", "sleepRecv"}
          /\ host' = ResetStorm(host) \/ UNCHANGED host
          /\ to \notin {"decide", "park", "parkRecv", "exited"} \/ host.tree = None
          /\ command \in StopLike => to \in Halting \/ host.tree = None
          => StopComes'
  <2> SUFFICES ASSUME NEW from, NEW command, NEW to,
                      Receive(from, command, to),
                      from \in {"drain", "parkRecv", "segRecv", "watch", "sleepRecv"},
                      host' = ResetStorm(host) \/ UNCHANGED host,
                      to \notin {"decide", "park", "parkRecv", "exited"} \/ host.tree = None,
                      command \in StopLike => to \in Halting \/ host.tree = None
               PROVE  StopComes'
    OBVIOUS
  <2>1. /\ queue' = <<>> => lastAccepted = command
        /\ pc["sup"] = from /\ pc'["sup"] = to
        /\ lastAccepted' = lastAccepted
    BY Received
  <2>2. from \notin Halting
    BY DEF Halting
  <2>3. host'.tree = host.tree /\ host'.stopping = host.stopping /\ host'.phase = host.phase
    BY <1>3
  <2> QED BY <1>1, <1>2, <2>1, <2>2, <2>3 DEF StopComes, StopQueued
<1> USE <1>1, <1>2 DEF Goto, Quiet
<1>5. CASE Drain
  <2>1. CASE ReceiveNothing("drain", "decide")
    BY <2>1 DEF ReceiveNothing, StopComes, StopQueued, TreeInPlace, Draining, Halting
  <2>2. CASE \/ ReceiveAndReset("drain", "Start", "cmdDone")
             \/ ReceiveOnly("drain", "Reload", "cmdDone")
    BY <1>4, <2>2 DEF ReceiveAndReset, ReceiveOnly, StopLike
  <2>3. CASE \/ ReceiveAndCall("drain", "GracefulStop", "stopLatch", "cmdDone")
             \/ ReceiveAndCall("drain", "ForceKill", "killTake", "cmdDone")
    BY <1>4, <2>3 DEF ReceiveAndCall, Halting
  <2>4. CASE /\ Receive("drain", "Restart", "hasChild")
             /\ host' = ResetStorm(host)
             /\ cont' = "resumeCmd"
    BY <1>4, <2>4 DEF StopLike
  <2> QED BY <1>5, <2>1, <2>2, <2>3, <2>4 DEF Drain
<1>6. CASE Park
  <2>0. host.tree = None
    BY <1>6 DEF Park, StopComes, Receive, ReceiveOnly, ReceiveNothing
  <2> QED BY <1>6, <2>0 DEF Park, Receive, ReceiveOnly, ReceiveNothing, StopComes
<1>7. CASE SegmentReceive \/ SleepReceive
  <2>0. host.tree = None
    BY <1>7 DEF SegmentReceive, SleepReceive, TreeInPlace, Receive, ReceiveOnly,
       ReceiveNothing, ReceiveAndCall, ReceiveAndReset, Tending, Draining, Looking
  <2>1. host'.tree = None
    BY <1>3, <1>7, <2>0 DEF SegmentReceive, SleepReceive, ReceiveOnly,
       ReceiveNothing, ReceiveAndCall, ReceiveAndReset
  <2> QED BY <2>1 DEF StopComes
<1>8. CASE WatchReceive
  <2>1. CASE \/ ReceiveAndCall("watch", "GracefulStop", "stopLatch", "segDone")
             \/ ReceiveAndCall("watch", "ForceKill", "killTake", "segDone")
    BY <1>4, <2>1 DEF ReceiveAndCall, Halting
  <2>2. CASE /\ Receive("watch", "Restart", "hasChild")
             /\ host' = ResetStorm(host)
             /\ cont' = "resumeSeg"
    BY <1>4, <2>2 DEF StopLike
  <2>3. CASE \E command \in {"Reload", "Start"} : ReceiveOnly("watch", command, "watchFlags")
    BY <1>4, <2>3 DEF ReceiveOnly, StopLike
  <2>4. CASE ReceiveNothing("watch", "watchFlags")
    BY <2>4 DEF ReceiveNothing, StopComes, StopQueued, Halting
  <2> QED BY <1>8, <2>1, <2>2, <2>3, <2>4 DEF WatchReceive
<1> USE DEF StopComes, StopQueued, TreeInPlace, Tending, Looking, Draining, Halting,
        Continuation, userVars
<1>9. CASE LoopTop \/ SegmentDone \/ AnnounceReady \/ StdioLost \/ PublishBackoff
  BY <1>9 DEF LoopTop, SegmentDone, AnnounceReady, StdioLost, PublishBackoff, Publish
<1>10. CASE LoopExitCheck \/ CommandDone \/ Decide \/ DecideCapped \/ HasChild \/ KillRun
  BY <1>10 DEF LoopExitCheck, CommandDone, Decide, DecideCapped, HasChild, KillRun,
     WantsRunning
<1>11. CASE SegmentWants \/ SegmentCapped \/ CapCheck \/ WatchFlags \/ SleepCheck
           \/ SleepElapsed \/ SpawnError
  BY <1>11 DEF SegmentWants, SegmentCapped, CapCheck, WatchFlags, SleepCheck,
     SleepElapsed,
     SpawnError
<1>12. CASE Resume \/ KillFinish \/ GiveUp \/ ChargeSpawn \/ Lengthen \/ SleepMark
  <2>1. host'.tree = host.tree
    BY <1>12, MethodTree DEF Resume, KillFinish, GiveUp, ChargeSpawn, Lengthen,
       SleepMark,
       HostInner
  <2>2. host.tree = None
    BY <1>12 DEF Resume, KillFinish, GiveUp, ChargeSpawn, Lengthen, SleepMark
  <2> QED BY <2>1, <2>2
<1>13. CASE KillTake
  BY <1>13, MethodStays DEF KillTake
<1>15. CASE WatchChild
  <2>1. Exited(host.tree) => procs[host.tree] \in ExitKind
    BY DEF Exited
  <2> QED BY <1>15, <2>1, MethodStays DEF WatchChild, ExitKind
<1>16. CASE ChargeExit
  <2>1. pc["sup"] \in {"noteCrash", "noteRestart"}
    BY <1>16, Zenon DEF ChargeExit
  <2>2. \E r, s \in BOOLEAN : host' = NoteExit(host, r, s)
    BY <1>16, Zenon DEF ChargeExit
  <2>3. host'.tree = host.tree
    BY <2>2, MethodTree
  <2> QED BY <2>1, <2>3
<1>17. CASE Stop("sup")
  <2>1. pc["sup"] \in {"stopKill", "stopFinish"} => host.tree = None
    OBVIOUS
  <2>2. StopFinish("sup") => host'.tree = None
    BY <2>1, MethodTree DEF StopFinish
  <2> QED BY <1>17, <2>1, <2>2, MethodStays DEF Stop, StopLatch, StopChildGone, StopDeadline,
             StopTake, StopKill, StopFinish
<1>18. CASE Spawn
  <2> USE DEF SpawnFails
  <2>1. CASE Fence
    <3>1. host'.tree = host.tree
      BY <2>1 DEF Fence, HostInner
    <3> QED BY <2>1, <3>1 DEF Fence
  <2>2. CASE Launch \/ Allocate \/ KillRefused
    <3>1. host'.tree = host.tree
      BY <2>2 DEF Launch, Allocate, KillRefused, HostInner
    <3> QED BY <2>2, <3>1 DEF Launch, Allocate, KillRefused
  <2>3. CASE AwaitCurrent \/ AwaitReady \/ AwaitFailed \/ AwaitAgain \/ Ping
    BY <2>3 DEF AwaitCurrent, AwaitReady, AwaitFailed, AwaitAgain, Ping
  <2>4. CASE AwaitExited \/ ReapSpawn
    BY <2>4, MethodStays DEF AwaitExited, ReapSpawn
  <2>5. CASE AdoptInflight \/ Promote
    <3>1. ~host.stopping => ~host'.stopping
      BY <2>5, MethodIntent DEF AdoptInflight, Promote, SameIntent
    <3>2. host.stopping => UNCHANGED <<host, queue, lastAccepted>>
      BY <2>5 DEF AdoptInflight, Promote
    <3>3. /\ pc["sup"] \notin Halting
          /\ pc'["sup"] \notin {"decide", "park", "parkRecv"}
      BY <2>5 DEF AdoptInflight, Promote
    <3> QED BY <3>1, <3>2, <3>3
  <2> QED BY <1>18, <2>1, <2>2, <2>3, <2>4, <2>5 DEF Spawn
<1> QED BY <1>5, <1>6, <1>7, <1>8, <1>9, <1>10, <1>11, <1>12, <1>13, <1>15,
           <1>16, <1>17, <1>18 DEF Supervise

LEMMA DispatchStopComes ==
    ASSUME TypeOK, StopComes, NEW command \in Command, Dispatch(command)
    PROVE  /\ StopComes'
           /\ TreeInPlace => TreeInPlace'
<1>1. /\ host \in HostInner /\ pc' = pc /\ host' = Dispatched(host, command)
      /\ Accepted(host.phase, command) /\ lastAccepted' = command
      /\ pc["sup"] # "exited" => queue' = Append(queue, command)
  BY DEF TypeOK, Dispatch
<1>2. host'.tree = host.tree /\ queue' # <<>>
  BY <1>1, MethodTree, NewestComes DEF StopComes, TypeOK
<1>3. host.phase = "Stopping" => command \notin StartLike \cup {"Reload"}
  BY <1>1 DEF Accepted, AcceptingPhases, StartLike
<1>4. CASE command \in StartLike
  <2>1. Reduced(host, command) \in HostInner
    BY <1>1, ReducerType DEF HostInner, Reduced
  <2>2. ~host'.stopping
    BY <1>1, <1>4, <2>1 DEF Dispatched, ResetStorm, HostInner
  <2>3. host'.desired # "AppExit"
    BY <1>1, <1>4, MethodIntent
  <2>4. ~(host.stopping /\ StopQueued)
    BY <1>3, <1>4 DEF StopQueued
  <2>5. TreeInPlace => TreeInPlace'
    BY <1>1, <1>2, <2>4 DEF StopComes, TreeInPlace, Halting, Draining, Looking
  <2> QED BY <1>1, <1>2, <2>2, <2>3, <2>5 DEF StopComes
<1>5. CASE command \in StopLike
  BY <1>1, <1>2, <1>5, MethodIntent, MethodPhase DEF StopComes, TreeInPlace, StopQueued
<1>6. CASE command = "Reload"
  BY <1>1, <1>2, <1>3, <1>6, MethodIntent, MethodPhase DEF StopComes, TreeInPlace,
     StopQueued,
     SameIntent
<1> QED BY <1>4, <1>5, <1>6, CommandKinds

-----------------------------------------------------------------------------
(* Before the exit: the snapshot names the child, and advertises a retry   *)
(* only where one can come.                                                *)

LEMMA SuperviseNames ==
    TypeOK /\ TreeInPlace /\ SnapshotNamesChild /\ Supervise => SnapshotNamesChild'
<1> SUFFICES ASSUME TypeOK, TreeInPlace, SnapshotNamesChild, Supervise
             PROVE  SnapshotNamesChild'
  OBVIOUS
<1>1. /\ pc \in [Threads -> SupLabel \cup AppLabel \cup ExitLabel] /\ "sup" \in Threads
      /\ host \in HostInner
  BY DEF TypeOK, Threads
<1>2. ASSUME host'.tree = host.tree, host'.pid = host.pid,
             pc["sup"] \notin {"killRun", "killFinish"}
      PROVE  SnapshotNamesChild'
  BY <1>2 DEF SnapshotNamesChild
<1>3. ASSUME host'.pid = None, host'.tree = None PROVE SnapshotNamesChild'
  BY <1>3 DEF SnapshotNamesChild
<1> USE <1>1 DEF Goto, Quiet
<1>4. CASE LoopTop \/ SegmentDone \/ AnnounceReady \/ StdioLost \/ PublishBackoff
           \/ LoopExitCheck \/ CommandDone \/ Decide \/ DecideCapped \/ HasChild
  BY <1>2, <1>4 DEF LoopTop, SegmentDone, AnnounceReady, StdioLost, PublishBackoff,
     Publish,
     LoopExitCheck, CommandDone, Decide, DecideCapped, HasChild
<1>5. CASE SegmentWants \/ SegmentCapped \/ CapCheck \/ WatchFlags \/ SleepCheck
           \/ SleepElapsed \/ SpawnError
  BY <1>2, <1>5 DEF SegmentWants, SegmentCapped, CapCheck, WatchFlags, SleepCheck,
     SleepElapsed, SpawnError
<1>6. CASE Drain \/ Park \/ SegmentReceive \/ WatchReceive \/ SleepReceive
  BY <1>2, <1>6, MethodTree, MethodPid DEF Drain, Park, SegmentReceive, WatchReceive,
     SleepReceive, Receive, ReceiveAndReset, ReceiveAndCall, ReceiveOnly, ReceiveNothing
<1>7. CASE Resume \/ ChargeSpawn \/ Lengthen
  BY <1>2, <1>7, MethodTree, MethodPid DEF Resume, ChargeSpawn, Lengthen
<1>8. CASE KillRun
  BY <1>8 DEF KillRun, SnapshotNamesChild
<1>9. CASE KillFinish \/ GiveUp \/ StopFinish("sup")
  <2>1. host.tree = None
    BY <1>9 DEF KillFinish, GiveUp, StopFinish, TreeInPlace, Tending, Draining, Looking
  <2>2. host'.tree = None /\ host'.pid = None
    BY <1>9, <2>1, MethodTree, MethodPid DEF KillFinish, GiveUp, StopFinish
  <2> QED BY <1>3, <2>2
<1>10. CASE KillTake
  <2>1. CASE host.tree = None
    BY <1>2, <1>10, <2>1 DEF KillTake
  <2>2. CASE host.tree # None
    <3>1. pc'["sup"] = "killRun" /\ host'.tree = None
      BY <1>10, <2>2, MethodTree DEF KillTake
    <3> QED BY <3>1 DEF SnapshotNamesChild
  <2> QED BY <2>1, <2>2
<1>11. CASE SleepMark
  BY <1>2, <1>11 DEF SleepMark, HostInner
<1>12. CASE WatchChild
  BY <1>2, <1>3, <1>12, MethodTree, MethodPid DEF WatchChild
<1>13. CASE ChargeExit
  <2>1. pc["sup"] \in {"noteCrash", "noteRestart"}
    BY <1>13, Zenon DEF ChargeExit
  <2>2. \E r, s \in BOOLEAN : host' = NoteExit(host, r, s)
    BY <1>13, Zenon DEF ChargeExit
  <2>3. host'.tree = host.tree /\ host'.pid = host.pid
    BY <2>2, MethodTree, MethodPid
  <2> QED BY <1>2, <2>1, <2>3
<1>14. CASE Stop("sup") /\ ~StopFinish("sup")
  BY <1>2, <1>3, <1>14, MethodTree, MethodPid DEF Stop, StopLatch, StopChildGone,
     StopDeadline, StopTake, StopKill, Desired
<1>15. CASE Spawn
  <2> USE DEF SpawnFails
  <2>1. CASE Fence \/ Launch \/ Allocate \/ KillRefused
    <3>1. host'.tree = host.tree /\ host'.pid = host.pid
      BY <2>1 DEF Fence, Launch, Allocate, KillRefused, HostInner
    <3>2. pc["sup"] \notin {"killRun", "killFinish"}
      BY <2>1 DEF Fence, Launch, Allocate, KillRefused
    <3> QED BY <1>2, <3>1, <3>2
  <2>2. CASE AwaitCurrent \/ AwaitReady \/ AwaitFailed \/ AwaitAgain \/ Ping
    BY <1>2, <2>2 DEF AwaitCurrent, AwaitReady, AwaitFailed, AwaitAgain, Ping
  <2>3. CASE AwaitExited \/ ReapSpawn
    BY <1>2, <1>3, <2>3, MethodTree, MethodPid DEF AwaitExited, ReapSpawn
  <2>4. CASE AdoptInflight
    <3>1. CASE UNCHANGED host
      BY <1>2, <2>4, <3>1 DEF AdoptInflight
    <3>2. CASE host' = Adopt(host, held["sup"])
      BY <3>2, MethodTree, MethodPid DEF SnapshotNamesChild
    <3> QED BY <2>4, <3>1, <3>2 DEF AdoptInflight
  <2>5. CASE Promote
    <3>1. CASE UNCHANGED host
      BY <1>2, <2>5, <3>1 DEF Promote
    <3>2. CASE host' = PromoteReady(host) /\ host.tree # None
      BY <3>2, MethodTree, MethodPid DEF SnapshotNamesChild
    <3> QED BY <2>5, <3>1, <3>2 DEF Promote
  <2> QED BY <1>15, <2>1, <2>2, <2>3, <2>4, <2>5 DEF Spawn
<1> QED BY <1>4, <1>5, <1>6, <1>7, <1>8, <1>9, <1>10, <1>11, <1>12, <1>13, <1>14,
           <1>15 DEF Supervise, Stop

(* The rounds of a backoff, and what is advertised.                        *)
Dozing  == {"sleepRecv", "sleep", "double"}
Settled == {"Ready", "Failed", "Stopped"}

RetryIsTrue(h) == h.nextRetry => h.phase \notin Settled

RetryComes ==
    RetryIsTrue(host) /\ (pc["sup"] \in Dozing => host.phase \notin Settled)

LEMMA MethodRetry ==
    ASSUME NEW h \in HostInner, RetryIsTrue(h)
    PROVE  /\ RetryIsTrue(ClearChild(h))
           /\ RetryIsTrue(ResetStorm(h))
           /\ \A d \in Desired : RetryIsTrue(LatchDesired(h, d))
           /\ RetryIsTrue(FinishStopped(h))
           /\ RetryIsTrue(TakeForKill(h))
           /\ RetryIsTrue(ResumeRunning(h))
           /\ RetryIsTrue(BumpStreak(h))
           /\ RetryIsTrue(MarkFailed(h))
           /\ h.phase \notin Settled => RetryIsTrue(DoubleBackoff(h))
           /\ \A r, s \in BOOLEAN : RetryIsTrue(NoteExit(h, r, s))
           /\ \A p : RetryIsTrue(Adopt(h, p))
           /\ RetryIsTrue(PromoteReady(h))
           /\ \A c \in Command : RetryIsTrue(Dispatched(h, c))
<1>1. ASSUME NEW r \in BOOLEAN, NEW s \in BOOLEAN PROVE RetryIsTrue(NoteExit(h, r, s))
  <2>1. Forgive(h, s) \in HostInner /\ RetryIsTrue(Forgive(h, s))
    BY BackoffRange DEF Forgive, HostInner, RetryIsTrue
  <2>2. /\ RetryIsTrue(BumpStreak(Forgive(h, s)))
        /\ RetryIsTrue([Forgive(h, s) EXCEPT !.attempt = 0, !.nextRetry = FALSE])
    BY <2>1 DEF BumpStreak, HostInner, RetryIsTrue
  <2>3. CASE r /\ s
    BY <2>2, <2>3 DEF NoteExit
  <2>4. CASE ~(r /\ s)
    BY <2>2, <2>4 DEF NoteExit
  <2> QED BY <2>3, <2>4
<1>2. ASSUME NEW c \in Command PROVE RetryIsTrue(Dispatched(h, c))
  <2>1. CASE c \in StartLike
    BY <2>1, MethodPhase DEF RetryIsTrue, Settled
  <2>2. CASE c \in StopLike
    BY <2>2, MethodPhase DEF RetryIsTrue, Settled
  <2>3. CASE c = "Reload"
    <3>1. /\ Reduced(h, c) \in HostInner /\ Reduced(h, c).nextRetry = h.nextRetry
          /\ c \notin StartLike
      BY <2>3, ReducerType DEF HostInner, Reduced, StartLike
    <3>2. Dispatched(h, c).nextRetry => h.nextRetry
      BY <3>1 DEF Dispatched, HostInner
    <3>3. Dispatched(h, c).phase = h.phase
      BY <2>3, MethodPhase
    <3> QED BY <3>2, <3>3 DEF RetryIsTrue
  <2> QED BY <2>1, <2>2, <2>3, CommandKinds
<1> QED BY <1>1, <1>2 DEF HostInner, ClearChild, FinishStopped, MarkFailed, Adopt,
           PromoteReady, ResetStorm, LatchDesired, TakeForKill, ResumeRunning, BumpStreak,
           DoubleBackoff, RetryIsTrue, Settled

LEMMA SuperviseRetry == TypeOK /\ RetryComes /\ Supervise => RetryComes'
<1> SUFFICES ASSUME TypeOK, RetryComes, Supervise PROVE RetryComes'
  OBVIOUS
<1>1. /\ pc \in [Threads -> SupLabel \cup AppLabel \cup ExitLabel] /\ "sup" \in Threads
      /\ host \in HostInner /\ RetryIsTrue(host) /\ cont \in Continuation
  BY DEF TypeOK, Threads, RetryComes
<1>2. ASSUME RetryIsTrue(host'), pc'["sup"] \notin Dozing PROVE RetryComes'
  BY <1>2 DEF RetryComes
<1> USE <1>1 DEF Goto, Quiet, Dozing
<1>4. CASE LoopTop \/ SegmentDone \/ AnnounceReady \/ StdioLost \/ PublishBackoff
           \/ LoopExitCheck \/ CommandDone \/ Decide \/ DecideCapped \/ HasChild \/ KillRun
  BY <1>2, <1>4 DEF LoopTop, SegmentDone, AnnounceReady, StdioLost, PublishBackoff,
     Publish,
     LoopExitCheck, CommandDone, Decide, DecideCapped, HasChild, KillRun, Continuation
<1>5. CASE SegmentWants \/ SegmentCapped \/ CapCheck \/ WatchFlags \/ SleepCheck \/ SpawnError
  BY <1>2, <1>5 DEF SegmentWants, SegmentCapped, CapCheck, WatchFlags, SleepCheck,
     SpawnError
<1>6. CASE Drain \/ Park \/ SegmentReceive \/ WatchReceive
  BY <1>2, <1>6, MethodRetry DEF Drain, Park, SegmentReceive, WatchReceive,
     Receive, ReceiveAndReset, ReceiveAndCall, ReceiveOnly, ReceiveNothing
<1>7. CASE SleepReceive
  <2>1. CASE \E command \in StartLike : ReceiveAndReset("sleepRecv", command, "segRecv")
    BY <1>2, <2>1, MethodRetry DEF Receive, ReceiveAndReset
  <2>2. CASE \/ ReceiveAndCall("sleepRecv", "GracefulStop", "stopLatch", "segDone")
             \/ ReceiveAndCall("sleepRecv", "ForceKill", "killTake", "segDone")
    BY <1>2, <2>2 DEF Receive, ReceiveAndCall
  <2>3. CASE ReceiveOnly("sleepRecv", "Reload", "sleep") \/ ReceiveNothing("sleepRecv", "sleep")
    BY <2>3 DEF Receive, ReceiveOnly, ReceiveNothing, RetryComes
  <2> QED BY <1>7, <2>1, <2>2, <2>3 DEF SleepReceive
<1>8. CASE SleepElapsed
  BY <1>8 DEF SleepElapsed, RetryComes
<1>9. CASE SleepMark
  <2>1. host'.phase = "Backoff"
    BY <1>9 DEF SleepMark, HostInner
  <2> QED BY <2>1 DEF RetryComes, RetryIsTrue, Settled
<1>10. CASE Lengthen
  <2>1. RetryIsTrue(host') /\ pc'["sup"] = "segRecv"
    BY <1>10, MethodRetry DEF Lengthen, RetryComes
  <2> QED BY <1>2, <2>1
<1>11. CASE Resume \/ ChargeSpawn \/ KillTake \/ KillFinish \/ GiveUp
  BY <1>2, <1>11, MethodRetry DEF Resume, ChargeSpawn, KillTake, KillFinish, GiveUp,
     Continuation
<1>12. CASE WatchChild
  <2>1. Exited(host.tree) => procs[host.tree] \in ExitKind
    BY DEF Exited
  <2> QED BY <1>2, <1>12, <2>1, MethodRetry DEF WatchChild, ExitKind
<1>13. CASE ChargeExit
  <2>1. \E from \in {"noteCrash", "noteRestart"}, to \in {"segRecv", "capCheck"} :
            Goto("sup", from, to)
    BY <1>13, Zenon DEF ChargeExit
  <2>2. \E r, s \in BOOLEAN : host' = NoteExit(host, r, s)
    BY <1>13, Zenon DEF ChargeExit
  <2>3. RetryIsTrue(host')
    BY <2>2, MethodRetry
  <2> QED BY <1>2, <2>1, <2>3
<1>14. CASE Stop("sup")
  BY <1>2, <1>14, MethodRetry DEF Stop, StopLatch, StopChildGone,
     StopDeadline, StopTake, StopKill, StopFinish, Desired, Continuation
<1>15. CASE Spawn
  <2> USE DEF SpawnFails
  <2>1. CASE Fence \/ Launch \/ Allocate \/ KillRefused
    <3>1. /\ host'.nextRetry = host.nextRetry
          /\ host'.phase = host.phase \/ host'.phase = "Starting"
      BY <2>1 DEF Fence, Launch, Allocate, KillRefused, HostInner
    <3>3. RetryIsTrue(host')
      BY <3>1 DEF RetryIsTrue, Settled
    <3>2. pc'["sup"] \notin Dozing
      BY <2>1 DEF Fence, Launch, Allocate, KillRefused
    <3> QED BY <1>2, <3>2, <3>3
  <2>2. CASE AwaitCurrent \/ AwaitReady \/ AwaitFailed \/ AwaitAgain \/ Ping
    BY <1>2, <2>2 DEF AwaitCurrent, AwaitReady, AwaitFailed, AwaitAgain, Ping
  <2>3. CASE AwaitExited \/ ReapSpawn \/ AdoptInflight \/ Promote
    BY <1>2, <2>3, MethodRetry DEF AwaitExited, ReapSpawn, AdoptInflight, Promote
  <2> QED BY <1>15, <2>1, <2>2, <2>3 DEF Spawn
<1> QED BY <1>4, <1>5, <1>6, <1>7, <1>8, <1>9, <1>10, <1>11, <1>12, <1>13, <1>14,
           <1>15 DEF Supervise

LEMMA DispatchShown ==
    ASSUME TypeOK, NEW command \in Command, Dispatch(command)
    PROVE  /\ SnapshotNamesChild => SnapshotNamesChild'
           /\ RetryComes => RetryComes'
<1>1. host \in HostInner /\ pc' = pc /\ host' = Dispatched(host, command)
  BY DEF TypeOK, Dispatch
<1>2. SnapshotNamesChild => SnapshotNamesChild'
  <2>1. host'.tree = host.tree /\ host'.pid = host.pid
    BY <1>1, MethodTree, MethodPid
  <2> QED BY <1>1, <2>1 DEF SnapshotNamesChild
<1>3. RetryComes => RetryComes'
  <2>1. host'.phase = host.phase \/ host'.phase \notin Settled
    BY <1>1, MethodPhase, CommandKinds DEF Settled
  <2> QED BY <1>1, <2>1, MethodRetry DEF RetryComes
<1> QED BY <1>2, <1>3

(* The fence that keeps a stop cannot be taken back by a command before    *)
(* the exit, nor afterwards unless one finds a host that the exit stops.   *)
Calm == ~lateStart

TruthInv ==
    /\ Calm => TreeInPlace
    /\ BeforeExit => Calm
    /\ BeforeExit => StopComes /\ SnapshotNamesChild /\ RetryComes

LEMMA TruthStep ==
    TypeOK /\ ExitFenced /\ StopStands /\ TruthInv /\ [Next]_vars => TruthInv'
<1> SUFFICES ASSUME TypeOK, ExitFenced, StopStands, TruthInv, [Next]_vars
             PROVE  TruthInv'
  OBVIOUS
<1>1. BeforeExit' => BeforeExit /\ ~App
  BY ExitHasBegun
<1>2. Calm' => Calm
  <2>1. lateStart => lateStart'
    BY SuperviseKeepsIntent DEF Next, App, Stop, StopLatch, StopChildGone, StopDeadline,
       StopTake, StopKill, StopFinish, BeginGraceful, AppLatch, BeginForce, Watchdog,
       RunEventExit, ForceAppExit, Quiet, Dispatch, ChildExit, vars, userVars, TypeOK
  <2> QED BY <2>1 DEF Calm
<1>3. CASE Supervise
  <2>1. Calm' <=> Calm
    BY <1>3, SuperviseKeepsIntent DEF Calm
  <2> HIDE DEF Calm
  <2>2. Calm' => TreeInPlace'
    BY <1>3, <2>1, SuperviseInPlace DEF TruthInv
  <2>3. BeforeExit' => Calm' /\ StopComes' /\ SnapshotNamesChild' /\ RetryComes'
    BY <1>1, <1>3, <2>1, SuperviseInPlace, SuperviseStopComes, SuperviseNames, SuperviseRetry
       DEF TruthInv
  <2> QED BY <2>2, <2>3 DEF TruthInv
<1>4. CASE App
  BY <1>1, <1>2, <1>4, AppInPlace DEF TruthInv
<1>5. ASSUME NEW command \in Command, Dispatch(command) PROVE TruthInv'
  <2>1. CASE BeforeExit
    <3>1. lateStart' = lateStart
      BY <1>5, <2>1 DEF Dispatch, ExitStopsHost, Exiting, BeforeExit, TypeOK
    <3> QED BY <1>1, <1>5, <2>1, <3>1, DispatchStopComes, DispatchShown
            DEF TruthInv, Calm
  <2>2. CASE ~BeforeExit
    <3>1. SUFFICES ASSUME Calm' PROVE TreeInPlace'
      BY <1>1, <2>2 DEF TruthInv
    <3>2. /\ TreeInPlace
          /\ command \in StartLike => host.tree = None \/ ~host.stopping
      BY <1>2, <1>5, <2>2, <3>1
         DEF TruthInv, Calm, Dispatch, ExitStopsHost, Exiting, BeforeExit
    <3>3. host \in HostInner /\ pc' = pc /\ host' = Dispatched(host, command)
      BY <1>5 DEF TypeOK, Dispatch
    <3>4. /\ host'.tree = host.tree
          /\ command \notin StartLike /\ host.stopping => host'.stopping
      BY <3>3, MethodTree, MethodIntent, CommandKinds DEF SameIntent
    <3> QED BY <3>2, <3>3, <3>4 DEF TreeInPlace
  <2> QED BY <2>1, <2>2
<1>6. CASE (\E p \in Pids : ChildExit(p)) \/ UNCHANGED vars
  BY <1>1, <1>2, <1>6 DEF ChildExit, vars, userVars, TruthInv, TreeInPlace, StopComes,
     StopQueued, SnapshotNamesChild, RetryComes, Calm
<1> QED BY <1>3, <1>4, <1>5, <1>6 DEF Next

LEMMA TruthHolds == Spec => []TruthInv
<1>1. Init => TruthInv
  BY DEF Init, InitialHost, TruthInv, Calm, TreeInPlace, StopComes, SnapshotNamesChild,
     RetryComes,
     RetryIsTrue, Dozing, Threads
<1>2. Init => ExitFenced
  BY DEF Init, InitialHost, ExitFenced
<1>3. Init => StopStands
  BY DEF Init, StopStands, Restarting, Halting, Resuming, Threads
<1> QED BY <1>1, <1>2, <1>3, FencedStep, StandsStep, TruthStep, TypeCorrect, OwnershipHolds,
           PTL DEF Spec

(* Before the exit of the application the snapshot tells the truth: at     *)
(* most one host lives, the snapshot names it and advertises a retry only  *)
(* where one can come, and a parked supervisor has no child.               *)
THEOREM SnapshotTellsTheTruth == Spec => [](BeforeExit => SnapshotIsTrue)
<1>1. TypeOK /\ Ownership /\ TruthInv /\ BeforeExit => OneHost
  <2> SUFFICES ASSUME TypeOK, Ownership, TruthInv, BeforeExit,
                      NEW p \in Running, NEW q \in Running
               PROVE  p = q
    BY DEF OneHost
  <2>1. \A r \in Running : r = host.tree \/ r = held["sup"]
    <3> SUFFICES ASSUME NEW r \in Running, r # host.tree PROVE r = held["sup"]
      OBVIOUS
    <3>1. PICK t \in Threads : held[t] = r
      BY DEF Running, Ownership
    <3>2. held[t] # None
      BY <3>1 DEF Running, Pids, None
    <3>3. pc[t] \in Owning
      BY <3>2 DEF Ownership
    <3> QED BY <3>1, <3>3 DEF BeforeExit, Owning
  <2>2. host.tree = None \/ held["sup"] = None
    BY DEF Ownership, TruthInv, Calm, TreeInPlace, Tending, Draining, Looking, Owning,
       Threads
  <2>3. p # None /\ q # None
    BY DEF Running, Pids, None
  <2> QED BY <2>1, <2>2, <2>3
<1>2. TypeOK /\ Ownership /\ TruthInv => (BeforeExit => SnapshotIsTrue)
  BY <1>1 DEF TruthInv, SnapshotIsTrue, StopComes, ParkedHasNoChild, RetryComes,
     RetryIsTrue,
     NoStaleRetry, Settled
<1> QED BY <1>2, TypeCorrect, OwnershipHolds, TruthHolds, PTL

(* An application that is not asked to exit never begins to.               *)
LEMMA ExitNeverBegins ==
    ASSUME ~AppCanExit
    PROVE  Spec => []BeforeExit
<1> DEFINE NoExit == BeforeExit /\ intent = "Running"
<1>1. Init => NoExit
  BY DEF Init, BeforeExit, Threads
<1>2. TypeOK /\ NoExit /\ [Next]_vars => NoExit'
  <2> SUFFICES ASSUME TypeOK, NoExit, [Next]_vars PROVE NoExit'
    OBVIOUS
  <2>1. ~App
    BY DEF App, Stop, StopLatch, StopChildGone, StopDeadline, StopTake, StopKill,
       StopFinish,
       BeginGraceful, AppLatch, BeginForce, Watchdog, RunEventExit, ForceAppExit, Goto,
       BeforeExit, Threads
  <2>2. \A t \in Threads \ {"sup"} : pc'[t] = pc[t]
    BY <2>1, SuperviseMoves DEF Next, Dispatch, ChildExit, vars
  <2>3. UNCHANGED intent
    BY <2>1, SuperviseKeepsIntent DEF Next, Dispatch, ChildExit, vars, appVars
  <2> QED BY <2>2, <2>3 DEF BeforeExit
<1> QED BY <1>1, <1>2, TypeCorrect, PTL DEF Spec

THEOREM SnapshotIsTrueWithoutExit ==
    ASSUME ~AppCanExit
    PROVE  Spec => []SnapshotIsTrue
BY ExitNeverBegins, SnapshotTellsTheTruth, PTL

(* No host is launched or adopted over a live tree, unless a Start or a    *)
(* Restart was accepted although the exit stops a host.                    *)
StartsOverNothing ==
    ~lateStart /\ pc["sup"] \in {"launch", "adopt"} => host.tree = None

LEMMA StartsOverNothingHolds == Spec => []StartsOverNothing
<1>1. TruthInv => StartsOverNothing
  BY DEF TruthInv, Calm, TreeInPlace, Tending, Draining, Looking, StartsOverNothing
<1> QED BY <1>1, TruthHolds, PTL

LEMMA AdoptionIsAKind ==
    TypeOK /\ Ownership /\ [Next]_vars /\ AdoptionStep => Adopted
BY EveryStepIsOfAKind DEF AdoptionStep, StepOfAKind, Inert, Refused, TakenBy, KilledBy,
   Collected, LaunchedOne, Numbered, ExitedByItself, SupElsewhere, Launched

(* What is adopted is the process launched last, which nobody has killed,  *)
(* and it takes nobody's place - whatever exits the application begins and *)
(* whatever is accepted during them, but for a start that finds a host the *)
(* exit is stopping.                                                       *)
THEOREM AdoptionsAreFresh == Spec => AdoptionIsFresh
<1>1. TypeOK /\ Ownership /\ Custody /\ StartsOverNothing /\ [Next]_vars
        => (AdoptionStep => /\ host.tree = None \/ lateStart
                            /\ host'.tree = host.gen
                            /\ procs[host.gen] # "reaped")
  <2> SUFFICES ASSUME TypeOK, Ownership, Custody, StartsOverNothing, [Next]_vars, AdoptionStep
               PROVE  /\ host.tree = None \/ lateStart
                      /\ host'.tree = host.gen
                      /\ procs[host.gen] # "reaped"
    OBVIOUS
  <2>1. Adopted
    BY AdoptionIsAKind
  <2>2. held["sup"] = host.gen /\ held["sup"] # None
    BY <2>1 DEF Adopted, Custody, InFlight, Ownership
  <2>3. procs[host.gen] # "reaped"
    BY <2>2 DEF Custody, OneOwner, Pending, Threads
  <2> QED BY <2>1, <2>2, <2>3 DEF Adopted, StartsOverNothing
<1> QED BY <1>1, StartsOverNothingHolds, TypeCorrect, OwnershipHolds, CustodyHolds, PTL
        DEF Spec, AdoptionIsFresh

-----------------------------------------------------------------------------
(* The refinement of HostGenerations.                                      *)

LEMMA LifeIs ==
    ASSUME TypeOK, NEW p \in Pids
    PROVE  /\ procs[p] = "unborn" <=> LifeOf(p) = "unborn"
           /\ procs[p] = "reaped" <=> LifeOf(p) = "dead"
           /\ Pending(p) /\ p = host.tree <=> LifeOf(p) = "adopted"
           /\ /\ Pending(p) /\ p # host.tree
              /\ held["sup"] = p /\ pc["sup"] \in {"allocate", "adopt"}
              <=> LifeOf(p) = "private"
           /\ /\ Pending(p) /\ p # host.tree
              /\ ~(held["sup"] = p /\ pc["sup"] \in {"allocate", "adopt"})
              /\ \E t \in Threads : held[t] = p
              <=> LifeOf(p) = "condemned"
<1>1. CASE procs[p] = "unborn"
  BY <1>1 DEF LifeOf, Pending
<1>2. CASE procs[p] = "reaped"
  BY <1>2 DEF LifeOf, Pending
<1>3. CASE Pending(p)
  BY <1>3 DEF LifeOf, Pending
<1> QED BY <1>1, <1>2, <1>3 DEF Pending

(* The five lives, told apart by the state of a process and its owner.     *)
InHand(p) == held["sup"] = p /\ pc["sup"] \in {"allocate", "adopt"}

LifeTold ==
    \A p \in Pids :
        /\ procs[p] = "unborn" <=> LifeOf(p) = "unborn"
        /\ procs[p] = "reaped" <=> LifeOf(p) = "dead"
        /\ Pending(p) /\ p = host.tree <=> LifeOf(p) = "adopted"
        /\ Pending(p) /\ p # host.tree /\ InHand(p) <=> LifeOf(p) = "private"
        /\ Pending(p) /\ p # host.tree /\ ~InHand(p) <=> LifeOf(p) = "condemned"

LEMMA LifeIsTold == TypeOK /\ Ownership => LifeTold
BY LifeIs DEF Ownership, Pending, InHand, LifeTold

LEMMA LifeStutters ==
    (\A p \in Pids : LifeOf(p)' = LifeOf(p)) => UNCHANGED [p \in Pids |-> LifeOf(p)]
OBVIOUS

LEMMA LifeBecomes ==
    ASSUME NEW p \in Pids, NEW from, NEW to, LifeOf(p) = from, LifeOf(p)' = to,
           \A q \in Pids \ {p} : LifeOf(q)' = LifeOf(q)
    PROVE  Generations!Becomes(p, from, to)
BY DEF Generations!Becomes

LEMMA LifeStep ==
    ASSUME TypeOK, TypeOK', Ownership, Ownership', Custody, StartsOverNothing, StepOfAKind
    PROVE  [\E p \in Pids : Generations!Live(p)]_[p \in Pids |-> LifeOf(p)]
<1>1. /\ host.gen \in 0 .. MaxGeneration /\ MaxGeneration \in Nat
      /\ host.tree \in PidOrNone
      /\ held \in [Threads -> PidOrNone] /\ procs \in [Pids -> ProcStatus]
      /\ "sup" \in Threads /\ None \notin Pids
  BY CustodyType DEF Pids, None
<1>2. LifeTold
  BY LifeIsTold
<1>3. LifeTold'
  BY LifeIsTold, PTL
<1> USE DEF LifeTold, InHand, Pending
(* Steps that nothing happens in.                                          *)
<1>4. CASE Inert
  <2>1. \A p \in Pids : LifeOf(p)' = LifeOf(p)
    BY <1>2, <1>3, <1>4 DEF Inert, SupElsewhere, SameProcesses, Launched
  <2> QED BY <2>1, LifeStutters
<1>5. CASE Numbered
  <2>1. \A p \in Pids : LifeOf(p)' = LifeOf(p)
    BY <1>2, <1>3, <1>5 DEF Numbered
  <2> QED BY <2>1, LifeStutters
<1>6. ASSUME NEW p \in Pids, ExitedByItself(p)
      PROVE  [\E q \in Pids : Generations!Live(q)]_[q \in Pids |-> LifeOf(q)]
  <2>1. \A q \in Pids : LifeOf(q)' = LifeOf(q)
    BY <1>1, <1>2, <1>3, <1>6 DEF ExitedByItself, ExitKind
  <2> QED BY <2>1, LifeStutters
(* A process that leaves the tree or a hand.                               *)
<1>7. CASE Refused
  <2>1. PICK p \in Pids : p = held["sup"] /\ p # host.tree /\ Pending(p)
    BY <1>1, <1>7 DEF Refused, Ownership, PidOrNone, Custody, OneOwner
  <2>2. LifeOf(p) = "private" /\ LifeOf(p)' = "condemned"
    BY <1>2, <1>3, <1>7, <2>1 DEF Refused, SameProcesses
  <2>3. \A q \in Pids \ {p} : LifeOf(q)' = LifeOf(q)
    BY <1>2, <1>3, <1>7, <2>1 DEF Refused, SameProcesses
  <2>4. Generations!Refuse(p)
    BY <2>2, <2>3, LifeBecomes DEF Generations!Refuse
  <2> QED BY <2>4 DEF Generations!Live
<1>8. ASSUME NEW t \in Threads, TakenBy(t)
      PROVE  [\E q \in Pids : Generations!Live(q)]_[q \in Pids |-> LifeOf(q)]
  <2>1. CASE host.tree = None
    <3>1. held' = held /\ host'.tree = host.tree
      BY <1>1, <1>8, <2>1 DEF TakenBy, TakeTree
    <3>2. \A p \in Pids : LifeOf(p)' = LifeOf(p)
      BY <1>2, <1>3, <1>8, <3>1 DEF TakenBy, SupElsewhere, SameProcesses, Launched
    <3> QED BY <3>2, LifeStutters
  <2>2. CASE host.tree # None
    <3>1. PICK p \in Pids :
            /\ p = host.tree /\ Pending(p)
            /\ t # "sup" => held'["sup"] = held["sup"] /\ held["sup"] # p
            /\ t = "sup" => held["sup"] = None /\ held'["sup"] = p
      BY <1>1, <1>8, <2>2 DEF TakenBy, TakeTree, PidOrNone, Custody, OneOwner
    <3>2. \A q \in Pids : q # p => (InHand(q)' <=> InHand(q))
      BY <1>1, <1>8, <3>1 DEF TakenBy, SupElsewhere, Launched
    <3>3. ~InHand(p) /\ ~InHand(p)'
      BY <1>1, <1>8, <3>1 DEF TakenBy, SupElsewhere, Launched
    <3>4. procs' = procs /\ host'.tree = None
      BY <1>8 DEF TakenBy, SameProcesses
    <3>5. LifeOf(p) = "adopted" /\ LifeOf(p)' = "condemned"
      BY <1>1, <1>2, <1>3, <3>1, <3>3, <3>4
    <3>6. \A q \in Pids \ {p} : LifeOf(q)' = LifeOf(q)
      BY <1>1, <1>2, <1>3, <3>1, <3>2, <3>4
    <3>7. Generations!Take(p)
      BY <3>5, <3>6, LifeBecomes DEF Generations!Take
    <3> QED BY <3>7 DEF Generations!Live
  <2> QED BY <2>1, <2>2
<1>9. ASSUME NEW t \in Threads, KilledBy(t)
      PROVE  [\E q \in Pids : Generations!Live(q)]_[q \in Pids |-> LifeOf(q)]
  <2>1. \A q \in Pids : q # held[t] => (InHand(q)' <=> InHand(q))
    BY <1>1, <1>9 DEF KilledBy, KillHeld, Launched
  <2>2. CASE held[t] = None
    <3>1. procs' = procs /\ host'.tree = host.tree
      BY <1>9, <2>2 DEF KilledBy, KillHeld, Reaped
    <3>2. \A p \in Pids : LifeOf(p)' = LifeOf(p)
      BY <1>1, <1>2, <1>3, <2>1, <2>2, <3>1
    <3> QED BY <3>2, LifeStutters
  <2>3. CASE held[t] # None
    <3>1. PICK p \in Pids :
            /\ p = held[t] /\ Pending(p) /\ p # host.tree
            /\ t # "sup" => held["sup"] # p
      BY <1>1, <2>3 DEF PidOrNone, Custody, OneOwner
    <3>2. procs' = [procs EXCEPT ![p] = "reaped"] /\ host'.tree = host.tree
      BY <1>9, <2>3, <3>1 DEF KilledBy, KillHeld, Reaped
    <3>3. ~InHand(p)
      BY <1>9, <3>1 DEF KilledBy
    <3>4. LifeOf(p) = "condemned" /\ LifeOf(p)' = "dead"
      BY <1>1, <1>2, <1>3, <3>1, <3>2, <3>3
    <3>5. \A q \in Pids \ {p} : LifeOf(q)' = LifeOf(q)
      BY <1>1, <1>2, <1>3, <2>1, <3>1, <3>2
    <3>6. Generations!Kill(p)
      BY <3>4, <3>5, LifeBecomes DEF Generations!Kill
    <3> QED BY <3>6 DEF Generations!Live
  <2> QED BY <2>2, <2>3
<1>10. CASE Collected
  <2>1. PICK p \in Pids :
          /\ p = host.tree /\ Pending(p)
          /\ procs' = [procs EXCEPT ![p] = "reaped"] /\ host'.tree = None
    BY <1>1, <1>10 DEF Collected, Exited, Reaped, ExitKind, PidOrNone
  <2>2. \A q \in Pids : InHand(q)' <=> InHand(q)
    BY <1>10 DEF Collected, SupElsewhere, Launched
  <2>3. LifeOf(p) = "adopted" /\ LifeOf(p)' = "dead"
    BY <1>1, <1>2, <1>3, <2>1
  <2>4. \A q \in Pids \ {p} : LifeOf(q)' = LifeOf(q)
    BY <1>1, <1>2, <1>3, <2>1, <2>2
  <2>5. Generations!Collect(p)
    BY <2>3, <2>4, LifeBecomes DEF Generations!Collect
  <2> QED BY <2>5 DEF Generations!Live
(* Steps of a process that begins.                                         *)
<1>11. CASE LaunchedOne
  <2>1. PICK p \in Pids :
          /\ p = host.gen + 1
          /\ procs[p] = "unborn" \/ (procs[p] = "reaped" /\ p = MaxGeneration + 1)
          /\ p # host.tree
    BY <1>1, <1>11 DEF LaunchedOne, Custody, Numbering, OneOwner, Pids, PidOrNone, None
  <2>2. /\ procs'[p] = "running" /\ held'["sup"] = p /\ pc'["sup"] = "allocate"
        /\ host'.tree = host.tree
        /\ \A q \in Pids \ {p} : procs'[q] = procs[q]
        /\ held["sup"] = None
    BY <1>1, <1>11, <2>1 DEF LaunchedOne
  <2>3. /\ LifeOf(p) = "unborn" \/ (LifeOf(p) = "dead" /\ p = MaxGeneration + 1)
        /\ LifeOf(p)' = "private"
    BY <1>2, <1>3, <2>1, <2>2
  <2>4. \A q \in Pids \ {p} : LifeOf(q)' = LifeOf(q)
    BY <1>1, <1>2, <1>3, <2>2
  <2>5. \A q \in Pids : q < p =>
            LifeOf(q) \in {"condemned", "dead"}
                \cup (IF lateStart THEN {"adopted"} ELSE {})
    <3>1. \A q \in Pids : q < p => procs[q] # "unborn" /\ ~InHand(q)
      BY <1>1, <2>1, <2>2 DEF Custody, Numbering, Pids
    <3>2. ~lateStart => host.tree = None
      BY <1>11 DEF StartsOverNothing, LaunchedOne
    <3> QED BY <1>1, <1>2, <3>1, <3>2
  <2>6. \/ Generations!Becomes(p, "unborn", "private")
        \/ p = MaxGeneration + 1 /\ Generations!Becomes(p, "dead", "private")
    BY <2>3, <2>4, LifeBecomes
  <2>7. Generations!Launch(p)
    BY <2>5, <2>6 DEF Generations!Launch, Generations!Settled
  <2> QED BY <2>7 DEF Generations!Live
<1>12. CASE Adopted
  <2>1. PICK p \in Pids :
          /\ p = held["sup"] /\ Pending(p) /\ p # host.tree /\ InHand(p)
          /\ host'.tree = p /\ pc'["sup"] = "await"
    BY <1>1, <1>12 DEF Adopted, Ownership, PidOrNone, Custody, OneOwner
  <2>2. /\ host.tree # None => /\ host.tree \in Pids /\ Pending(host.tree)
                               /\ procs' = [procs EXCEPT ![host.tree] = "reaped"]
        /\ host.tree = None => procs' = procs
    BY <1>1, <1>12 DEF Adopted, Reaped, Custody, OneOwner, PidOrNone
  <2>3. LifeOf(p) = "private" /\ LifeOf(p)' = "adopted"
    BY <1>1, <1>2, <1>3, <2>1, <2>2
  <2>4. \A q \in Pids \ {p} :
            LifeOf(q)' = IF LifeOf(q) = "adopted" THEN "dead" ELSE LifeOf(q)
    <3>1. ASSUME NEW q \in Pids \ {p}, q = host.tree
          PROVE  LifeOf(q) = "adopted" /\ LifeOf(q)' = "dead"
      BY <1>1, <1>2, <1>3, <2>1, <2>2, <3>1
    <3>2. ASSUME NEW q \in Pids \ {p}, q # host.tree
          PROVE  LifeOf(q) # "adopted" /\ LifeOf(q)' = LifeOf(q)
      BY <1>1, <1>2, <1>3, <2>1, <2>2, <3>2
    <3> QED BY <3>1, <3>2
  <2>5. \A q \in Pids : LifeOf(q) = "adopted" => lateStart
    BY <1>1, <1>2, <1>12 DEF StartsOverNothing, Adopted
  <2>6. [q \in Pids |-> LifeOf(q)]' =
            [q \in Pids |-> IF q = p THEN "adopted"
                            ELSE IF LifeOf(q) = "adopted" THEN "dead"
                            ELSE LifeOf(q)]
    BY <2>3, <2>4
  <2>7. Generations!Adopt(p)
    BY <2>3, <2>5, <2>6 DEF Generations!Adopt
  <2> QED BY <2>7 DEF Generations!Live
<1> QED BY <1>4, <1>5, <1>6, <1>7, <1>8, <1>9, <1>10, <1>11, <1>12 DEF StepOfAKind

(* Every process is launched once by a supervisor with nothing of its own  *)
(* alive, adopted once at most, and ended by the one owner it has, however *)
(* stops, kills, exits and the application's exit interleave.              *)
THEOREM ProcessesLiveOnce == Spec => GenerationsLiveOnce
<1> DEFINE life == [p \in Pids |-> LifeOf(p)]
<1>1. Init => Generations!Init
  BY DEF Init, Generations!Init, LifeOf
<1>2. /\ TypeOK /\ TypeOK' /\ Ownership /\ Ownership' /\ Custody
      /\ StartsOverNothing /\ [Next]_vars
      => [Generations!Next]_<<life, lateStart>>
  <2> SUFFICES ASSUME TypeOK, TypeOK', Ownership, Ownership', Custody,
                      StartsOverNothing, [Next]_vars
               PROVE  [Generations!Next]_<<life, lateStart>>
    OBVIOUS
  <2>1. [\E p \in Pids : Generations!Live(p)]_life
    BY EveryStepIsOfAKind, LifeStep
  <2>2. ASSUME NEW command \in Command, Dispatch(command)
        PROVE  UNCHANGED life /\ (lateStart' = lateStart \/ lateStart' = TRUE)
    <3>1. host'.tree = host.tree /\ UNCHANGED <<pc, held, procs>>
      BY <2>2, MethodTree DEF Dispatch, TypeOK
    <3>2. \A p \in Pids : LifeOf(p)' = LifeOf(p)
      BY <3>1 DEF LifeOf
    <3>3. lateStart' = lateStart \/ lateStart' = TRUE
      BY <2>2 DEF Dispatch, TypeOK
    <3> QED BY <3>2, <3>3
  <2>3. (\A command \in Command : ~Dispatch(command)) => lateStart' = lateStart
    BY SuperviseKeepsIntent DEF Next, App, Stop, StopLatch, StopChildGone, StopDeadline,
       StopTake, StopKill, StopFinish, BeginGraceful, AppLatch, BeginForce, Watchdog,
       RunEventExit, ForceAppExit, Quiet, ChildExit, vars, userVars
  <2>4. CASE \E command \in Command : Dispatch(command)
    BY <2>2, <2>4 DEF Generations!Next, Generations!StartLate
  <2>5. CASE ~(\E command \in Command : Dispatch(command))
    <3>1. lateStart' = lateStart
      BY <2>3, <2>5
    <3>2. CASE \E p \in Pids : Generations!Live(p)
      BY <3>1, <3>2, Zenon DEF Generations!Next
    <3> QED BY <2>1, <3>1, <3>2
  <2> QED BY <2>4, <2>5
<1> QED BY <1>1, <1>2, StartsOverNothingHolds, TypeCorrect, OwnershipHolds, CustodyHolds, PTL
        DEF Spec, GenerationsLiveOnce, Generations!Spec
=============================================================================
