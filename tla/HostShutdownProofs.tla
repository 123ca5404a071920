------------------------ MODULE HostShutdownProofs ------------------------
(***************************************************************************)
(* The host's shutdown, proved for any number of disposers, any times that *)
(* fit together (CapAssumption) and any extensions.                        *)
(***************************************************************************)
EXTENDS HostShutdown, TLAPS

-----------------------------------------------------------------------------
(* What a step does to the shutdown.                                       *)

Begins(t) == \E reason \in {"stop", "restart"} : Acquire(t, reason)

(* A step begins the shutdown, is one of the five things that happen       *)
(* during one, or leaves it alone.                                         *)
LEMMA StopMoves ==
    ASSUME Next
    PROVE  \/ \E t \in Trigger : Begins(t)
           \/ Extend
           \/ DeadlineFires
           \/ DisposerSettles
           \/ \E t \in Trigger : StopWaiting(t)
           \/ Tick
           \/ UNCHANGED stopVars
<1>1. CASE Shutdown
  BY <1>1 DEF Shutdown, Exit
<1>2. CASE Request
  BY <1>2 DEF Request, StopRpc, RestartRpc, StdinLoss, DevRestart, Terminate,
              RequestShutdown, Yield, Begins, Trigger
<1>3. CASE Bootstrap
  BY <1>3 DEF Bootstrap, Connect, ReadyDelivered, ReadyFault, ReadyLost, LostReturns,
              RequestShutdown, Yield, Begins, Trigger
<1>4. CASE ShellDies \/ WriteFails \/ Tick
  BY <1>4 DEF ShellDies, WriteFails
<1> QED BY <1>1, <1>2, <1>3, <1>4 DEF Next

-----------------------------------------------------------------------------
(* Types.                                                                  *)

LEMMA LesserType ==
    ASSUME NEW a \in Int, NEW b \in Int
    PROVE  Lesser(a, b) \in Int /\ Lesser(a, b) <= a /\ Lesser(a, b) <= b
BY DEF Lesser

LEMMA ExpireType ==
    ASSUME NEW s \in ShutdownSignal
    PROVE  [s EXCEPT !.timer = Never, !.expired = TRUE] \in ShutdownSignal
<1>1. Never \in Int
  BY DEF Never
<1>2. [s EXCEPT !.timer = Never] \in ShutdownSignal
  BY <1>1 DEF ShutdownSignal
<1>3. [[s EXCEPT !.timer = Never] EXCEPT !.expired = TRUE] \in ShutdownSignal
  BY <1>2 DEF ShutdownSignal
<1> QED BY <1>3

LEMMA ScheduleType ==
    ASSUME NEW s \in ShutdownSignal, now \in Nat
    PROVE  Schedule(s) \in ShutdownSignal
<1>1. [s EXCEPT !.timer = s.deadline] \in ShutdownSignal
  BY DEF ShutdownSignal
<1> QED BY <1>1, ExpireType DEF Schedule

LEMMA BegunType ==
    ASSUME NEW reason \in {"stop", "restart"}, now \in Nat
    PROVE  Begun(reason) \in ShutdownSignal
<1>1. Lesser(InitialTime, HardCap) \in Int
  BY LesserType, TimesAssumption
<1>2. [stopping |-> TRUE, reason |-> reason,
       deadline |-> now + Lesser(InitialTime, HardCap),
       hardCap |-> now + HardCap, timer |-> Never, expired |-> FALSE] \in ShutdownSignal
  BY <1>1, TimesAssumption DEF ShutdownSignal, Never
<1> QED BY <1>2, ScheduleType DEF Begun

LEMMA ExtendedType ==
    ASSUME NEW s \in ShutdownSignal, NEW ms \in Int, now \in Nat
    PROVE  Extended(s, ms) \in ShutdownSignal
<1>1. Lesser(s.deadline + ms, s.hardCap) \in Int
  BY LesserType DEF ShutdownSignal
<1>2. [s EXCEPT !.deadline = Lesser(s.deadline + ms, s.hardCap)] \in ShutdownSignal
  BY <1>1 DEF ShutdownSignal
<1> QED BY <1>2, ScheduleType DEF Extended

LEMMA InitTypes == Init => TypeOK
<1> SUFFICES ASSUME Init  PROVE TypeOK
  OBVIOUS
<1>1. Never \in Int
  BY DEF Never
<1>2. signal \in ShutdownSignal
  BY <1>1 DEF Init, ShutdownSignal
<1>3. cleanup \in 0 .. Disposers + 1
  BY TimesAssumption DEF Init
<1>4. exitAt \in [Trigger -> Int]
  BY <1>1 DEF Init
<1> QED BY <1>2, <1>3, <1>4 DEF Init, TypeOK

StopTypes ==
    /\ provided \in BOOLEAN
    /\ signal \in ShutdownSignal
    /\ cleanup \in 0 .. Disposers + 1
    /\ at \in [Trigger -> {"idle", "racing", "leaving"}]
    /\ exitAt \in [Trigger -> Int]
    /\ now \in Nat
    /\ first \in SUBSET Trigger

LEMMA StopTypesKept ==
    ASSUME TypeOK, Next
    PROVE  StopTypes'
<1> USE DEF TypeOK, StopTypes
<1>1. ASSUME NEW t \in Trigger, Begins(t)  PROVE StopTypes'
  <2>1. PICK reason \in {"stop", "restart"} : Acquire(t, reason)
    BY <1>1 DEF Begins
  <2>2. signal' \in ShutdownSignal
    BY <2>1, BegunType DEF Acquire
  <2> QED BY <2>1, <2>2, TimesAssumption DEF Acquire
<1>2. CASE Extend
  BY <1>2, ExtendedType, TimesAssumption DEF Extend
<1>3. CASE DeadlineFires
  <2>1. signal' \in ShutdownSignal
    BY <1>3, ExpireType DEF DeadlineFires
  <2> QED BY <1>3, <2>1 DEF DeadlineFires
<1>4. CASE DisposerSettles
  BY <1>4, TimesAssumption DEF DisposerSettles
<1>5. ASSUME NEW t \in Trigger, StopWaiting(t)  PROVE StopTypes'
  BY <1>5, TimesAssumption DEF StopWaiting
<1>6. CASE Tick
  BY <1>6 DEF Tick
<1>7. CASE UNCHANGED stopVars
  BY <1>7 DEF stopVars
<1> QED BY StopMoves, <1>1, <1>2, <1>3, <1>4, <1>5, <1>6, <1>7

LinkTypes ==
    /\ attached \in BOOLEAN
    /\ boot \in {"starting", "calling", "lost", "up"}
    /\ stdin \in {"open", "closed", "seen"}
    /\ broken \in BOOLEAN
    /\ exited \in {Running, 0, 1, 51, 52}

LEMMA LinkTypesKept ==
    ASSUME TypeOK, Next
    PROVE  LinkTypes'
<1> USE DEF TypeOK, LinkTypes, linkVars
<1>1. CASE Shutdown
  <2>1. \A t \in Trigger : ExitCode(t) \in {0, 51, 52}
    BY DEF Trigger, ExitCode
  <2> QED BY <1>1, <2>1 DEF Shutdown, Extend, DeadlineFires, DisposerSettles,
                           StopWaiting, Exit
<1>2. CASE Request
  BY <1>2 DEF Request, StopRpc, RestartRpc, StdinLoss, DevRestart, Terminate
<1>3. CASE Bootstrap
  BY <1>3 DEF Bootstrap, Connect, ReadyDelivered, ReadyFault, ReadyLost, LostReturns
<1>4. CASE ShellDies
  BY <1>4 DEF ShellDies
<1>5. CASE WriteFails
  BY <1>5 DEF WriteFails
<1>6. CASE Tick
  BY <1>6 DEF Tick
<1> QED BY <1>1, <1>2, <1>3, <1>4, <1>5, <1>6 DEF Next

LEMMA TypesKept == TypeOK /\ [Next]_vars => TypeOK'
<1>1. ASSUME TypeOK, Next  PROVE TypeOK'
  BY <1>1, StopTypesKept, LinkTypesKept DEF StopTypes, LinkTypes, TypeOK
<1>2. ASSUME TypeOK, UNCHANGED vars  PROVE TypeOK'
  BY <1>2 DEF TypeOK, vars
<1> QED BY <1>1, <1>2

(* Every variable of the shutdown keeps its type (signal.ts, lifecycle.ts, *)
(* index.ts).                                                              *)
THEOREM ShutdownTypeCorrect == Spec => []TypeOK
BY InitTypes, TypesKept, PTL DEF Spec

-----------------------------------------------------------------------------
(* One owner.  What makes it inductive: before the gate is taken nobody    *)
(* has started and nobody is recorded as the first.                        *)

OneOwnerInv ==
    /\ FirstTriggerOwnsTheExit
    /\ ~signal.stopping => first = {} /\ \A t \in Trigger : at[t] = "idle"

(* The gate never opens again: nothing resets stopping.                    *)
LEMMA GateStaysShut ==
    ASSUME NEW s \in ShutdownSignal, NEW ms \in Int
    PROVE  Extended(s, ms).stopping = s.stopping
BY DEF Extended, Schedule, ShutdownSignal

LEMMA OwnerKept == TypeOK /\ OneOwnerInv /\ [Next]_vars => OneOwnerInv'
<1> SUFFICES ASSUME TypeOK, OneOwnerInv, [Next]_vars  PROVE OneOwnerInv'
  OBVIOUS
<1> USE DEF OneOwnerInv, FirstTriggerOwnsTheExit, TypeOK
<1>1. ASSUME NEW t \in Trigger, Begins(t)  PROVE OneOwnerInv'
  <2>1. PICK reason \in {"stop", "restart"} : Acquire(t, reason)
    BY <1>1 DEF Begins
  <2>2. first = {} /\ \A u \in Trigger : at[u] = "idle"
    BY <2>1 DEF Acquire
  <2>3. first' = {t} /\ \A u \in Trigger : at'[u] # "idle" => u = t
    BY <2>1, <2>2 DEF Acquire
  <2>4. signal'.stopping
    BY <2>1 DEF Acquire, Begun, Schedule
  <2> QED BY <2>3, <2>4
<1>2. CASE Extend
  BY <1>2, GateStaysShut, TimesAssumption DEF Extend
<1>3. CASE DeadlineFires
  BY <1>3 DEF DeadlineFires, ShutdownSignal
<1>4. CASE DisposerSettles
  BY <1>4 DEF DisposerSettles
<1>5. ASSUME NEW t \in Trigger, StopWaiting(t)  PROVE OneOwnerInv'
  <2>1. at[t] # "idle" /\ signal' = signal /\ first' = first
    BY <1>5 DEF StopWaiting, Races
  <2>2. \A u \in Trigger : at'[u] # "idle" => at[u] # "idle"
    BY <1>5, <2>1 DEF StopWaiting
  <2> QED BY <2>1, <2>2
<1>6. CASE Tick
  BY <1>6 DEF Tick
<1>7. CASE UNCHANGED stopVars
  BY <1>7 DEF stopVars
<1>8. CASE UNCHANGED vars
  BY <1>8 DEF vars, stopVars
<1> QED BY StopMoves, <1>1, <1>2, <1>3, <1>4, <1>5, <1>6, <1>7, <1>8

(* "The first caller wins" (signal.ts, begin): of the stop and restart     *)
(* requests, the lost input, the failed handshake and a reload that needs  *)
(* a restart, only the first disposes the plugins and schedules an exit.   *)
THEOREM OneOwner == Spec => []FirstTriggerOwnsTheExit
<1>1. Init => OneOwnerInv
  BY DEF Init, OneOwnerInv, FirstTriggerOwnsTheExit
<1>2. OneOwnerInv => FirstTriggerOwnsTheExit
  BY DEF OneOwnerInv
<1> QED BY <1>1, <1>2, OwnerKept, ShutdownTypeCorrect, PTL DEF Spec

-----------------------------------------------------------------------------
(* The clock.  It starts at zero with the shutdown; the timer of a         *)
(* deadline that is not over is set to it; and how far the clock can be    *)
(* follows from where the owner is.                                        *)

DeadlineInv ==
    /\ signal.expired => signal.deadline <= now
    /\ signal.timer # Never => signal.timer = signal.deadline
    /\ signal.stopping =>
         /\ signal.hardCap = HardCap
         /\ signal.deadline <= HardCap
         /\ ~signal.expired => signal.timer # Never
    /\ ~signal.stopping => now = 0 /\ signal.timer = Never /\ ~signal.expired

Latest(t) == IF at[t] = "racing" THEN HardCap + Lag ELSE exitAt[t] + Lag

ClockInv ==
    /\ signal.stopping => \E t \in Trigger : at[t] # "idle"
    /\ \A t \in Trigger : at[t] # "idle" =>
         /\ signal.stopping
         /\ now <= Latest(t)
    /\ \A t \in Trigger : at[t] = "leaving" =>
         0 <= exitAt[t] /\ exitAt[t] <= HardCap + Lag + ExitDelay

(* Scheduling a signal whose deadline respects the cap.                    *)
LEMMA ScheduleKeepsDeadline ==
    ASSUME NEW s \in ShutdownSignal, now \in Nat,
           s.stopping, s.hardCap = HardCap, s.deadline <= HardCap,
           s.expired => s.deadline <= now
    PROVE  LET n == Schedule(s)
           IN  /\ n.stopping /\ n.hardCap = HardCap /\ n.deadline <= HardCap
               /\ n.expired => n.deadline <= now
               /\ n.timer # Never => n.timer = n.deadline
               /\ ~n.expired => n.timer # Never
BY DEF Schedule, ShutdownSignal, Never

LEMMA DeadlineKept ==
    ASSUME TypeOK, DeadlineInv, [Next]_vars
    PROVE  DeadlineInv'
<1> USE DEF TypeOK, DeadlineInv
<1>1. ASSUME NEW t \in Trigger, Begins(t)  PROVE DeadlineInv'
  <2>1. PICK reason \in {"stop", "restart"} : Acquire(t, reason)
    BY <1>1 DEF Begins
  <2> DEFINE s == [stopping |-> TRUE, reason |-> reason,
                   deadline |-> now + Lesser(InitialTime, HardCap),
                   hardCap |-> now + HardCap, timer |-> Never, expired |-> FALSE]
  <2>2. now = 0 /\ now' = now /\ signal' = Schedule(s)
    BY <2>1 DEF Acquire, Begun
  <2>3. Lesser(InitialTime, HardCap) \in Int /\ Lesser(InitialTime, HardCap) <= HardCap
    BY TimesAssumption DEF Lesser
  <2>4. s \in ShutdownSignal
    BY <2>3, TimesAssumption DEF ShutdownSignal, Never
  <2>5. s.stopping /\ s.hardCap = HardCap /\ s.deadline <= HardCap /\ ~s.expired
    BY <2>2, <2>3, TimesAssumption
  <2> HIDE DEF s
  <2> QED BY <2>2, <2>4, <2>5, ScheduleKeepsDeadline
<1>2. CASE Extend
  <2>1. PICK ms \in Extensions : signal' = Extended(signal, ms)
    BY <1>2 DEF Extend
  <2>2. now' = now /\ signal.stopping /\ ms \in Int
    BY <1>2, TimesAssumption DEF Extend
  <2>3. CASE signal.deadline <= now
    BY <2>1, <2>2, <2>3 DEF Extended
  <2>4. CASE ~(signal.deadline <= now)
    <3> DEFINE s == [signal EXCEPT !.deadline = Lesser(signal.deadline + ms, signal.hardCap)]
    <3>1. /\ Lesser(signal.deadline + ms, signal.hardCap) \in Int
          /\ Lesser(signal.deadline + ms, signal.hardCap) <= signal.hardCap
      BY <2>2 DEF ShutdownSignal, Lesser
    <3>2. s \in ShutdownSignal
      BY <3>1 DEF ShutdownSignal
    <3>3. s.stopping /\ s.hardCap = HardCap /\ s.deadline <= HardCap /\ ~s.expired
      BY <2>2, <2>4, <3>1 DEF ShutdownSignal
    <3>4. signal' = Schedule(s)
      BY <2>1, <2>4 DEF Extended
    <3> HIDE DEF s
    <3> QED BY <2>2, <3>2, <3>3, <3>4, ScheduleKeepsDeadline
  <2> QED BY <2>3, <2>4
<1>3. CASE DeadlineFires
  BY <1>3 DEF DeadlineFires, ShutdownSignal, Never
<1>4. CASE DisposerSettles
  BY <1>4 DEF DisposerSettles
<1>5. ASSUME NEW t \in Trigger, StopWaiting(t)  PROVE DeadlineInv'
  BY <1>5 DEF StopWaiting
<1>6. CASE Tick
  BY <1>6 DEF Tick, ShutdownSignal
<1>7. CASE UNCHANGED stopVars
  BY <1>7 DEF stopVars
<1>8. CASE UNCHANGED vars
  BY <1>8 DEF vars, stopVars
<1> QED BY StopMoves, <1>1, <1>2, <1>3, <1>4, <1>5, <1>6, <1>7, <1>8

(* A tick leaves room: whoever would be late has its turn first.           *)
LEMMA TickInTime ==
    ASSUME TypeOK, DeadlineInv, ClockInv, Tick, NEW t \in Trigger, at[t] # "idle"
    PROVE  now' <= Latest(t)
<1> USE TimesAssumption DEF TypeOK
<1>1. CASE at[t] = "racing"
  <2>1. ~signal.expired
    BY <1>1 DEF Tick, Races
  <2>2. signal.timer = signal.deadline /\ signal.deadline <= HardCap /\ signal.timer # Never
    BY <2>1 DEF DeadlineInv, ClockInv
  <2>3. now < signal.deadline + Lag
    BY <2>2 DEF Tick, Overdue, ShutdownSignal
  <2> QED BY <1>1, <2>2, <2>3 DEF Tick, Latest, ShutdownSignal
<1>2. CASE at[t] = "leaving"
  <2>1. exitAt[t] \in Int /\ exitAt[t] # Never
    BY <1>2 DEF ClockInv, Never
  <2>2. now < exitAt[t] + Lag
    BY <2>1 DEF Tick, Overdue
  <2> QED BY <1>2, <2>1, <2>2 DEF Tick, Latest
<1> QED BY <1>1, <1>2

LEMMA ClockKept ==
    ASSUME TypeOK, OneOwnerInv, DeadlineInv, ClockInv, [Next]_vars
    PROVE  ClockInv'
<1> USE TimesAssumption DEF TypeOK
<1>1. ASSUME NEW t \in Trigger, Begins(t)  PROVE ClockInv'
  <2>1. PICK reason \in {"stop", "restart"} : Acquire(t, reason)
    BY <1>1 DEF Begins
  <2>2. signal'.stopping
    BY <2>1 DEF Acquire, Begun, Schedule
  <2>3. \A u \in Trigger : at[u] = "idle"
    BY <2>1 DEF Acquire, OneOwnerInv
  <2>4. now' = 0 /\ at' = [at EXCEPT ![t] = "racing"]
    BY <2>1 DEF Acquire, DeadlineInv
  <2> QED BY <2>2, <2>3, <2>4 DEF ClockInv, Latest
<1>2. CASE Extend
  <2>1. PICK ms \in Extensions : signal' = Extended(signal, ms)
    BY <1>2 DEF Extend
  <2>2. signal'.stopping = signal.stopping
    BY <2>1, GateStaysShut
  <2> QED BY <1>2, <2>2 DEF Extend, ClockInv, Latest
<1>3. CASE DeadlineFires
  <2>1. signal'.stopping = signal.stopping
    BY <1>3 DEF DeadlineFires, ShutdownSignal
  <2> QED BY <1>3, <2>1 DEF DeadlineFires, ClockInv, Latest
<1>4. CASE DisposerSettles
  BY <1>4 DEF DisposerSettles, ClockInv, Latest
<1>5. ASSUME NEW t \in Trigger, StopWaiting(t)  PROVE ClockInv'
  <2>1. at[t] = "racing" /\ now <= HardCap + Lag /\ signal.stopping
    BY <1>5 DEF StopWaiting, Races, ClockInv, Latest
  <2>2. /\ at' = [at EXCEPT ![t] = "leaving"] /\ exitAt' = [exitAt EXCEPT ![t] = now + ExitDelay]
        /\ now' = now /\ signal' = signal
    BY <1>5 DEF StopWaiting
  <2>3. ASSUME NEW u \in Trigger, at'[u] # "idle"
        PROVE  /\ now' <= Latest(u)'
               /\ at'[u] = "leaving" => 0 <= exitAt'[u] /\ exitAt'[u] <= HardCap + Lag + ExitDelay
    <3>1. CASE u = t
      BY <2>1, <2>2, <3>1 DEF Latest
    <3>2. CASE u # t
      BY <2>2, <2>3, <3>2 DEF Latest, ClockInv
    <3> QED BY <3>1, <3>2
  <2> QED BY <2>1, <2>2, <2>3 DEF ClockInv
<1>6. CASE Tick
  <2>1. UNCHANGED <<signal, at, exitAt>>
    BY <1>6 DEF Tick
  <2>2. \A t \in Trigger : at[t] # "idle" => now' <= Latest(t)'
    BY <1>6, <2>1, TickInTime DEF Latest
  <2> QED BY <2>1, <2>2 DEF ClockInv
<1>7. CASE UNCHANGED stopVars
  BY <1>7 DEF stopVars, ClockInv, Latest
<1>8. CASE UNCHANGED vars
  BY <1>8 DEF vars, ClockInv, Latest
<1> QED BY StopMoves, <1>1, <1>2, <1>3, <1>4, <1>5, <1>6, <1>7, <1>8

LEMMA ClockInTime ==
    ASSUME TypeOK, ClockInv
    PROVE  BeatsTheShell
<1> USE TimesAssumption, CapAssumption DEF TypeOK
<1> SUFFICES ASSUME signal.stopping  PROVE now < ShellTimeout
  BY DEF BeatsTheShell
<1>1. PICK t \in Trigger : at[t] # "idle"
  BY DEF ClockInv
<1>2. now <= Latest(t)
  BY <1>1 DEF ClockInv
<1>3. CASE at[t] = "racing"
  BY <1>2, <1>3 DEF Latest
<1>4. CASE at[t] = "leaving"
  <2>1. exitAt[t] \in Int /\ exitAt[t] <= HardCap + Lag + ExitDelay
    BY <1>4 DEF ClockInv
  <2> QED BY <1>2, <1>4, <2>1 DEF Latest
<1> QED BY <1>1, <1>3, <1>4

LEMMA InitDeadline == Init => DeadlineInv /\ ClockInv
BY DEF Init, DeadlineInv, ClockInv

TimeInv == TypeOK /\ OneOwnerInv /\ DeadlineInv /\ ClockInv

LEMMA TimeInvHolds == Spec => []TimeInv
<1>1. Init => TimeInv
  BY InitTypes, InitDeadline DEF TimeInv, Init, OneOwnerInv, FirstTriggerOwnsTheExit
<1>2. TimeInv /\ [Next]_vars => TimeInv'
  BY TypesKept, OwnerKept, DeadlineKept, ClockKept DEF TimeInv
<1> QED BY <1>1, <1>2, PTL DEF Spec

(* "No amount of extend() calls can push the deadline beyond this"         *)
(* (lifecycle.ts, GRACEFUL_STOP_HARD_CAP_MS): a host that is leaving has   *)
(* left before the shell's STOP_RPC_TIMEOUT, whatever its plugins do.      *)
THEOREM OverInTime == Spec => []BeatsTheShell
<1>1. TimeInv => BeatsTheShell
  BY ClockInTime DEF TimeInv
<1> QED BY <1>1, TimeInvHolds, PTL

(* A clean-up is only given up when its deadline, as it stands after every *)
(* extension, is over (lifecycle.ts, the race in gracefulStopWithTimeout). *)
THEOREM TimeIsGranted == Spec => NotAbandonedEarly
<1> DEFINE Granted == \A t \in Trigger : at[t] = "racing" /\ at'[t] = "leaving" /\ ~Finished
                        => signal.deadline <= now
<1>1. ASSUME TimeInv, Next  PROVE Granted
  <2> SUFFICES ASSUME NEW t \in Trigger, at[t] = "racing", at'[t] = "leaving", ~Finished
               PROVE  signal.deadline <= now
    OBVIOUS
  <2> USE DEF TimeInv, TypeOK
  <2>1. ASSUME NEW u \in Trigger, Begins(u)  PROVE FALSE
    BY <1>1, <2>1 DEF Begins, Acquire, OneOwnerInv
  <2>2. ASSUME NEW u \in Trigger, StopWaiting(u)  PROVE signal.deadline <= now
    <3>1. u = t
      BY <2>2 DEF StopWaiting
    <3>2. signal.expired
      BY <2>2, <3>1 DEF StopWaiting, Races
    <3> QED BY <1>1, <3>2 DEF DeadlineInv
  <2>3. at' # at
    OBVIOUS
  <2> QED BY <2>1, <2>2, <2>3, <1>1, StopMoves
          DEF Extend, DeadlineFires, DisposerSettles, Tick, stopVars
<1>2. TimeInv /\ [Next]_vars => [Granted]_vars
  BY <1>1
<1> QED BY <1>2, TimeInvHolds, PTL DEF Spec, NotAbandonedEarly

=============================================================================
