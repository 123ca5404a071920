------------------------- MODULE PluginReloadProofs -------------------------
(***************************************************************************)
(* What holds of a reload for any number of entries, saves and edits: the  *)
(* types, and on top of them one inductive invariant, Inv, from which the  *)
(* four safety properties of PluginReload follow.                          *)
(***************************************************************************)
EXTENDS PluginReload, TLAPS

USE DEF Closed, Gated, Entry, None

-----------------------------------------------------------------------------
(* Types.                                                                  *)

Phases == {"idle", "import", "dispose", "build", "await", "restore", "restoreAwait"}

QueueType ==
    /\ pending \in BOOLEAN
    /\ asked \in 0..source /\ tried \in 0..asked
    /\ phase \in Phases
    /\ IF phase = "idle" THEN target = None ELSE target \in Entry

(* Taking from the queue keeps its type, whoever does it.                  *)
LEMMA TakesType ==
    ASSUME NEW e \in Entry, NEW v \in 0..source', NEW lives \in [Entry -> Lives],
           Takes(e, v, lives), asked' = v, source' \in Nat
    PROVE  QueueType'
<1>1. pending' \in BOOLEAN
    BY Zenon DEF Takes
<1>2. asked' = v /\ tried' = v
    BY DEF Takes
<1>3. asked' \in 0..source' /\ tried' \in 0..asked'
    BY <1>2, SMT
<1>4. \/ phase' = "import" /\ target' = e
      \/ phase' = "idle" /\ target' = None
    BY DEF Takes, Idle
<1> QED
    BY <1>1, <1>3, <1>4 DEF QueueType, Phases

(* And so does the end of a reload.                                        *)
LEMMA RunsOnType ==
    ASSUME TypeOK, NEW lives \in [Entry -> Lives], phase # "idle",
           RunsOn(lives), source' = source
    PROVE  QueueType' /\ fiber' \in [Entry -> Lives]
<1>1. target \in Entry /\ asked \in 0..source' /\ source' \in Nat /\ asked' = asked
    BY BoundsAssumption DEF TypeOK, RunsOn
<1>2. CASE pending /\ ~Gated
    <2>1. Takes(target, asked, lives)
        BY <1>2 DEF RunsOn
    <2> QED
        BY <1>1, <2>1, TakesType DEF RunsOn
<1>3. CASE ~(pending /\ ~Gated)
    BY <1>1, <1>3 DEF RunsOn, Idle, QueueType, Phases, TypeOK
<1> QED
    BY <1>2, <1>3

(* One of the entry's fibers takes another life.                           *)
LEMMA WithType ==
    ASSUME TypeOK, phase # "idle", NEW life \in Lives
    PROVE  With(life) \in [Entry -> Lives]
BY DEF With, TypeOK

LEMMA FailedType ==
    ASSUME TypeOK, phase # "idle"
    PROVE  Failed \in Lives
BY DEF Failed, TypeOK, Lives

(* What the steps of a reload share: the rest of the type.                 *)
RestType ==
    /\ fiber \in [Entry -> Lives]
    /\ coming \in [Entry -> Nat] /\ strays \in [Entry -> Nat]
    /\ abandoned \subseteq Entry /\ warned \subseteq Entry

LEMMA GivesUpType ==
    ASSUME TypeOK, NEW lives \in [Entry -> Lives], phase # "idle",
           GivesUp(lives), source' = source
    PROVE  QueueType' /\ fiber' \in [Entry -> Lives] /\ warned' \subseteq Entry
<1>1. RunsOn(lives) /\ warned' = warned \union {target}
    BY DEF GivesUp
<1>2. target \in Entry
    BY DEF TypeOK
<1> QED
    BY <1>1, <1>2, RunsOnType DEF TypeOK

LEMMA SucceedsType ==
    ASSUME TypeOK, NEW lives \in [Entry -> Lives], phase # "idle",
           Succeeds(lives), source' = source
    PROVE  QueueType' /\ fiber' \in [Entry -> Lives] /\ warned' \subseteq Entry
<1>1. RunsOn(lives) /\ warned' = warned \ {target}
    BY DEF Succeeds
<1> QED
    BY <1>1, RunsOnType DEF TypeOK

LEMMA TryRestoreType ==
    ASSUME TypeOK, NEW lives \in [Entry -> Lives], phase # "idle",
           TryRestore(lives), source' = source
    PROVE  QueueType' /\ fiber' \in [Entry -> Lives] /\ warned' \subseteq Entry
<1>1. CASE GivesUp(lives)
    BY <1>1, GivesUpType
<1>2. CASE phase' = "restore" /\ fiber' = lives
           /\ UNCHANGED <<pending, asked, tried, target, warned>>
    BY <1>2 DEF TypeOK, QueueType, Phases
<1> QED
    BY <1>1, <1>2 DEF TryRestore

LEMMA AbandonType ==
    ASSUME TypeOK, phase # "idle", Abandon
    PROVE  /\ coming' \in [Entry -> Nat] /\ strays' \in [Entry -> Nat]
           /\ abandoned' \subseteq Entry
<1>1. target \in Entry
    BY DEF TypeOK
<1>2. coming[target] + 1 \in Nat
    BY <1>1 DEF TypeOK
<1> QED
    BY <1>1, <1>2 DEF Abandon, TypeOK

(* The type, in the parts that the lemmas are about.                       *)
LEMMA TypeParts ==
    ASSUME QueueType', RestType', TypeOK, reloadUnchanged' = reloadUnchanged
    PROVE  TypeOK'
BY DEF QueueType, RestType, TypeOK, reloadUnchanged, watchVars, saveVars, treeVars,
       Phases

(* The type is kept by the steps of a reload: each either moves to its next*)
(* phase or ends with one of the operators above.                          *)
LEMMA ReloadStepType ==
    ASSUME TypeOK, ReloadStep
    PROVE  TypeOK'
<1> USE DEF reloadUnchanged, saveVars
<1>1. CASE Imported
    <2>1. fiber' \in [Entry -> Lives]
        BY <1>1, WithType DEF Imported, Lives
    <2> QED
        BY <1>1, <2>1, TypeParts DEF Imported, QueueType, RestType, TypeOK, Phases
<1>2. CASE ImportFails
    BY <1>2, RunsOnType, TypeParts DEF ImportFails, RestType, TypeOK
<1>3. CASE Disposed
    <2>1. fiber' \in [Entry -> Lives]
        BY <1>3, WithType DEF Disposed, Lives
    <2> QED
        BY <1>3, <2>1, TypeParts DEF Disposed, QueueType, RestType, TypeOK, Phases
<1>4. ASSUME NEW life \in {"half", "disposing"}, DisposeFails(life)
      PROVE  TypeOK'
    <2>1. phase # "idle" /\ With(life) \in [Entry -> Lives]
        BY <1>4, WithType DEF DisposeFails, Lives
    <2> QED
        BY <1>4, <2>1, GivesUpType, TypeParts DEF DisposeFails, RestType, TypeOK
<1>5. CASE Built
    <2>1. fiber' \in [Entry -> Lives]
        BY <1>5, WithType DEF Built, Lives
    <2> QED
        BY <1>5, <2>1, TypeParts DEF Built, QueueType, RestType, TypeOK, Phases
<1>6. CASE BuildFails
    BY <1>6, TryRestoreType, TypeParts DEF BuildFails, RestType, TypeOK
<1>7. CASE BuildTimesOut
    BY <1>7, TryRestoreType, AbandonType, TypeParts
       DEF BuildTimesOut, RestType, TypeOK
<1>8. CASE Awaited
    <2>1. phase # "idle" /\ With("active") \in [Entry -> Lives]
        BY <1>8, WithType DEF Awaited, Lives
    <2> QED
        BY <1>8, <2>1, SucceedsType, TypeParts DEF Awaited, RestType, TypeOK
<1>9. CASE AwaitFails
    <2>1. phase # "idle" /\ With(Failed) \in [Entry -> Lives]
        BY <1>9, WithType, FailedType DEF AwaitFails
    <2> QED
        BY <1>9, <2>1, TryRestoreType, TypeParts DEF AwaitFails, RestType, TypeOK
<1>10. CASE AwaitTimesOut
    <2>1. abandoned' \subseteq Entry
        BY <1>10 DEF AwaitTimesOut, TypeOK
    <2> QED
        BY <1>10, <2>1, TryRestoreType, TypeParts DEF AwaitTimesOut, RestType, TypeOK
<1>11. CASE Restored
    <2>1. phase # "idle" /\ target \in Entry
        BY <1>11 DEF Restored, TypeOK
    <2>2. fiber' \in [Entry -> Lives]
        BY <1>11, <2>1, WithType DEF Restored, Lives
    <2>3. coming[target] + 1 \in Nat /\ strays[target] + 1 \in Nat
        BY <2>1 DEF TypeOK
    <2>4. coming' \in [Entry -> Nat]
        BY <1>11, <2>1, <2>3 DEF Restored, TypeOK
    <2>5. strays' \in [Entry -> Nat]
        BY <1>11, <2>1, <2>3 DEF Restored, TypeOK
    <2> QED
        BY <1>11, <2>1, <2>2, <2>4, <2>5, TypeParts
           DEF Restored, QueueType, RestType, TypeOK, Phases
<1>12. CASE RestoreFails
    BY <1>12, GivesUpType, TypeParts DEF RestoreFails, RestType, TypeOK
<1>13. CASE RestoreTimesOut
    BY <1>13, GivesUpType, AbandonType, TypeParts
       DEF RestoreTimesOut, RestType, TypeOK
<1>14. CASE RestoreAwaited
    <2>1. phase # "idle" /\ With("active") \in [Entry -> Lives]
        BY <1>14, WithType DEF RestoreAwaited, Lives
    <2> QED
        BY <1>14, <2>1, SucceedsType, TypeParts DEF RestoreAwaited, RestType, TypeOK
<1>15. CASE RestoreAwaitFails
    <2>1. phase # "idle" /\ With(Failed) \in [Entry -> Lives]
        BY <1>15, WithType, FailedType DEF RestoreAwaitFails
    <2> QED
        BY <1>15, <2>1, GivesUpType, TypeParts DEF RestoreAwaitFails, RestType, TypeOK
<1>16. CASE RestoreAwaitTimesOut
    <2>1. abandoned' \subseteq Entry
        BY <1>16 DEF RestoreAwaitTimesOut, TypeOK
    <2> QED
        BY <1>16, <2>1, GivesUpType, TypeParts
           DEF RestoreAwaitTimesOut, RestType, TypeOK
<1> QED
    BY <1>1, <1>2, <1>3, <1>4, <1>5, <1>6, <1>7, <1>8, <1>9, <1>10, <1>11, <1>12,
       <1>13, <1>14, <1>15, <1>16 DEF ReloadStep

(* A save reaches the queue, or is dropped.                                *)
LEMMA FlushType ==
    ASSUME TypeOK, Flush
    PROVE  TypeOK'
<1>1. source' = source /\ source \in Nat
    BY BoundsAssumption DEF Flush, TypeOK
<1>2. QueueType'
    <2>1. CASE Gated \/ bound = None
        BY <1>1, <2>1 DEF Flush, queueVars, QueueType, TypeOK, Phases
    <2>2. CASE ~(Gated \/ bound = None) /\ phase = "idle"
        <3>1. Takes(bound, source, fiber) /\ asked' = source
            BY <2>2 DEF Flush, Enqueue
        <3>2. bound \in Entry /\ source \in 0..source' /\ fiber \in [Entry -> Lives]
            BY <1>1, <2>2 DEF TypeOK
        <3> QED
            BY <1>1, <3>1, <3>2, TakesType
    <2>3. CASE ~(Gated \/ bound = None) /\ phase # "idle"
        BY <1>1, <2>3 DEF Flush, Enqueue, QueueType, TypeOK, Phases
    <2> QED
        BY <2>1, <2>2, <2>3
<1> QED
    BY <1>1, <1>2 DEF Flush, QueueType, TypeOK, watchVars, treeVars, fiberVars, Phases

LEMMA LateType ==
    ASSUME TypeOK, NEW e \in Entry, LateFiber(e) \/ LateBuild(e)
    PROVE  TypeOK'
<1> USE DEF watchVars, saveVars, treeVars, queueVars
<1>1. CASE LateFiber(e)
    BY <1>1 DEF LateFiber, TypeOK, Lives
<1>2. CASE LateBuild(e)
    <2>1. coming[e] - 1 \in Nat /\ strays[e] + 1 \in Nat
        BY <1>2 DEF LateBuild, TypeOK
    <2> QED
        BY <1>2, <2>1 DEF LateBuild, TypeOK
<1> QED
    BY <1>1, <1>2

LEMMA TornDownType ==
    ASSUME TypeOK, NEW e \in Entry
    PROVE  TornDown(e) \in [Entry -> Lives]
BY DEF TornDown, TypeOK, Lives

LEMMA EditType ==
    ASSUME TypeOK, Refresh \/ Rebuild
    PROVE  TypeOK'
<1> USE BoundsAssumption DEF watchVars, saveVars, queueVars, fiberVars
<1>1. CASE Refresh
    <2>1. edits' \in 0..MaxEdits /\ settling' \in 0..edits'
        BY <1>1 DEF Refresh, TypeOK
    <2>2. tree' \in Entry \union {None} /\ fiber' \in [Entry -> Lives]
        BY <1>1, TornDownType DEF Refresh, TypeOK, Lives
    <2> QED
        BY <1>1, <2>1, <2>2 DEF Refresh, TypeOK
<1>2. CASE Rebuild
    <2>1. settling' \in 0..edits' /\ edits' \in 0..MaxEdits
        BY <1>2 DEF Rebuild, TypeOK
    <2> QED
        BY <1>2, <2>1 DEF Rebuild, TypeOK
<1> QED
    BY <1>1, <1>2

LEMMA StopType ==
    ASSUME TypeOK,
           Ready \/ Stop \/ StopDisposes \/ Close \/ WatcherClosed \/ CloseReturns
    PROVE  TypeOK'
<1> USE DEF watchVars, saveVars, treeVars, queueVars, fiberVars
<1>1. CASE StopDisposes
    <2>1. fiber' \in [Entry -> Lives]
        BY <1>1, TornDownType DEF StopDisposes, TypeOK
    <2> QED
        BY <1>1, <2>1 DEF StopDisposes, TypeOK
<1>2. CASE Ready \/ Stop \/ Close \/ WatcherClosed \/ CloseReturns
    BY <1>2 DEF Ready, Stop, Close, WatcherClosed, CloseReturns, TypeOK
<1> QED
    BY <1>1, <1>2

LEMMA TypeStep == TypeOK /\ [Next]_vars => TypeOK'
<1> SUFFICES ASSUME TypeOK, [Next]_vars PROVE TypeOK'
    OBVIOUS
<1>1. CASE Save
    BY <1>1, BoundsAssumption
       DEF Save, TypeOK, watchVars, treeVars, queueVars, fiberVars
<1>2. CASE UNCHANGED vars
    BY <1>2 DEF vars, watchVars, saveVars, treeVars, queueVars, fiberVars, TypeOK
<1> QED
    BY <1>1, <1>2, FlushType, ReloadStepType, LateType, EditType, StopType DEF Next

LEMMA TypeInit == Init => TypeOK
<1> SUFFICES ASSUME Init PROVE TypeOK
    OBVIOUS
<1>1. 1 \in Entry
    BY BoundsAssumption
<1>2. source = 0 /\ asked = 0 /\ tried = 0 /\ edits = 0 /\ settling = 0
    BY DEF Init
<1>3. fiber \in [Entry -> Lives] /\ coming \in [Entry -> Nat]
        /\ strays \in [Entry -> Nat]
    BY DEF Init, Lives
<1>4. QueueType /\ source \in 0..MaxSaves
    <2>1. asked \in 0..source /\ tried \in 0..asked /\ source \in 0..MaxSaves
        BY <1>2, BoundsAssumption
    <2>2. pending \in BOOLEAN /\ phase = "idle" /\ target = None
        BY Zenon DEF Init
    <2> QED
        BY <2>1, <2>2 DEF QueueType, Phases
<1>5. tree \in Entry /\ bound \in Entry /\ edits \in 0..MaxEdits /\ settling \in 0..edits
    BY <1>1, <1>2, BoundsAssumption DEF Init
<1> QED
    BY <1>3, <1>4, <1>5 DEF Init, QueueType, Phases, TypeOK

(* Every variable keeps its type, and the queue runs for an Entry object   *)
(* exactly when it runs (dev-watch.ts, runQueue and kickQueue).            *)
THEOREM ReloadTypeCorrect == Spec => []TypeOK
BY TypeInit, TypeStep, PTL DEF Spec

-----------------------------------------------------------------------------
(* Safety.  The four properties need each other's company: that nothing is *)
(* built but over a disposed fiber needs the life the fiber has in each    *)
(* phase, and that a dead plugin was reported needs to know which phases   *)
(* are still going to report.                                              *)

(* The watcher is closed by the shutdown only, and behind the last run.    *)
GateInv == (Closed => stopping) /\ (watch = "closed" => phase = "idle")

(* A save that was queued is tried, or it is in the queue of a run.        *)
QueueInv ==
    ~stopping => /\ phase = "idle" => pending = FALSE
                 /\ pending = FALSE => tried = asked

(* The entries that somebody refers to have had a fiber.                   *)
KnownInv ==
    \A e \in {tree, bound, target} : e # None => fiber[e] # "none"

(* What a phase builds upon.                                               *)
BaseInv ==
    /\ phase = "build" => fiber[target] = "disposed"
    /\ phase \in {"await", "restoreAwait"} => fiber[target] \in {"starting", "disposed"}
    /\ phase = "restore" /\ target \notin abandoned
            => fiber[target] \in {"failed", "disposed"}
    /\ \A e \in Entry : e \notin abandoned => coming[e] = 0 /\ strays[e] = 0

(* A plugin that does not run was reported, or its reload is in a phase    *)
(* that will not end without a fiber or a report.                          *)
Reporting(e) ==
    target = e /\ phase \in {"dispose", "build", "await", "restore", "restoreAwait"}

ReportInv ==
    tree # None /\ ~stopping /\ fiber[tree] # "active" /\ ~Reporting(tree)
        => tree \in warned

(* An entry that was taken out for good has no fiber, and no run.          *)
OrphanInv ==
    \A e \in Entry : e # tree /\ e \notin orphaned
        => target # e /\ fiber[e] \in {"none", "disposed"}

Inv == /\ TypeOK /\ GateInv /\ QueueInv /\ KnownInv /\ BaseInv /\ ReportInv
       /\ OrphanInv

LEMMA InvImplies ==
    Inv => PluginRunsOnce /\ NoSilentDeath /\ LastSaveIsTried /\ ClosedIsQuiet
<1> SUFFICES ASSUME Inv
    PROVE PluginRunsOnce /\ NoSilentDeath /\ LastSaveIsTried /\ ClosedIsQuiet
    OBVIOUS
<1> USE DEF Inv
<1>1. PluginRunsOnce
    <2> SUFFICES ASSUME NEW e \in Entry, e \notin abandoned
                 PROVE  Alive(e) <= Count(e = tree \/ e \in orphaned)
        BY DEF PluginRunsOnce
    <2>1. coming[e] = 0 /\ strays[e] = 0
        BY DEF BaseInv
    <2>2. ~(/\ fiber[e] \in {"starting", "active", "disposing", "half"}
            /\ target = e /\ phase \in {"build", "restore"})
        BY DEF BaseInv
    <2>3. \/ e = tree
          \/ e \in orphaned
          \/ fiber[e] \in {"none", "disposed"} /\ target # e
        BY DEF OrphanInv
    <2> QED
        BY <2>1, <2>2, <2>3 DEF Alive, Count
<1>2. NoSilentDeath
    BY DEF ReportInv, Reporting, NoSilentDeath
<1>3. LastSaveIsTried
    BY DEF QueueInv, LastSaveIsTried
<1>4. ClosedIsQuiet
    BY DEF GateInv, ClosedIsQuiet
<1> QED
    BY <1>1, <1>2, <1>3, <1>4

(* The end of a reload keeps the invariant, if the fiber it leaves does.   *)
LEMMA RunsOnInv ==
    ASSUME Inv, NEW life \in Lives \ {"none"}, phase # "idle",
           RunsOn(With(life)),
           UNCHANGED <<watch, stopping, source, tree, bound>>,
           life # "active" /\ target = tree /\ ~stopping => target \in warned',
           warned' = warned \/ warned' = warned \ {target}
             \/ warned' = warned \union {target},
           \A e \in Entry \ abandoned' : /\ e \notin abandoned
                                         /\ coming'[e] = coming[e]
                                         /\ strays'[e] = strays[e]
    PROVE  GateInv' /\ QueueInv' /\ KnownInv' /\ BaseInv' /\ ReportInv'
<1> USE DEF Inv
<1>1. target \in Entry /\ fiber \in [Entry -> Lives] /\ fiber' = With(life)
    BY DEF TypeOK, RunsOn
<1>2. /\ \/ phase' = "idle" /\ target' = None
         \/ phase' = "import" /\ target' = target
      /\ asked' = asked
    BY DEF RunsOn, Takes, Idle
<1>3. GateInv'
    <2>1. watch # "closed"
        BY DEF GateInv
    <2> QED
        BY <2>1 DEF GateInv
<1>4. QueueInv'
    BY DEF QueueInv, GateInv, RunsOn, Takes, Idle, TypeOK
<1>5. KnownInv'
    BY <1>1, <1>2 DEF KnownInv, With, TypeOK
<1>6. BaseInv'
    BY <1>2 DEF BaseInv
<1>7. ReportInv'
    <2> SUFFICES ASSUME tree # None, ~stopping, fiber'[tree] # "active"
        PROVE tree \in warned'
        BY DEF ReportInv
    <2>1. CASE tree = target
        BY <1>1, <2>1 DEF With
    <2>2. CASE tree # target
        <3>1. tree \in Entry /\ fiber'[tree] = fiber[tree]
            BY <1>1, <2>2 DEF With, TypeOK
        <3> QED
            BY <2>2, <3>1 DEF ReportInv, Reporting
    <2> QED
        BY <2>1, <2>2
<1> QED
    BY <1>3, <1>4, <1>5, <1>6, <1>7
(* tryRestoreOld begins over a fiber that is not up.                       *)
LEMMA TryRestoreInv ==
    ASSUME Inv, NEW life \in Lives \ {"none", "active"}, phase # "idle",
           TryRestore(With(life)),
           UNCHANGED <<watch, stopping, source, tree, bound>>,
           target \notin abandoned' => life \in {"failed", "disposed"},
           \A e \in Entry \ abandoned' : /\ e \notin abandoned
                                         /\ coming'[e] = coming[e]
                                         /\ strays'[e] = strays[e]
    PROVE  GateInv' /\ QueueInv' /\ KnownInv' /\ BaseInv' /\ ReportInv'
<1>1. CASE GivesUp(With(life))
    <2>1. RunsOn(With(life)) /\ warned' = warned \union {target}
        BY <1>1 DEF GivesUp
    <2> QED
        BY <2>1, RunsOnInv
<1>2. CASE phase' = "restore" /\ fiber' = With(life)
           /\ UNCHANGED <<pending, asked, tried, target, warned>>
    <2> USE <1>2 DEF Inv
    <2>1. target \in Entry /\ fiber'[target] = life
        BY DEF TypeOK, With
    <2>2. GateInv' /\ QueueInv'
        BY DEF GateInv, QueueInv
    <2>3. KnownInv'
        BY <2>1 DEF KnownInv, With, TypeOK
    <2>4. BaseInv'
        BY <2>1 DEF BaseInv
    <2>5. ReportInv'
        <3>1. \A e \in Entry : e # target => fiber'[e] = fiber[e]
            BY DEF With, TypeOK
        <3> QED
            BY <3>1 DEF ReportInv, Reporting, TypeOK
    <2> QED
        BY <2>2, <2>3, <2>4, <2>5
<1> QED
    BY <1>1, <1>2 DEF TryRestore
(* A step from one phase to the next.                                      *)
LEMMA MovesOn ==
    ASSUME Inv, NEW life \in Lives \ {"none", "active"}, phase # "idle",
           phase' \in {"dispose", "build", "await", "restoreAwait"},
           phase' = "build" => life = "disposed",
           phase' \in {"await", "restoreAwait"} => life = "starting",
           fiber' = With(life),
           UNCHANGED <<watch, stopping, source, tree, bound, pending, asked, tried,
                       target, abandoned, warned>>,
           \A e \in Entry \ abandoned : coming'[e] = coming[e] /\ strays'[e] = strays[e]
    PROVE  GateInv' /\ QueueInv' /\ KnownInv' /\ BaseInv' /\ ReportInv'
<1> USE DEF Inv
<1>1. target \in Entry /\ fiber'[target] = life
    BY DEF TypeOK, With
<1>2. GateInv' /\ QueueInv'
    BY DEF GateInv, QueueInv
<1>3. KnownInv'
    BY <1>1 DEF KnownInv, With, TypeOK
<1>4. BaseInv'
    BY <1>1 DEF BaseInv
<1>5. ReportInv'
    <2>1. \A e \in Entry : e # target => fiber'[e] = fiber[e]
        BY DEF With, TypeOK
    <2> QED
        BY <2>1 DEF ReportInv, Reporting, TypeOK
<1> QED
    BY <1>2, <1>3, <1>4, <1>5

LEMMA ReloadStepInv ==
    ASSUME Inv, ReloadStep
    PROVE  GateInv' /\ QueueInv' /\ KnownInv' /\ BaseInv' /\ ReportInv'
<1> DEFINE Same == UNCHANGED <<watch, stopping, source, tree, bound>>
<1> DEFINE Rest == GateInv' /\ QueueInv' /\ KnownInv' /\ BaseInv' /\ ReportInv'
<1> USE DEF Inv
<1>1. Same
    BY DEF ReloadStep, Imported, ImportFails, Disposed, DisposeFails, Built, BuildFails,
           BuildTimesOut, Awaited, AwaitFails, AwaitTimesOut, Restored, RestoreFails,
           RestoreTimesOut, RestoreAwaited, RestoreAwaitFails, RestoreAwaitTimesOut,
           reloadUnchanged, watchVars, saveVars, treeVars
<1>2. phase # "idle" => /\ target \in Entry /\ fiber[target] \in Lives \ {"none"}
                        /\ fiber = With(fiber[target])
    BY DEF TypeOK, KnownInv, With
<1> HIDE DEF Same, Rest
<1>3. CASE Imported
    <2> DEFINE life == IF fiber[target] = "disposed" THEN "disposed" ELSE "disposing"
    <2>1. life \in Lives \ {"none", "active"} /\ fiber' = With(life)
        BY <1>3 DEF Imported, Lives
    <2> HIDE DEF life
    <2> QED
        BY <1>1, <1>3, <2>1, MovesOn DEF Imported, Same, Rest
<1>4. CASE ImportFails
    <2>1. RunsOn(With(fiber[target])) /\ phase = "import"
        BY <1>2, <1>4 DEF ImportFails
    <2>2. fiber[target] # "active" /\ target = tree /\ ~stopping => target \in warned
        BY <1>2, <2>1 DEF ReportInv, Reporting
    <2> QED
        BY <1>1, <1>2, <1>4, <2>1, <2>2, RunsOnInv DEF ImportFails, Same, Rest
<1>5. CASE Disposed
    BY <1>1, <1>5, MovesOn DEF Disposed, Lives, Same, Rest
<1>6. ASSUME NEW life \in {"half", "disposing"}, DisposeFails(life)
      PROVE  Rest
    BY <1>1, <1>6, RunsOnInv DEF DisposeFails, GivesUp, Lives, Same, Rest
<1>7. CASE Built
    BY <1>1, <1>7, MovesOn DEF Built, Lives, Same, Rest
<1>8. CASE BuildFails \/ BuildTimesOut
    <2>1. phase = "build" /\ TryRestore(With("disposed"))
        BY <1>2, <1>8 DEF BuildFails, BuildTimesOut, BaseInv
    <2>2. \A e \in Entry \ abandoned' : /\ e \notin abandoned
                                       /\ coming'[e] = coming[e]
                                       /\ strays'[e] = strays[e]
        BY <1>8 DEF BuildFails, BuildTimesOut, Abandon, TypeOK
    <2> QED
        BY <1>1, <2>1, <2>2, TryRestoreInv DEF Lives, Same, Rest
<1>9. CASE Awaited
    BY <1>1, <1>9, RunsOnInv DEF Awaited, Succeeds, Lives, Same, Rest
<1>10. CASE AwaitFails
    <2>1. phase = "await" /\ Failed \in {"failed", "disposed"}
        BY <1>10 DEF AwaitFails, BaseInv, Failed
    <2> QED
        BY <1>1, <1>10, <2>1, TryRestoreInv DEF AwaitFails, Lives, Same, Rest
<1>11. CASE AwaitTimesOut
    <2>1. phase = "await" /\ fiber[target] \in {"starting", "disposed"}
            /\ TryRestore(With(fiber[target]))
        BY <1>2, <1>11 DEF AwaitTimesOut, BaseInv
    <2> QED
        BY <1>1, <1>11, <2>1, TryRestoreInv DEF AwaitTimesOut, Lives, Same, Rest
<1>12. CASE Restored
    <2>1. phase = "restore"
        BY <1>12 DEF Restored
    <2>2. \A e \in Entry \ abandoned : coming'[e] = coming[e] /\ strays'[e] = strays[e]
        BY <1>2, <1>12, <2>1 DEF Restored, BaseInv, TypeOK
    <2> QED
        BY <1>1, <1>12, <2>2, MovesOn DEF Restored, Lives, Same, Rest
<1>13. CASE RestoreFails \/ RestoreTimesOut
    <2>1. /\ phase = "restore"
          /\ RunsOn(With(fiber[target])) /\ warned' = warned \union {target}
        BY <1>2, <1>13 DEF RestoreFails, RestoreTimesOut, GivesUp
    <2>2. \A e \in Entry \ abandoned' : /\ e \notin abandoned
                                       /\ coming'[e] = coming[e]
                                       /\ strays'[e] = strays[e]
        BY <1>13 DEF RestoreFails, RestoreTimesOut, Abandon, TypeOK
    <2> QED
        BY <1>1, <1>2, <2>1, <2>2, RunsOnInv DEF Same, Rest
<1>14. CASE RestoreAwaited
    BY <1>1, <1>14, RunsOnInv DEF RestoreAwaited, Succeeds, Lives, Same, Rest
<1>15. CASE RestoreAwaitFails
    <2>1. phase = "restoreAwait" /\ Failed \in Lives \ {"none"}
        BY <1>15 DEF RestoreAwaitFails, BaseInv, Failed, Lives
    <2> QED
        BY <1>1, <1>15, <2>1, RunsOnInv DEF RestoreAwaitFails, GivesUp, Same, Rest
<1>16. CASE RestoreAwaitTimesOut
    <2>1. phase = "restoreAwait" /\ RunsOn(With(fiber[target]))
            /\ warned' = warned \union {target}
        BY <1>2, <1>16 DEF RestoreAwaitTimesOut, GivesUp
    <2> QED
        BY <1>1, <1>2, <1>16, <2>1, RunsOnInv DEF RestoreAwaitTimesOut, Same, Rest
<1> QED
    BY <1>3, <1>4, <1>5, <1>6, <1>7, <1>8, <1>9, <1>10, <1>11, <1>12, <1>13, <1>14,
       <1>15, <1>16 DEF ReloadStep, Rest

LEMMA FlushInv ==
    ASSUME Inv, Flush
    PROVE  GateInv' /\ QueueInv' /\ KnownInv' /\ BaseInv' /\ ReportInv'
<1> USE DEF Inv, watchVars, treeVars, fiberVars
<1>1. CASE Gated \/ bound = None
    BY <1>1 DEF Flush, queueVars, GateInv, QueueInv, KnownInv, BaseInv, ReportInv,
                Reporting
<1>2. CASE ~Gated /\ bound # None /\ phase # "idle"
    BY <1>2 DEF Flush, Enqueue, GateInv, QueueInv, KnownInv, BaseInv, ReportInv,
                Reporting
<1>3. CASE ~Gated /\ bound # None /\ phase = "idle"
    <2>1. Takes(bound, source, fiber) /\ asked' = source
        BY <1>3 DEF Flush, Enqueue
    <2>2. \/ phase' = "import" /\ target' = bound
          \/ phase' = "idle" /\ target' = None
        BY <2>1 DEF Takes, Idle
    <2>3. GateInv' /\ QueueInv'
        BY <1>3, <2>1, <2>2 DEF Flush, Takes, GateInv, QueueInv
    <2>4. KnownInv' /\ BaseInv' /\ ReportInv'
        BY <1>3, <2>2 DEF Flush, KnownInv, BaseInv, ReportInv, Reporting
    <2> QED
        BY <2>3, <2>4
<1> QED
    BY <1>1, <1>2, <1>3

LEMMA LateInv ==
    ASSUME Inv, NEW e \in Entry, LateFiber(e) \/ LateBuild(e)
    PROVE  GateInv' /\ QueueInv' /\ KnownInv' /\ BaseInv' /\ ReportInv'
<1> USE DEF Inv, watchVars, saveVars, treeVars, queueVars
<1>1. GateInv' /\ QueueInv'
    BY DEF LateFiber, LateBuild, GateInv, QueueInv
<1>2. UNCHANGED <<tree, bound, target, phase, stopping, warned>>
    BY DEF LateFiber, LateBuild
<1>3. \A d \in Entry :
        \/ fiber'[d] = fiber[d]
        \/ fiber[d] \in {"starting", "disposing"} /\ fiber'[d] # "none"
    <2>1. CASE LateFiber(e)
        <3>1. PICK life \in {"active", "failed", "disposed", "half"} :
                fiber' = [fiber EXCEPT ![e] = life]
            BY <2>1 DEF LateFiber
        <3>2. fiber[e] \in {"starting", "disposing"}
            BY <2>1 DEF LateFiber
        <3> QED
            BY <3>1, <3>2 DEF TypeOK
    <2>2. CASE LateBuild(e)
        BY <2>2 DEF LateBuild
    <2> QED
        BY <2>1, <2>2
<1>4. \A d \in {tree, bound, target} : d # None => d \in Entry
    BY DEF TypeOK
<1>5. KnownInv'
    BY <1>2, <1>3, <1>4 DEF KnownInv
<1>6. BaseInv'
    <2>1. CASE LateFiber(e)
        BY <2>1 DEF LateFiber, BaseInv, TypeOK
    <2>2. CASE LateBuild(e)
        <3>1. e \in abandoned
            BY <2>2 DEF LateBuild, BaseInv
        <3> QED
            BY <2>2, <3>1 DEF LateBuild, BaseInv, TypeOK
    <2> QED
        BY <2>1, <2>2
<1>7. ReportInv'
    BY <1>2, <1>3, <1>4 DEF ReportInv, Reporting
<1> QED
    BY <1>1, <1>5, <1>6, <1>7

LEMMA EditInv ==
    ASSUME Inv, Refresh \/ Rebuild
    PROVE  GateInv' /\ QueueInv' /\ KnownInv' /\ BaseInv' /\ ReportInv'
<1> USE DEF Inv, watchVars, saveVars, queueVars, fiberVars
<1>1. GateInv' /\ QueueInv'
    BY DEF Refresh, Rebuild, GateInv, QueueInv
<1>2. KnownInv'
    <2>1. \A e \in Entry : fiber[e] # "none" => fiber'[e] # "none"
        BY DEF Refresh, Rebuild, TornDown, TypeOK
    <2>2. \A e \in {tree, bound, target} : e # None => e \in Entry /\ fiber[e] # "none"
        BY DEF KnownInv, TypeOK
    <2>3. \A e \in {tree, bound, target} : e # None => fiber'[e] # "none"
        BY <2>1, <2>2
    <2>4. CASE Refresh
        <3>1. bound' = bound /\ target' = target
            BY <2>4 DEF Refresh
        <3>2. tree' # None => tree' = tree \/ fiber'[tree'] = "active"
            BY <2>4 DEF Refresh, TypeOK
        <3> QED
            BY <2>3, <3>1, <3>2 DEF KnownInv
    <2>5. CASE Rebuild
        <3>1. tree' = tree /\ bound' \in {tree, None} /\ target' = target
            BY <2>5 DEF Rebuild
        <3> QED
            BY <2>3, <3>1 DEF KnownInv
    <2> QED
        BY <2>4, <2>5
<1>3. BaseInv'
    BY DEF Refresh, Rebuild, BaseInv, KnownInv, TornDown, TypeOK
<1>4. ReportInv'
    <2>1. CASE Rebuild \/ (Refresh /\ UNCHANGED <<tree, fiber>>)
        BY <2>1 DEF Refresh, Rebuild, ReportInv, Reporting
    <2>2. CASE Refresh /\ tree' = None
        BY <2>2 DEF ReportInv
    <2>3. CASE tree' # None /\ fiber'[tree'] = "active"
        BY <2>3 DEF ReportInv
    <2>4. Refresh => \/ UNCHANGED <<tree, fiber>>
                     \/ tree' = None
                     \/ tree' # None /\ fiber'[tree'] = "active"
        BY DEF Refresh, TypeOK
    <2> QED
        BY <2>1, <2>2, <2>3, <2>4
<1> QED
    BY <1>1, <1>2, <1>3, <1>4

LEMMA StopInv ==
    ASSUME Inv,
           Ready \/ Stop \/ StopDisposes \/ Close \/ WatcherClosed \/ CloseReturns
    PROVE  GateInv' /\ QueueInv' /\ KnownInv' /\ BaseInv' /\ ReportInv'
<1> USE DEF Inv, watchVars, saveVars, treeVars, queueVars, fiberVars
<1>1. GateInv' /\ QueueInv'
    BY DEF Ready, Stop, StopDisposes, Close, WatcherClosed, CloseReturns, GateInv,
           QueueInv
<1>2. CASE StopDisposes
    <2>1. \A e \in Entry : fiber'[e] = fiber[e]
                           \/ (fiber[e] # "disposing" /\ fiber'[e] = "disposed")
        BY <1>2 DEF StopDisposes, TornDown, TypeOK
    <2>2. \A e \in {tree, bound, target} : e # None => e \in Entry
        BY DEF TypeOK
    <2>3. KnownInv'
        BY <1>2, <2>1, <2>2 DEF StopDisposes, KnownInv
    <2>4. BaseInv'
        BY <1>2, <2>1, <2>2 DEF StopDisposes, BaseInv, TypeOK
    <2>5. ReportInv'
        BY <1>2 DEF StopDisposes, ReportInv
    <2> QED
        BY <1>1, <2>3, <2>4, <2>5
<1>3. CASE Ready \/ Close \/ WatcherClosed \/ CloseReturns \/ Stop
    <2>1. UNCHANGED <<tree, bound, target, phase, fiber, coming, strays, abandoned, warned>>
        BY <1>3 DEF Ready, Stop, Close, WatcherClosed, CloseReturns
    <2>2. stopping => stopping'
        BY <1>3 DEF Ready, Stop, Close, WatcherClosed, CloseReturns
    <2>3. KnownInv' /\ BaseInv'
        BY <2>1 DEF KnownInv, BaseInv
    <2>4. ReportInv'
        BY <2>1, <2>2 DEF ReportInv, Reporting
    <2> QED
        BY <1>1, <2>3, <2>4
<1> QED
    BY <1>1, <1>2, <1>3

(* A reload works on its target alone, and no step takes up an entry that  *)
(* was taken out for good: a save finds it disposed.                       *)
LEMMA OrphanReload ==
    ASSUME Inv, ReloadStep
    PROVE  OrphanInv'
<1>1. UNCHANGED <<tree, orphaned>>
    BY DEF ReloadStep, Imported, ImportFails, Disposed, DisposeFails, Built, BuildFails,
           BuildTimesOut, Awaited, AwaitFails, AwaitTimesOut, Restored, RestoreFails,
           RestoreTimesOut, RestoreAwaited, RestoreAwaitFails, RestoreAwaitTimesOut,
           reloadUnchanged, treeVars
<1>2. target' \in {target, None}
    BY DEF ReloadStep, Imported, ImportFails, Disposed, DisposeFails, Built, BuildFails,
           BuildTimesOut, Awaited, AwaitFails, AwaitTimesOut, Restored, RestoreFails,
           RestoreTimesOut, RestoreAwaited, RestoreAwaitFails, RestoreAwaitTimesOut,
           TryRestore, Succeeds, GivesUp, RunsOn, Takes, Idle
<1>3. \/ fiber' = fiber \/ \E life \in Lives : fiber' = With(life)
    <2> USE DEF Lives, TryRestore, Succeeds, GivesUp, RunsOn
    <2>1. CASE AwaitFails \/ RestoreAwaitFails
        <3>1. Failed \in Lives
            BY <2>1 DEF AwaitFails, RestoreAwaitFails, Inv, TypeOK, Failed
        <3> QED
            BY <2>1, <3>1 DEF AwaitFails, RestoreAwaitFails
    <2> QED
        BY <2>1 DEF ReloadStep, Imported, ImportFails, Disposed, DisposeFails, Built,
               BuildFails, BuildTimesOut, Awaited, AwaitTimesOut, Restored,
               RestoreFails, RestoreTimesOut, RestoreAwaited, RestoreAwaitTimesOut
<1>4. \A e \in Entry : e # target => fiber'[e] = fiber[e]
    BY <1>3 DEF With, Inv, TypeOK
<1> QED
    BY <1>1, <1>2, <1>4 DEF Inv, OrphanInv

LEMMA OrphanStep ==
    ASSUME Inv, [Next]_vars
    PROVE  OrphanInv'
<1> USE DEF Inv, OrphanInv, watchVars, saveVars, treeVars, queueVars, fiberVars
<1>1. CASE Flush
    <2>1. UNCHANGED <<tree, orphaned, fiber, bound>>
        BY <1>1 DEF Flush
    <2>2. \/ target' \in {target, None}
          \/ target' = bound /\ bound # None /\ fiber[bound] # "disposed"
        BY <1>1 DEF Flush, Enqueue, Takes, Idle, UidPresent
    <2>3. bound # None => bound \in Entry /\ fiber[bound] # "none"
        BY DEF KnownInv, TypeOK
    <2> QED
        BY <2>1, <2>2, <2>3
<1>2. CASE Refresh
    <2>1. target' = target
        BY <1>2 DEF Refresh
    <2>2. CASE UNCHANGED <<tree, fiber, orphaned>>
        BY <2>1, <2>2
    <2>3. CASE /\ tree # None /\ tree' = None
               /\ fiber' = TornDown(tree)
               /\ orphaned' = IF Orphans(tree) THEN orphaned \union {tree} ELSE orphaned
        <3>1. tree \in Entry /\ fiber[tree] \in Lives
            BY <2>3 DEF TypeOK
        <3>2. \A e \in Entry : e # tree => fiber'[e] = fiber[e]
            BY <2>3 DEF TornDown, TypeOK
        <3>3. Orphans(tree) \/ (target # tree /\ fiber'[tree] \in {"none", "disposed"})
            BY <2>3, <3>1 DEF TornDown, TypeOK, Orphans, Lives
        <3> QED
            BY <2>1, <2>3, <3>1, <3>2, <3>3
    <2>4. CASE /\ tree = None
               /\ \E e \in Entry : /\ fiber[e] = "none"
                                   /\ tree' = e
                                   /\ fiber' = [fiber EXCEPT ![e] = "active"]
               /\ UNCHANGED orphaned
        BY <2>1, <2>4 DEF TypeOK
    <2> QED
        BY <1>2, <2>2, <2>3, <2>4 DEF Refresh
<1>3. CASE StopDisposes
    BY <1>3 DEF StopDisposes, TornDown, TypeOK
<1>4. ASSUME NEW e \in Entry, LateFiber(e) \/ LateBuild(e)
      PROVE  OrphanInv'
    <2>1. UNCHANGED <<tree, orphaned, target>>
        BY <1>4 DEF LateFiber, LateBuild
    <2>2. \A d \in Entry : fiber'[d] = fiber[d] \/ fiber[d] \in {"starting", "disposing"}
        BY <1>4 DEF LateFiber, LateBuild, TypeOK
    <2> QED
        BY <2>1, <2>2
<1>5. CASE UNCHANGED <<tree, orphaned, target, fiber>>
    BY <1>5
<1> QED
    BY <1>1, <1>2, <1>3, <1>4, <1>5, OrphanReload
       DEF Next, vars, Save, Rebuild, Ready, Stop, Close, WatcherClosed, CloseReturns

LEMMA InvStep == Inv /\ [Next]_vars => Inv'
<1> SUFFICES ASSUME Inv, [Next]_vars PROVE Inv'
    OBVIOUS
<1>1. TypeOK'
    BY TypeStep DEF Inv
<1>2. GateInv' /\ QueueInv' /\ KnownInv' /\ BaseInv' /\ ReportInv'
    <2>1. CASE Save
        BY <2>1 DEF Save, watchVars, treeVars, queueVars, fiberVars, Inv, GateInv,
                    QueueInv, KnownInv, BaseInv, ReportInv, Reporting
    <2>2. CASE UNCHANGED vars
        BY <2>2 DEF vars, watchVars, saveVars, treeVars, queueVars, fiberVars, Inv,
                    GateInv, QueueInv, KnownInv, BaseInv, ReportInv, Reporting
    <2> QED
        BY <2>1, <2>2, FlushInv, ReloadStepInv, LateInv, EditInv, StopInv DEF Next
<1> QED
    BY <1>1, <1>2, OrphanStep DEF Inv

LEMMA InvHolds == Spec => []Inv
<1>1. Init => Inv
    <2>1. Init => GateInv /\ QueueInv /\ KnownInv /\ BaseInv /\ ReportInv
        BY BoundsAssumption
           DEF Init, GateInv, QueueInv, KnownInv, BaseInv, ReportInv, Reporting
    <2>2. Init => OrphanInv
        BY DEF Init, OrphanInv
    <2> QED
        BY <2>1, <2>2, TypeInit DEF Inv
<1> QED
    BY <1>1, InvStep, PTL DEF Spec

(* A plugin runs twice only behind an abandoned build (dev-reload.ts       *)
(* 277-281 and 292-342), or when its entry was taken out while a reload    *)
(* worked on it or had left it half torn: never because a reload built     *)
(* over a fiber that was up, half torn or still being disposed, and never  *)
(* because a save was tried on an entry that is gone.                      *)
THEOREM OneFiber == Spec => []PluginRunsOnce
BY InvHolds, InvImplies, PTL

(* A plugin that a reload left dead was reported (dev-reload.ts 26-32).    *)
THEOREM DeathIsReported == Spec => []NoSilentDeath
BY InvHolds, InvImplies, PTL

(* A queue at rest has tried the last save (dev-watch.ts 399-429).         *)
THEOREM NoSaveIsLost == Spec => []LastSaveIsTried
BY InvHolds, InvImplies, PTL

(* Behind close() there is no reload (dev-watch.ts 293-311).               *)
THEOREM QuietWhenClosed == Spec => []ClosedIsQuiet
BY InvHolds, InvImplies, PTL

=============================================================================
