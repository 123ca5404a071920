---------------------------- MODULE PluginReload ----------------------------
(***************************************************************************)
(* Reloading a plugin whose source was saved (host/src/dev-watch.ts and    *)
(* dev-reload.ts).  Saves are collected and queued for the plugin's entry; *)
(* one run of the queue at a time imports the new code, disposes the old   *)
(* fiber, builds the new one and waits for it, and goes back to the old    *)
(* code when that fails.  Every phase has a timeout, which abandons the    *)
(* phase and does not cancel it.  Beside it the configuration may be       *)
(* edited, which replaces entries, and the host may stop.                  *)
(*                                                                         *)
(* The module is about one entry id.  The queues of two ids share nothing  *)
(* but the gates.  The include tree may give an id to one Entry object     *)
(* after the other.  What a phase does (the plugin's own code, and Cordis) *)
(* is external: it may succeed, fail, or take longer than its timeout.     *)
(*                                                                         *)
(* Mut... definitions are mistakes this code could contain, in the place   *)
(* of the definition that follows them.                                    *)
(***************************************************************************)
EXTENDS Naturals

CONSTANTS
    Objects,   \* bound: the Entry objects of the id are 1..Objects
    MaxSaves,  \* bound: how often the source is saved
    MaxEdits   \* bound: how often the configuration is edited

ASSUME BoundsAssumption ==
    Objects \in Nat \ {0} /\ MaxSaves \in Nat /\ MaxEdits \in Nat

None  == 0  \* no Entry object
Entry == 1..Objects

VARIABLES
    watch,      \* the watcher: scanning, ready, then the steps of close()
    stopping,   \* ctx.signal.stopping
    source,     \* how often the source was saved
    fsPending,  \* saves wait for the debounce timer
    tree,       \* the Entry object that the include tree has for the id
    bound,      \* the one that the bindings have
    edits,      \* how often the configuration was edited
    settling,   \* refreshes that wait for the tree, their bindings not rebuilt
    orphaned,   \* history: entries taken out of the tree while they were reloaded
    pending,    \* the queue has paths
    asked,      \* history: the last save that was queued
    tried,      \* history: the last save that a run took from the queue
    phase,      \* where the run is; "idle" when the queue does not run
    target,     \* the Entry object the run was started for
    fiber,      \* the life of each entry's fiber
    coming,     \* fibers of each entry that are built, but for nobody
    strays,     \* and those of them that came up
    abandoned,  \* history: entries a build of which was abandoned
    warned      \* history: entries last reported as restart-required or timeout

watchVars == <<watch, stopping>>
saveVars  == <<source, fsPending>>
treeVars  == <<tree, bound, edits, settling, orphaned>>
queueVars == <<pending, asked, tried, phase, target>>
fiberVars == <<fiber, coming, strays, abandoned, warned>>
vars == <<watchVars, saveVars, treeVars, queueVars, fiberVars>>

Closed == watch \in {"closing", "waiting", "closed"}
Gated  == Closed \/ stopping

(* A fiber that is being disposed, or failed to be, may have its uid yet.  *)
UidNull(life)    == life \in {"disposed", "disposing", "half"}
UidPresent(life) == life # "disposed"

(* entry.options.disabled is set for as long as the old fiber is disposed. *)
Disabled(e) == phase = "dispose" /\ target = e

-----------------------------------------------------------------------------
(* The queue (runQueue, reloadOnce, and the first lines of                 *)
(* reloadPluginEntry).                                                     *)

(* The run settles, and q.running is cleared.                              *)
Idle == phase' = "idle" /\ target' = None

(* A run takes all paths, up to save v, from the queue of entry e.  It     *)
(* skips them if e is no longer the bound entry or has no fiber.           *)
Takes(e, v, lives) ==
    /\ tried' = v /\ pending' = FALSE
    /\ \/ bound = e /\ UidPresent(lives[e]) /\ phase' = "import" /\ target' = e
       \/ bound # e /\ Idle
       \/ UidNull(lives[e]) /\ Idle

MutRunsOn(lives) ==
    /\ fiber' = lives
    /\ Idle /\ pending' = FALSE
    /\ UNCHANGED <<asked, tried>>

(* The reload is over.  The run goes on with what was queued meanwhile.    *)
RunsOn(lives) ==
    /\ fiber' = lives
    /\ IF pending /\ ~Gated THEN Takes(target, asked, lives)
                            ELSE Idle /\ UNCHANGED <<pending, tried>>
    /\ UNCHANGED asked

(* reloaded, restored-old: a fiber is up.                                  *)
Succeeds(lives) ==
    /\ warned' = warned \ {target}
    /\ RunsOn(lives)

(* restart-required, timeout: it may not be.                               *)
GivesUp(lives) ==
    /\ warned' = warned \union {target}
    /\ RunsOn(lives)

With(life) == [fiber EXCEPT ![target] = life]

-----------------------------------------------------------------------------
(* Saves (handleFsEvent, flushFs, enqueueReload, kickQueue).               *)

Save ==
    /\ watch = "ready" /\ ~stopping /\ source < MaxSaves
    /\ source' = source + 1
    /\ fsPending' = TRUE
    /\ UNCHANGED <<watchVars, treeVars, queueVars, fiberVars>>

(* A path that is queued while a run is in flight is left to that run.     *)
Enqueue ==
    /\ asked' = source
    /\ IF phase = "idle" THEN Takes(bound, source, fiber)
                         ELSE pending' = TRUE /\ UNCHANGED <<tried, phase, target>>

(* The debounce timer.  A path that no binding has is unowned.             *)
Flush ==
    /\ fsPending
    /\ fsPending' = FALSE
    /\ IF Gated \/ bound = None THEN UNCHANGED queueVars ELSE Enqueue
    /\ UNCHANGED <<watchVars, source, treeVars, fiberVars>>

-----------------------------------------------------------------------------
(* Phase A of reloadPluginEntry.                                           *)

reloadUnchanged == <<watchVars, saveVars, treeVars>>

(* The old fiber is disposed as soon as the new code is a plugin.          *)
Imported ==
    /\ phase = "import"
    /\ phase' = "dispose"
    /\ fiber' = With(IF fiber[target] = "disposed" THEN "disposed" ELSE "disposing")
    /\ UNCHANGED <<reloadUnchanged, pending, asked, tried, target, coming, strays,
                   abandoned, warned>>

(* An error, a module that is no plugin, and a timeout alike: kept-old.    *)
ImportFails ==
    /\ phase = "import"
    /\ RunsOn(fiber)
    /\ UNCHANGED <<reloadUnchanged, coming, strays, abandoned, warned>>

-----------------------------------------------------------------------------
(* Phase B: the old fiber is disposed, the new one built and awaited.      *)

Disposed ==
    /\ phase = "dispose"
    /\ phase' = "build"
    /\ fiber' = With("disposed")
    /\ UNCHANGED <<reloadUnchanged, pending, asked, tried, target, coming, strays,
                   abandoned, warned>>

MutDisposeFails(life) ==
    /\ phase = "dispose"
    /\ phase' = "build"
    /\ fiber' = With(life)
    /\ UNCHANGED <<reloadUnchanged, pending, asked, tried, target, coming, strays,
                   abandoned, warned>>

(* It throws, and is half torn, or times out, and is still at it.          *)
DisposeFails(life) ==
    /\ phase = "dispose"
    /\ GivesUp(With(life))
    /\ UNCHANGED <<reloadUnchanged, coming, strays, abandoned>>

(* tryRestoreOld, up to its first await.  Without the old callback it      *)
(* fails at once.                                                          *)
TryRestore(lives) ==
    \/ /\ phase' = "restore"
       /\ fiber' = lives
       /\ UNCHANGED <<pending, asked, tried, target, warned>>
    \/ GivesUp(lives)

Built ==
    /\ phase = "build"
    /\ phase' = "await"
    /\ fiber' = With("starting")
    /\ UNCHANGED <<reloadUnchanged, pending, asked, tried, target, coming, strays,
                   abandoned, warned>>

BuildFails ==
    /\ phase = "build"
    /\ TryRestore(fiber)
    /\ UNCHANGED <<reloadUnchanged, coming, strays, abandoned>>

(* The promise is abandoned: the fiber may come up later.                  *)
Abandon ==
    /\ coming' = [coming EXCEPT ![target] = @ + 1]
    /\ abandoned' = abandoned \union {target}
    /\ UNCHANGED strays

BuildTimesOut ==
    /\ phase = "build"
    /\ Abandon
    /\ TryRestore(fiber)
    /\ UNCHANGED reloadUnchanged

(* reloaded                                                                *)
Awaited ==
    /\ phase = "await" /\ fiber[target] = "starting"
    /\ Succeeds(With("active"))
    /\ UNCHANGED <<reloadUnchanged, coming, strays, abandoned>>

(* A fiber that fails while it is awaited; a disposed one stays disposed.  *)
Failed == IF fiber[target] = "starting" THEN "failed" ELSE fiber[target]

AwaitFails ==
    /\ phase = "await"
    /\ TryRestore(With(Failed))
    /\ UNCHANGED <<reloadUnchanged, coming, strays, abandoned>>

AwaitTimesOut ==
    /\ phase = "await"
    /\ TryRestore(fiber)
    /\ abandoned' = abandoned \union {target}
    /\ UNCHANGED <<reloadUnchanged, coming, strays>>

-----------------------------------------------------------------------------
(* The rest of tryRestoreOld.                                              *)

(* entry.fiber is now the restored fiber.  One that was abandoned when its *)
(* await timed out is nobody's from here.                                  *)
Restored ==
    /\ phase = "restore"
    /\ phase' = "restoreAwait"
    /\ fiber' = With("starting")
    /\ coming' = IF fiber[target] = "starting"
                 THEN [coming EXCEPT ![target] = @ + 1] ELSE coming
    /\ strays' = IF fiber[target] = "active"
                 THEN [strays EXCEPT ![target] = @ + 1] ELSE strays
    /\ UNCHANGED <<reloadUnchanged, pending, asked, tried, target, abandoned, warned>>

MutRestoreFails ==
    /\ phase = "restore"
    /\ Succeeds(fiber)
    /\ UNCHANGED <<reloadUnchanged, coming, strays, abandoned>>

RestoreFails ==
    /\ phase = "restore"
    /\ GivesUp(fiber)
    /\ UNCHANGED <<reloadUnchanged, coming, strays, abandoned>>

MutRestoreTimesOut == FALSE /\ UNCHANGED vars

RestoreTimesOut ==
    /\ phase = "restore"
    /\ Abandon
    /\ GivesUp(fiber)
    /\ UNCHANGED reloadUnchanged

(* restored-old                                                            *)
RestoreAwaited ==
    /\ phase = "restoreAwait" /\ fiber[target] = "starting"
    /\ Succeeds(With("active"))
    /\ UNCHANGED <<reloadUnchanged, coming, strays, abandoned>>

RestoreAwaitFails ==
    /\ phase = "restoreAwait"
    /\ GivesUp(With(Failed))
    /\ UNCHANGED <<reloadUnchanged, coming, strays, abandoned>>

RestoreAwaitTimesOut ==
    /\ phase = "restoreAwait"
    /\ GivesUp(fiber)
    /\ abandoned' = abandoned \union {target}
    /\ UNCHANGED <<reloadUnchanged, coming, strays>>

TimesOut ==
    \/ ImportFails \/ DisposeFails("disposing") \/ BuildTimesOut \/ AwaitTimesOut
    \/ RestoreTimesOut \/ RestoreAwaitTimesOut

-----------------------------------------------------------------------------
(* What was abandoned goes on.                                             *)

(* The entry's own fiber, with nobody waiting for it.                      *)
LateFiber(e) ==
    /\ target # e \/ phase \notin {"dispose", "await", "restoreAwait"}
    /\ \/ fiber[e] = "starting"
          /\ \E life \in {"active", "failed"} : fiber' = [fiber EXCEPT ![e] = life]
       \/ fiber[e] = "disposing"
          /\ \E life \in {"disposed", "half"} : fiber' = [fiber EXCEPT ![e] = life]
    /\ UNCHANGED <<watchVars, saveVars, treeVars, queueVars, coming, strays,
                   abandoned, warned>>

(* A fiber that is not the entry's.                                        *)
LateBuild(e) ==
    /\ coming[e] > 0
    /\ coming' = [coming EXCEPT ![e] = @ - 1]
    /\ \/ strays' = [strays EXCEPT ![e] = @ + 1]
       \/ UNCHANGED strays
    /\ UNCHANGED <<watchVars, saveVars, treeVars, queueVars, fiber, abandoned, warned>>

-----------------------------------------------------------------------------
(* Edits of the configuration (refreshConfig, rebuildBindings).            *)

TornDown(e) ==
    IF fiber[e] \in {"starting", "active", "failed"}
    THEN [fiber EXCEPT ![e] = "disposed"] ELSE fiber

(* The teardown of an entry finds no fiber that is up, or not the one that *)
(* the run in flight will build.                                           *)
Orphans(e) == target = e \/ fiber[e] \in {"disposing", "half"}

(* include.refresh(): the edit is about another entry, takes this one out, *)
(* or puts a new one in.  Nobody tells a run that it works for an entry    *)
(* that is gone.                                                           *)
Refresh ==
    /\ watch = "ready" /\ ~stopping /\ edits < MaxEdits
    /\ edits' = edits + 1
    /\ settling' = settling + 1
    /\ \/ UNCHANGED <<tree, fiber, orphaned>>
       \/ /\ tree # None /\ tree' = None
          /\ fiber' = TornDown(tree)
          /\ orphaned' = IF Orphans(tree) THEN orphaned \union {tree} ELSE orphaned
       \/ /\ tree = None
          /\ \E e \in Entry : /\ fiber[e] = "none"
                              /\ tree' = e
                              /\ fiber' = [fiber EXCEPT ![e] = "active"]
          /\ UNCHANGED orphaned
    /\ UNCHANGED <<watchVars, saveVars, bound, queueVars, coming, strays, abandoned,
                   warned>>

(* Once the tree has settled the bindings are those of its enabled entries.*)
Rebuild ==
    /\ settling > 0
    /\ settling' = settling - 1
    /\ bound' = IF tree # None /\ Disabled(tree) THEN None ELSE tree
    /\ UNCHANGED <<watchVars, saveVars, tree, edits, orphaned, queueVars, fiberVars>>

-----------------------------------------------------------------------------
(* Start and stop (start, close, attachDevWatch).                          *)

Ready ==
    /\ watch = "scanning"
    /\ watch' = "ready"
    /\ UNCHANGED <<stopping, saveVars, treeVars, queueVars, fiberVars>>

(* The shutdown signal begins.                                             *)
Stop ==
    /\ ~stopping
    /\ stopping' = TRUE
    /\ UNCHANGED <<watch, saveVars, treeVars, queueVars, fiberVars>>

(* gracefulStop disposes the plugins, this one among them.                 *)
StopDisposes ==
    /\ stopping /\ tree # None /\ ~Closed
    /\ fiber[tree] \in {"starting", "active", "failed"}
    /\ fiber' = TornDown(tree)
    /\ UNCHANGED <<watchVars, saveVars, treeVars, queueVars, coming, strays,
                   abandoned, warned>>

(* The root's disposer, the last: the timers are cleared.                  *)
Close ==
    /\ stopping /\ ~Closed
    /\ watch' = "closing"
    /\ fsPending' = FALSE
    /\ UNCHANGED <<stopping, source, treeVars, queueVars, fiberVars>>

MutWatcherClosed ==
    /\ watch = "closing"
    /\ watch' = "closed"
    /\ UNCHANGED <<stopping, saveVars, treeVars, queueVars, fiberVars>>

WatcherClosed ==
    /\ watch = "closing"
    /\ watch' = "waiting"
    /\ UNCHANGED <<stopping, saveVars, treeVars, queueVars, fiberVars>>

(* The run in flight is over, and the queues are cleared.                  *)
CloseReturns ==
    /\ watch = "waiting" /\ phase = "idle"
    /\ watch' = "closed"
    /\ pending' = FALSE
    /\ UNCHANGED <<stopping, saveVars, treeVars, asked, tried, phase, target, fiberVars>>

-----------------------------------------------------------------------------
Init ==
    /\ watch = "scanning" /\ stopping = FALSE
    /\ source = 0 /\ fsPending = FALSE
    /\ tree = 1 /\ bound = 1 /\ edits = 0 /\ settling = 0 /\ orphaned = {}
    /\ pending = FALSE /\ asked = 0 /\ tried = 0 /\ phase = "idle" /\ target = None
    /\ fiber = [e \in Entry |-> IF e = 1 THEN "active" ELSE "none"]
    /\ coming = [e \in Entry |-> 0] /\ strays = [e \in Entry |-> 0]
    /\ abandoned = {} /\ warned = {}

ReloadStep ==
    \/ Imported \/ ImportFails
    \/ Disposed \/ (\E life \in {"half", "disposing"} : DisposeFails(life))
    \/ Built \/ BuildFails \/ BuildTimesOut
    \/ Awaited \/ AwaitFails \/ AwaitTimesOut
    \/ Restored \/ RestoreFails \/ RestoreTimesOut
    \/ RestoreAwaited \/ RestoreAwaitFails \/ RestoreAwaitTimesOut

Next ==
    \/ Save \/ Flush
    \/ ReloadStep
    \/ \E e \in Entry : LateFiber(e) \/ LateBuild(e)
    \/ Refresh \/ Rebuild
    \/ Ready \/ Stop \/ StopDisposes \/ Close \/ WatcherClosed \/ CloseReturns

Spec == Init /\ [][Next]_vars

(* The event loop goes on: timers fire and settled promises are noticed.   *)
(* Nothing is assumed of a plugin's code.                                  *)
Fairness == WF_vars(TimesOut) /\ WF_vars(WatcherClosed) /\ WF_vars(CloseReturns)

FairSpec == Spec /\ Fairness

-----------------------------------------------------------------------------
Lives == {"none", "starting", "active", "failed", "disposing", "half", "disposed"}

(* The variables have their types, and the queue runs for one of the       *)
(* entry's objects, if it runs.                                            *)
TypeOK ==
    /\ watch \in {"scanning", "ready", "closing", "waiting", "closed"}
    /\ stopping \in BOOLEAN /\ fsPending \in BOOLEAN /\ pending \in BOOLEAN
    /\ source \in 0..MaxSaves /\ asked \in 0..source /\ tried \in 0..asked
    /\ edits \in 0..MaxEdits /\ settling \in 0..edits
    /\ tree \in Entry \union {None} /\ bound \in Entry \union {None}
    /\ phase \in {"idle", "import", "dispose", "build", "await", "restore",
                  "restoreAwait"}
    /\ IF phase = "idle" THEN target = None ELSE target \in Entry
    /\ fiber \in [Entry -> Lives]
    /\ coming \in [Entry -> Nat] /\ strays \in [Entry -> Nat]
    /\ abandoned \subseteq Entry /\ warned \subseteq Entry /\ orphaned \subseteq Entry

(* The fibers of an entry that run code, or may do so yet.                 *)
Count(b) == IF b THEN 1 ELSE 0

Alive(e) ==
    Count(fiber[e] \in {"starting", "active", "disposing", "half"})
        + Count(target = e /\ phase \in {"build", "restore"}) + coming[e] + strays[e]

(* A plugin runs once: the entry that the configuration has is alive at    *)
(* most once, and one that it had before is not, unless the entry was      *)
(* taken out while a reload worked on it or had left it half torn.  It may *)
(* run twice, in any entry a build of which was abandoned.  Nothing is     *)
(* built beside a fiber that is up or half torn (dev-reload.ts 278-281:    *)
(* "Do not rebuild over it").                                              *)
PluginRunsOnce ==
    \A e \in Entry \ abandoned : Alive(e) <= Count(e = tree \/ e \in orphaned)

(* A plugin that a reload left dead was reported as such, and has not been *)
(* reported as running since (dev-reload.ts 26-32), whatever was saved or  *)
(* edited meanwhile.                                                       *)
NoSilentDeath ==
    tree # None /\ target # tree /\ ~stopping
        /\ fiber[tree] \notin {"starting", "active"}
    => tree \in warned

(* No save is left in the queue, or dropped from it, when the queue comes  *)
(* to rest (dev-watch.ts 399-404: "a path added while a run is in flight   *)
(* is picked up by that run").                                             *)
LastSaveIsTried ==
    phase = "idle" /\ ~stopping => tried = asked

(* When close() has returned no reload is in flight, and none starts       *)
(* (dev-watch.ts 18-22): the plugins may be torn down behind it.           *)
ClosedIsQuiet ==
    watch = "closed" => phase = "idle"

(* Once the host stops, close() returns: every phase of a reload ends, the *)
(* ones of a restore included.                                             *)
CloseEnds == watch = "closing" ~> watch = "closed"

(* A plugin that is configured and runs has its binding when nothing is in *)
(* flight (dev-watch.ts 177: "Refresh the entry->binding index from the    *)
(* current include tree"): a save of its source reloads it.                *)
BoundWhileConfigured ==
    phase = "idle" /\ settling = 0 /\ ~stopping
        /\ tree # None /\ fiber[tree] = "active"
    => bound = tree

=============================================================================
