----------------------------- MODULE TrayShell ------------------------------
(***************************************************************************)
(* The tray as the shell runs it on the menus of TrayMenu: what a pushed   *)
(* snapshot does to the cache and the menu, what a change of the host's    *)
(* phase does, how native objects are built or updated, and what a click   *)
(* leads to (src-tauri/src/tray.rs, tray_renderer.rs).                     *)
(*                                                                         *)
(* A refresh is one step here: module Tray has the threads that a refresh  *)
(* runs on, and menus that are only compared.  A native call may fail.     *)
(***************************************************************************)
EXTENDS TrayMenu

CONSTANTS
    Payloads,    \* what shell.tray.setSnapshot may be called with
    Samples,     \* more of them, for the reference check of normalize
    MaxFailures  \* bound: how often a native call fails

VARIABLES
    phase,     \* the phase of the host
    cache,     \* TrayCache: groups, generation, and whether any were accepted
    menu,      \* the renderer: its snapshot, the native menu, `applied`
    torn,      \* history: a native call failed while entries were updated,
               \* and no update or replacement has completed since
    failures,  \* how often a native call failed
    dialogs    \* the items that a confirmation dialog is open for

nativeVars == <<menu, torn, failures>>
vars == <<phase, cache, nativeVars, dialogs>>

EmptyCache == [groups |-> <<>>, accepted |-> FALSE, generation |-> 0]
FreshMenu(merged) ==
    [applied |-> merged, rendered |-> Normalize(merged),
     native |-> BuildMenu(Normalize(merged))]

(* setup: the first refresh runs before the host is started.               *)
Init ==
    /\ phase = "Stopped"
    /\ cache = EmptyCache
    /\ menu = FreshMenu(Merged(<<>>, "Stopped"))
    /\ torn = FALSE /\ failures = 0
    /\ dialogs = {}

-----------------------------------------------------------------------------
(* TrayRenderer::apply, and `applied` after it. *)

InPlace(merged) == SameStructure(menu.rendered, Normalize(merged))

Applies(merged) ==
    /\ menu' = IF InPlace(merged)
               THEN [applied |-> merged, rendered |-> Normalize(merged),
                     native |-> UpdateNative(menu.native, Normalize(merged))]
               ELSE FreshMenu(merged)
    /\ torn' = FALSE
    /\ UNCHANGED failures

(* An update in place stops at the entry that fails; a replacement is not  *)
(* put in place before it is complete.                                     *)
FailsToApply(merged) ==
    /\ failures < MaxFailures
    /\ LET shown == Normalize(merged) IN
       IF InPlace(merged)
       THEN \E n \in 1..Len(WalkGroups(shown.groups)) :
               menu' = [menu EXCEPT !.native = UpdateEntries(@, UpdatedBefore(shown, n))]
       ELSE UNCHANGED menu
    /\ torn' = (torn \/ menu'.native # menu.native)
    /\ failures' = failures + 1

(* refresh, of the cache and the phase after the step.                     *)
Refresh(groups, now) ==
    LET merged == Merged(groups, now) IN
    IF merged = menu.applied
    THEN UNCHANGED nativeVars
    ELSE Applies(merged) \/ FailsToApply(merged)

-----------------------------------------------------------------------------
(* The supervisor observes a new phase.                                    *)
PhaseChanges(now) ==
    /\ now # phase
    /\ phase' = now
    /\ Refresh(cache.groups, now)
    /\ UNCHANGED <<cache, dialogs>>

(* apply_host_snapshot.                                                    *)
Acceptable(payload) ==
    /\ HostSnapshotIsValid(payload)
    /\ Merges(NormalizeGroups(payload.groups), phase)
Stale(payload) == payload.generation > 0 /\ payload.generation < cache.generation

Larger(a, b) == IF a > b THEN a ELSE b

Accept(payload) ==
    LET groups == NormalizeGroups(payload.groups) IN
    /\ cache' = [groups |-> groups, accepted |-> TRUE,
                 generation |-> Larger(cache.generation, payload.generation)]
    /\ IF cache.accepted /\ groups = cache.groups
       THEN UNCHANGED nativeVars
       ELSE Refresh(groups, phase)

SetSnapshot(payload) ==
    /\ IF Acceptable(payload) /\ ~Stale(payload)
       THEN Accept(payload)
       ELSE UNCHANGED <<cache, nativeVars>>
    /\ UNCHANGED <<phase, dialogs>>

(* route_menu_action: what the user can click is what is natively there.   *)
RECURSIVE ClickableIds(_)
ClickableIds(entries) ==
    UNION {CASE entries[i].native \in {"item", "check"} ->
                   IF entries[i].enabled THEN {entries[i].id} ELSE {}
             [] entries[i].native \in {"submenu", "section"} ->
                   ClickableIds(entries[i].items)
             [] OTHER -> {} : i \in DOMAIN entries}

\* What does not ask, or was confirmed, goes to the Owner of the action by
\* dispatch_menu_action, whose work is not modelled here.
Click(id) ==
    \E item \in ActionEntries(menu.rendered, id) :
        /\ dialogs' = IF item.action.confirm THEN dialogs \cup {item} ELSE dialogs
        /\ UNCHANGED <<phase, cache, nativeVars>>

Answer(item) ==
    /\ dialogs' = dialogs \ {item}
    /\ UNCHANGED <<phase, cache, nativeVars>>

Next ==
    \/ \E now \in Phase : PhaseChanges(now)
    \/ \E payload \in Payloads : SetSnapshot(payload)
    \/ \E id \in ClickableIds(menu.native) : Click(id)
    \/ \E item \in dialogs : Answer(item)

Spec == Init /\ [][Next]_vars

-----------------------------------------------------------------------------
(* Properties. *)

(* A reference for normalize: the items that a menu must show, those that  *)
(* are visible with everything above them visible, separators apart.       *)
RECURSIVE VisibleItems(_)
VisibleItems(items) ==
    UNION {IF IsSubmenu(items[i]) THEN VisibleItems(items[i].items)
           ELSE IF IsSeparator(items[i]) THEN {} ELSE {items[i]}
           : i \in {j \in DOMAIN items : items[j].visible}}

VisibleActions(groups) ==
    UNION {VisibleItems(groups[g].items) : g \in {h \in DOMAIN groups : groups[h].visible}}

RECURSIVE IsTidy(_)
IsTidy(items) ==
    /\ items # <<>>
    /\ ~IsSeparator(items[1]) /\ ~IsSeparator(items[Len(items)])
    /\ \A i \in DOMAIN items :
          /\ items[i].visible
          /\ IsSubmenu(items[i]) => IsTidy(items[i].items)
          /\ i > 1 => /\ Before(items[i - 1], items[i])
                      /\ ~(IsSeparator(items[i - 1]) /\ IsSeparator(items[i]))

IdsOf(items) == {item.id : item \in items}

(* Whatever sound snapshot a shell is given first, in whatever phase, its  *)
(* menu has the core's items and every visible item that was sent, and     *)
(* nothing else, in order, without dangling separators or empty submenus;  *)
(* it is stable, as the renderer normalises what is normal already; and a  *)
(* host item of the core can be clicked exactly when the reducer of the    *)
(* lifecycle would accept its command.                                     *)
NormalizeIsSound ==
    ~cache.accepted /\ failures = 0 /\ dialogs = {} =>
        \A payload \in {p \in Samples : Acceptable(p)} :
            LET shown == Merged(NormalizeGroups(payload.groups), phase) IN
            /\ IdsOf(VisibleActions(shown.groups)) =
                  IdsOf(VisibleActions(payload.groups) \cup ToSet(CoreItems))
            /\ \A g \in DOMAIN shown.groups : IsTidy(shown.groups[g].items)
            /\ Normalize(shown) = shown
            /\ \A e \in ItemsOf(shown.groups) :
                  e.source = "core" /\ e.item.action.command \in DOMAIN HostCommandOf =>
                      e.item.enabled = Accepted(phase, HostCommandOf[e.item.action.command])

(* A menu that was updated in place is the menu that would be built: what  *)
(* same_structure does not compare is what an update sets.  Only a native  *)
(* call that failed midway may leave the two apart.                        *)
NativeShowsTheMenu == torn \/ menu.native = BuildMenu(menu.rendered)

(* Whatever the host pushes, every item of the core stays in the menu with *)
(* its own action, nothing else reaches the window, the host's process or  *)
(* the application, and what was cached merges whatever the phase: a refused   *)
(* snapshot never poisons a later refresh.                                 *)
CoreOwnsItsItems ==
    LET shown == {e.item : e \in ItemsOf(menu.rendered.groups)} IN
    /\ \A i \in DOMAIN CoreItems : \E item \in shown :
          item.id = CoreItems[i].id /\ item.action = CoreItems[i].action
    /\ \A item \in shown : HasAction(item) /\ Owner(item.action) # "relay" =>
          \E i \in DOMAIN CoreItems : item.action = CoreItems[i].action
    /\ Merges(cache.groups, phase)
=============================================================================
