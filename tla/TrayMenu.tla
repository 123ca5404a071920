------------------------------ MODULE TrayMenu ------------------------------
(***************************************************************************)
(* The declarative tray menu of the shell: what a snapshot must satisfy    *)
(* (src-tauri/src/tray_model.rs, tray_schema.rs), how the menu of the host *)
(* is merged with the core menu and the phase of the host projected onto   *)
(* it (tray.rs), how a menu becomes native objects that later menus update *)
(* in place (tray_renderer.rs), and where a click goes (tray.rs).          *)
(*                                                                         *)
(* These are operators on menus, which are trees, so this module is for    *)
(* TLC alone.  An id is a string that sorts by its place in Ids; a label,  *)
(* a command or an id that is not in its set is malformed.                 *)
(*                                                                         *)
(* Mut... definitions are mistakes this code could contain, in the place   *)
(* of the definition that follows them.                                    *)
(***************************************************************************)
EXTENDS Integers, Sequences, SequencesExt, FiniteSets, HostLifecycle

CONSTANTS
    Ids,          \* the well-formed ids, a sequence in their lexical order
    CorePrefixed, \* the ids that begin with "core."
    HostPrefixed, \* the ids that begin with "core.host."
    Commands,     \* the well-formed command names of the host's items
    Labels,       \* the labels that are neither empty nor too long
    MaxGroups,    \* MAX_GROUPS
    MaxItems,     \* MAX_ITEMS
    MaxDepth,     \* MAX_DEPTH
    MaxArgs,      \* the 16 arguments of validate_action
    MaxInteger    \* MAX_SAFE_INTEGER

NoLabel == "none"
IdSet   == {Ids[i] : i \in DOMAIN Ids}
Rank    == [id \in IdSet |-> CHOOSE i \in DOMAIN Ids : Ids[i] = id]

IsSeparator(item) == item.kind = "separator"
IsSubmenu(item)   == item.kind = "submenu"
HasAction(item)   == item.kind \in {"action", "check", "radio"}

(* The items of a menu with those below them, each beside its depth, in    *)
(* the order validate_items and update_items visit them.                   *)
RECURSIVE Walk(_, _, _)
Walk(items, depth, source) ==
    IF items = <<>> THEN <<>>
    ELSE <<[item |-> Head(items), depth |-> depth, source |-> source]>>
           \o (IF IsSubmenu(Head(items))
               THEN Walk(Head(items).items, depth + 1, source) ELSE <<>>)
           \o Walk(Tail(items), depth, source)

RECURSIVE WalkGroups(_)
WalkGroups(groups) ==
    IF groups = <<>> THEN <<>>
    ELSE Walk(Head(groups).items, 1, Head(groups).source)
           \o WalkGroups(Tail(groups))

ItemsOf(groups) == ToSet(WalkGroups(groups))

-----------------------------------------------------------------------------
(* Validation. *)

ActionIsValid(action, source) ==
    /\ (source = "core") = (action.target # "host")
    /\ action.command \in Commands
    /\ action.args <= MaxArgs
    /\ action.target # "host" => action.args = 0

ItemIsValid(item, depth, source) ==
    /\ depth <= MaxDepth
    /\ item.id \in IdSet
    /\ ~IsSeparator(item) => item.label \in Labels
    /\ HasAction(item) => ActionIsValid(item.action, source)
    /\ item.kind = "check" => item.radio = NoLabel
    /\ item.kind = "radio" => item.radio \in IdSet
    /\ IsSubmenu(item) => depth < MaxDepth

IsValid(snapshot) ==
    LET groups  == snapshot.groups
        walk    == WalkGroups(groups)
        ids     == [g \in DOMAIN groups |-> groups[g].id]
                      \o [i \in DOMAIN walk |-> walk[i].item.id]
        checked == {i \in DOMAIN walk : /\ walk[i].item.kind = "radio"
                                        /\ walk[i].item.checked
                                        /\ walk[i].item.visible}
    IN
    /\ snapshot.schema = 1
    /\ snapshot.generation <= MaxInteger /\ snapshot.revision <= MaxInteger
    /\ Len(groups) <= MaxGroups
    /\ Len(walk) <= MaxItems
    /\ \A g \in DOMAIN groups :
          /\ groups[g].id \in IdSet
          /\ groups[g].source # "core" => groups[g].id \notin CorePrefixed
          /\ groups[g].label \in Labels \cup {NoLabel, ""}
    /\ IsInjective(ids)
    /\ \A i \in DOMAIN walk : ItemIsValid(walk[i].item, walk[i].depth, walk[i].source)
    /\ \A i, j \in checked : walk[i].item.radio = walk[j].item.radio => i = j

-----------------------------------------------------------------------------
(* Normalisation: what is invisible or empty goes, what is left is sorted, *)
(* and separators only separate.                                           *)

Before(a, b) ==
    a.order < b.order \/ (a.order = b.order /\ Rank[a.id] <= Rank[b.id])

Separates(items, i) ==
    /\ \E j \in 1..(i - 1) : ~IsSeparator(items[j])
    /\ \E j \in (i + 1)..Len(items) : ~IsSeparator(items[j])
    /\ ~IsSeparator(items[i - 1])

MutTrimSeparators(items) ==
    SelectSeq(items, LAMBDA item : ~IsSeparator(item) \/ item # items[1])

TrimSeparators(items) ==
    LET Kept(e) == ~IsSeparator(e.item) \/ Separates(items, e.at)
        kept == SelectSeq([i \in DOMAIN items |-> [at |-> i, item |-> items[i]]], Kept)
    IN [k \in DOMAIN kept |-> kept[k].item]

RECURSIVE NormalizeItems(_)
NormalizeItems(items) ==
    LET deep == [i \in DOMAIN items |->
                    IF IsSubmenu(items[i])
                    THEN [items[i] EXCEPT !.items = NormalizeItems(@)]
                    ELSE items[i]]
        Shown(item) == item.visible /\ (IsSubmenu(item) => item.items # <<>>)
    IN TrimSeparators(SortSeq(SelectSeq(deep, Shown), Before))

NormalizeGroups(groups) ==
    LET deep == [g \in DOMAIN groups |->
                    [groups[g] EXCEPT !.items = NormalizeItems(@)]]
        Shown(group) == group.visible /\ group.items # <<>>
    IN SortSeq(SelectSeq(deep, Shown), Before)

Normalize(snapshot) == [snapshot EXCEPT !.groups = NormalizeGroups(@)]

-----------------------------------------------------------------------------
(* The core menu, and the merge with the groups of the host. *)

CoreItem(id, order, label, target, command) ==
    [kind |-> "action", id |-> id, order |-> order, label |-> label,
     enabled |-> TRUE, visible |-> TRUE,
     action |-> [target |-> target, command |-> command, args |-> 0,
                 confirm |-> command = "app.quit.force"]]

(* In the order of the code.  The item core.devtools.open is declared by   *)
(* debug builds only; the build that is modelled has it.                   *)
CoreItems ==
    <<CoreItem("core.window.show", 0, "Show", "core", "window.show"),
      CoreItem("core.window.close", 10, "Close", "core", "window.close"),
      CoreItem("core.webview.reload", 20, "ReloadWeb", "core", "webview.reload"),
      CoreItem("core.devtools.open", 30, "DevTools", "core", "devtools.open"),
      CoreItem("core.host.start", 40, "Start", "core", "host.start"),
      CoreItem("core.host.stop.graceful", 50, "Stop", "core", "host.stop.graceful"),
      CoreItem("core.host.restart", 60, "Restart", "core", "host.restart"),
      CoreItem("core.host.reload", 70, "Reload", "core", "host.reload"),
      CoreItem("core.app.restart.graceful", 100, "RestartApp", "app", "app.restart.graceful"),
      CoreItem("core.app.quit.graceful", 110, "Quit", "app", "app.quit.graceful"),
      CoreItem("core.app.quit.force", 120, "ForceQuit", "app", "app.quit.force")>>

MaxOrder == 1000  \* i32::MAX

CoreSnapshot ==
    [schema |-> 1, generation |-> 0, revision |-> 0,
     groups |-> <<[id |-> "core.controls", order |-> MaxOrder, label |-> NoLabel,
                   visible |-> TRUE, source |-> "core", items |-> CoreItems]>>]

HostCommandOf ==
    [c \in {"host.start", "host.stop.graceful", "host.restart", "host.reload"} |->
        CASE c = "host.start"         -> "Start"
          [] c = "host.stop.graceful" -> "GracefulStop"
          [] c = "host.restart"       -> "Restart"
          [] c = "host.reload"        -> "Reload"]

(* The table host_command_enabled keeps beside the reducer's own.          *)
HostCommandEnabled(phase, command) ==
    \/ command = "host.start"         /\ phase \in {"Stopped", "Failed", "Backoff"}
    \/ command = "host.stop.graceful" /\ phase \in {"Starting", "Ready", "Backoff"}
    \/ command = "host.restart"
         /\ phase \in {"Stopped", "Failed", "Backoff", "Ready"}
    \/ command = "host.reload"        /\ phase = "Ready"

(* Every action item with such an id is projected, also one the host sent. *)
RECURSIVE ProjectItems(_, _)
ProjectItems(items, phase) ==
    [i \in DOMAIN items |->
        CASE items[i].kind = "action" /\ items[i].id \in HostPrefixed ->
               [items[i] EXCEPT
                   !.enabled = HostCommandEnabled(phase, items[i].action.command)]
          [] IsSubmenu(items[i]) ->
               [items[i] EXCEPT !.items = ProjectItems(@, phase)]
          [] OTHER -> items[i]]

Projected(snapshot, phase) ==
    [snapshot EXCEPT !.groups = [g \in DOMAIN @ |->
        [@[g] EXCEPT !.items = ProjectItems(@, phase)]]]

(* merged_snapshot: valid or not, and the menu when it is.                 *)
Unmerged(groups, phase) ==
    Projected([CoreSnapshot EXCEPT !.groups = @ \o groups], phase)
Merges(groups, phase) == IsValid(Unmerged(groups, phase))
Merged(groups, phase) == Normalize(Unmerged(groups, phase))

(* The wire shape and the whole of validate_host_snapshot.                 *)
WireShapeIsValid(payload) ==
    "groups" \in DOMAIN payload /\ payload.generation <= MaxInteger
                                /\ payload.revision <= MaxInteger
HostSnapshotIsValid(payload) ==
    /\ WireShapeIsValid(payload)
    /\ \A g \in DOMAIN payload.groups : payload.groups[g].source # "core"
    /\ IsValid(payload)

-----------------------------------------------------------------------------
(* Native objects.  A native menu is a tree of entries; only the entries   *)
(* of items are registered by id, and only those are updated in place.     *)

NativeSeparator == [native |-> "separator"]

RECURSIVE BuildItems(_)
BuildItems(items) ==
    [i \in DOMAIN items |->
        LET item == items[i] IN
        CASE IsSeparator(item) -> NativeSeparator
          [] item.kind = "action" ->
               [native |-> "item", id |-> item.id, text |-> item.label,
                enabled |-> item.enabled]
          [] item.kind \in {"check", "radio"} ->
               [native |-> "check", id |-> item.id, text |-> item.label,
                enabled |-> item.enabled, checked |-> item.checked]
          [] IsSubmenu(item) ->
               [native |-> "submenu", id |-> item.id, text |-> item.label,
                enabled |-> item.enabled, items |-> BuildItems(item.items)]]

(* A labelled group is a submenu that is not in the registry of handles.   *)
BuildGroup(group) ==
    IF group.label \notin {NoLabel, ""}
    THEN <<[native |-> "section", id |-> group.id, text |-> group.label,
            items |-> BuildItems(group.items)]>>
    ELSE BuildItems(group.items)

RECURSIVE BuildGroups(_)
BuildGroups(groups) ==
    IF Len(groups) <= 1 THEN (IF groups = <<>> THEN <<>> ELSE BuildGroup(Head(groups)))
    ELSE BuildGroup(Head(groups)) \o <<NativeSeparator>> \o BuildGroups(Tail(groups))

BuildMenu(snapshot) == BuildGroups(snapshot.groups)

ItemKind(item) == item.kind

RECURSIVE SameItems(_, _)
SameItems(left, right) ==
    /\ Len(left) = Len(right)
    /\ \A i \in DOMAIN left :
          /\ left[i].id = right[i].id /\ ItemKind(left[i]) = ItemKind(right[i])
          /\ left[i].order = right[i].order
          /\ left[i].visible = right[i].visible
          /\ IsSubmenu(left[i]) => SameItems(left[i].items, right[i].items)

SameGroup(left, right) ==
    /\ left.id = right.id /\ left.order = right.order
    /\ left.label = right.label /\ left.source = right.source
    /\ left.visible = right.visible
    /\ SameItems(left.items, right.items)

SameStructure(left, right) ==
    /\ Len(left.groups) = Len(right.groups)
    /\ \A g \in DOMAIN left.groups : SameGroup(left.groups[g], right.groups[g])

(* NativeHandle::update of one entry.                                      *)
UpdateEntry(entry, item) ==
    CASE entry.native \in {"item", "submenu"} ->
           [entry EXCEPT !.text = item.label, !.enabled = item.enabled]
      [] entry.native = "check" ->
           [entry EXCEPT !.text = item.label, !.enabled = item.enabled,
                         !.checked = item.checked]

(* update_items: the entries whose items are in `items` are updated.       *)
RECURSIVE UpdateEntries(_, _)
UpdateEntries(entries, items) ==
    [i \in DOMAIN entries |->
        LET entry == entries[i]
            mine  == IF entry.native \in {"separator", "section"} THEN {}
                     ELSE {item \in items : item.id = entry.id}
            own   == IF mine = {} THEN entry
                     ELSE UpdateEntry(entry, CHOOSE item \in mine : TRUE)
        IN IF "items" \in DOMAIN own
           THEN [own EXCEPT !.items = UpdateEntries(@, items)] ELSE own]

(* The items whose update has been tried when the n-th one fails.          *)
UpdatedBefore(snapshot, n) ==
    LET handled == SelectSeq(WalkGroups(snapshot.groups),
                             LAMBDA e : ~IsSeparator(e.item))
    IN {handled[i].item : i \in {j \in DOMAIN handled : j < n}}

UpdateNative(native, snapshot) ==
    UpdateEntries(native, {e.item : e \in ItemsOf(snapshot.groups)})

-----------------------------------------------------------------------------
(* Clicks. *)

(* action_entry: the label and the action of a rendered id.                *)
ActionEntries(snapshot, id) ==
    {e.item : e \in {d \in ItemsOf(snapshot.groups) :
                        HasAction(d.item) /\ d.item.id = id}}

(* dispatch_menu_action: who is given the action.                          *)
Owner(action) ==
    CASE action.target = "host" -> "relay"
      [] action.target = "core"
           /\ action.command \in {"window.show", "window.close",
                                  "webview.reload", "devtools.open"} -> "window"
      [] action.target = "core" /\ action.command \in DOMAIN HostCommandOf -> "host"
      [] action.target = "app"
           /\ action.command \in {"app.restart.graceful", "app.quit.graceful",
                                  "app.quit.force"} -> "app"
      [] OTHER -> "refused"
=============================================================================
