----------------------------- MODULE MainWindow -----------------------------
(***************************************************************************)
(* The main window of the shell and everybody who moves it (lib.rs,        *)
(* tray.rs, smoke.rs, shell_sys.rs): the user, the tray icon and its menu, *)
(* a second launch of the application, the host over the link, and the     *)
(* developer's panel, which clicks what the tray shows.  The same click    *)
(* may command the host or the application instead, which is why the panel *)
(* may only click some items; who was commanded to do what is kept, and    *)
(* what follows is HostSupervisor's.                                       *)
(*                                                                         *)
(* The event loop (the thread "main") runs one thing after another.        *)
(* Operations of other threads are carried out by it too, one by one.      *)
(*                                                                         *)
(* Mut... definitions are mistakes this code could contain, in the place   *)
(* of the definition that follows them.                                    *)
(***************************************************************************)
EXTENDS Naturals, Sequences

CONSTANTS
    Actions,   \* of each item of the tray: its target, its command, whether to confirm it
    MaxActs    \* bound: what the user, the host, the panel and others do

Threads == {"main", "redirect", "panel"}

VARIABLES
    window,     \* [visible, minimized, front]; it is there as long as the application
    rendered,   \* the items the tray shows
    surfacing,  \* of each thread that brings the window to the front: the
                \* operations to come, the outcome, and whether the window was
                \* touched by somebody else meanwhile
    prompts,    \* the items the user is asked to confirm
    intent,     \* AppLifecycle.intent
    sent,       \* what was last sent, to whom, by whom, and whether it was confirmed
    acts

windowVars == <<window, rendered, surfacing, prompts, intent, sent, acts>>

NotSurfacing == [plan |-> <<>>, outcome |-> "none", raced |-> FALSE]
Nothing == [to |-> "nobody"]

WindowInit ==
    /\ window = [visible |-> TRUE, minimized |-> FALSE, front |-> TRUE]
    /\ rendered = DOMAIN Actions
    /\ surfacing = [t \in Threads |-> NotSurfacing]
    /\ prompts = {} /\ intent = "running" /\ sent = Nothing /\ acts = 0

-----------------------------------------------------------------------------
(* What an operation makes of the window.                                  *)

Applied(op) ==
    CASE op = "show"       -> [window EXCEPT !.visible = TRUE]
      [] op = "hide"       -> [window EXCEPT !.visible = FALSE, !.front = FALSE]
      [] op = "minimize"   -> [window EXCEPT !.minimized = TRUE, !.front = FALSE]
      [] op = "unminimize" -> [window EXCEPT !.minimized = FALSE]
      [] op = "focus"      -> [window EXCEPT !.front = window.visible /\ ~window.minimized]
      [] op = "leave"      -> [window EXCEPT !.front = FALSE]
      [] OTHER             -> window       \* sizes, reload, devtools

\* The main thread runs show_main_window to its end, and nothing between.
Free(t) == t = "main" \/ surfacing["main"].plan = <<>>

Touched == [t \in Threads |-> [surfacing[t] EXCEPT !.raced = TRUE]]

\* Somebody who does not bring it to the front acts on the window.
Moves(op) ==
    /\ surfacing["main"].plan = <<>>
    /\ window' = Applied(op)
    /\ surfacing' = IF window' = window THEN surfacing ELSE Touched

-----------------------------------------------------------------------------
(* show_main_window.                                                       *)

MutFocusPlan(minimized) ==
    IF minimized THEN <<"show", "focus", "unminimize">> ELSE <<"show", "focus">>

FocusPlan(minimized) ==
    IF minimized THEN <<"show", "unminimize", "focus">> ELSE <<"show", "focus">>

\* It asks for the window and whether it is minimized, and either may fail.
ShowMainWindow(t) ==
    /\ Free(t) /\ surfacing[t].plan = <<>>
    /\ \/ surfacing' = [surfacing EXCEPT ![t] =
             [plan |-> FocusPlan(window.minimized), outcome |-> "none", raced |-> FALSE]]
       \/ surfacing' = [surfacing EXCEPT ![t] = [NotSurfacing EXCEPT !.outcome = "failed"]]
    /\ UNCHANGED window

\* An operation that fails ends it.
SurfaceStep(t) ==
    /\ Free(t) /\ surfacing[t].plan # <<>>
    /\ LET rest == Tail(surfacing[t].plan) IN
       \/ /\ window' = Applied(Head(surfacing[t].plan))
          /\ surfacing' = [surfacing EXCEPT ![t].plan = rest,
                              ![t].outcome = IF rest = <<>> THEN "ok" ELSE "none"]
       \/ /\ surfacing' = [surfacing EXCEPT ![t].plan = <<>>, ![t].outcome = "failed"]
          /\ UNCHANGED window
    /\ UNCHANGED <<rendered, prompts, intent, sent, acts>>

-----------------------------------------------------------------------------
(* dispatch_menu_action.                                                   *)

Intent(command) ==
    CASE command = "app.restart.graceful" -> "restarting"
      [] command = "app.quit.graceful"    -> "quitting"
      [] command = "app.quit.force"       -> "force quitting"

\* AppLifecycle::begin: a force quit may overtake what is under way.
MayBegin(next) == intent = "running" \/ (next = "force quitting" /\ intent # next)

\* A repeated command is under way already, and another one is rejected.
DispatchApp(by, action, confirmed) ==
    IF MayBegin(Intent(action.command))
    THEN /\ intent' = Intent(action.command)
         /\ sent' = [to |-> "app", action |-> action, by |-> by, confirmed |-> confirmed]
    ELSE UNCHANGED <<intent, sent>>

\* The verdict of the host's reducer and a relay that fails are only logged.
DispatchHost(by, action, confirmed) ==
    /\ sent' = [to |-> "host", action |-> action, by |-> by, confirmed |-> confirmed]
    /\ UNCHANGED intent

\* The panel's click runs on a thread of its own, the menu's on the event loop.
ThreadOf(by) == IF by = "panel" THEN "panel" ELSE "main"

\* A menu's reload is not an operation on the place of the window.
WindowOps == [c \in {"window.close", "webview.reload", "devtools.open"} |->
                 IF c = "window.close" THEN "hide" ELSE "none"]

DispatchMenuAction(by, id, confirmed) ==
    LET action == Actions[id] IN
    CASE action.target = "app" ->
            DispatchApp(by, action, confirmed) /\ UNCHANGED <<window, surfacing>>
      [] action.target = "core" /\ action.command = "window.show" ->
            ShowMainWindow(ThreadOf(by)) /\ UNCHANGED <<intent, sent>>
      [] action.target = "core" /\ action.command \in DOMAIN WindowOps ->
            Moves(WindowOps[action.command]) /\ UNCHANGED <<intent, sent>>
      [] OTHER ->
            DispatchHost(by, action, confirmed) /\ UNCHANGED <<window, surfacing>>

Act == acts < MaxActs /\ acts' = acts + 1

\* lookup_action: an item that is no longer rendered is no action.
LookupAction(id) == id \in rendered

\* route_menu_action: the event loop does not wait for the prompt.
RouteMenuAction(id) ==
    /\ Act /\ Free("nobody") /\ LookupAction(id)
    /\ IF Actions[id].confirm
       THEN prompts' = prompts \cup {id} /\ UNCHANGED <<window, surfacing, intent, sent>>
       ELSE DispatchMenuAction("menu", id, FALSE) /\ UNCHANGED prompts
    /\ UNCHANGED rendered

\* What was clicked is done, whatever the menu shows by now.
PromptEnds(id) ==
    /\ id \in prompts /\ Free("nobody")
    /\ prompts' = prompts \ {id}
    /\ \/ DispatchMenuAction("menu", id, TRUE)
       \/ UNCHANGED <<window, surfacing, intent, sent>>
    /\ UNCHANGED <<rendered, acts>>

IsSmokeSafeTrayId(id) == id \in {"core.window.show", "core.window.close", "core.webview.reload"}

(* core_snapshot gives these names to items of the window, and             *)
(* merged_snapshot lets nobody else have them (tray_model.rs).             *)
ASSUME SafeItemsAreTheWindows ==
    \A id \in DOMAIN Actions : IsSmokeSafeTrayId(id) =>
        /\ Actions[id].target = "core"
        /\ Actions[id].command \in {"window.show", "window.close", "webview.reload"}

\* dispatch_smoke_item: no prompt.
DispatchSmokeItem(id) ==
    /\ Act
    /\ IsSmokeSafeTrayId(id) /\ LookupAction(id)
    /\ DispatchMenuAction("panel", id, FALSE)
    /\ UNCHANGED <<rendered, prompts>>

\* The menu changes: items of the host come and go.
Refresh ==
    /\ Act
    /\ rendered' \in {{id \in DOMAIN Actions : Actions[id].target # "host"}, DOMAIN Actions}
    /\ UNCHANGED <<window, surfacing, prompts, intent, sent>>

-----------------------------------------------------------------------------
(* The tray icon, the user, a second launch, the host.                     *)

TrayClickIntent(button, edge) == button = "left" /\ edge = "up"

TrayIconEvent(button, edge) ==
    /\ Act /\ Free("nobody")
    /\ IF TrayClickIntent(button, edge) THEN ShowMainWindow("main")
       ELSE UNCHANGED <<window, surfacing>>
    /\ UNCHANGED <<rendered, prompts, intent, sent>>

\* The callback of the plugin, on its own thread where it has one.
SecondInstance ==
    /\ Act
    /\ \E t \in {"main", "redirect"} : Free("nobody") /\ ShowMainWindow(t)
    /\ UNCHANGED <<rendered, prompts, intent, sent>>

\* The main window is hidden instead of closed, and hiding may fail.
CloseRequested ==
    /\ Act
    /\ Moves("hide") \/ Moves("none")
    /\ UNCHANGED <<rendered, prompts, intent, sent>>

User ==
    /\ Act
    /\ \E op \in {"minimize", "unminimize", "leave"} : Moves(op)
    /\ UNCHANGED <<rendered, prompts, intent, sent>>

\* shell.window.*, one operation each; close is a request to close.
HostOps == {"show", "hide", "minimize", "focus"}
HostAsks ==
    /\ Act
    /\ \E op \in HostOps : Moves(op)
    /\ UNCHANGED <<rendered, prompts, intent, sent>>

WindowNext ==
    \/ \E t \in Threads : SurfaceStep(t)
    \/ \E id \in DOMAIN Actions :
          RouteMenuAction(id) \/ PromptEnds(id) \/ DispatchSmokeItem(id)
    \/ \E button \in {"left", "right"}, edge \in {"up", "down"} : TrayIconEvent(button, edge)
    \/ Refresh \/ SecondInstance \/ CloseRequested \/ User \/ HostAsks

WindowSpec == WindowInit /\ [][WindowNext]_windowVars

-----------------------------------------------------------------------------
(* Whoever asks for the window gets it: when show_main_window reports      *)
(* success it is visible, restored and in front, unless somebody moved it  *)
(* meanwhile, whoever else brings it to the front at the same time         *)
(* (tray.rs:324-345).                                                      *)
AskedWindowIsShown ==
    \A t \in Threads :
        surfacing[t].outcome = "ok" /\ ~surfacing[t].raced =>
            window.visible /\ ~window.minimized /\ window.front

(* A click in the developer's panel, which nobody confirms, never commands *)
(* the application or the host, and an item to be confirmed never does     *)
(* without its prompt (smoke.rs:16-20, tray.rs:379-387, 463-492).          *)
CommandsAreMeant ==
    sent # Nothing => sent.by = "menu" /\ (sent.action.confirm => sent.confirmed)

(* The window comes to whoever asks for it, and what is commanded from the *)
(* tray was meant.                                                         *)
WindowObeys == AskedWindowIsShown /\ CommandsAreMeant
=============================================================================
