------------------------------ MODULE MCServices ------------------------------
(***************************************************************************)
(* Parts of the system that share no state, checked side by side: the      *)
(* menus of the tray, the file capability, the global shortcuts, the web   *)
(* view, the start of a host, the services of the shell and its main       *)
(* window.  `part` says which one a behaviour is about; the others stay as *)
(* they begin, so that the states of the run are the sum of theirs and     *)
(* each part is checked as it would be alone.                              *)
(***************************************************************************)
EXTENDS Shortcuts, Face, MainWindow, HandsFiles, HostStart, ShellServices, Integers

CONSTANTS
    Ids, CorePrefixed, HostPrefixed, Commands, Labels, MaxGroups, MaxItems, MaxDepth,
    MaxArgs, MaxInteger, Payloads, Samples, MaxFailures

(* "" sorts first and is malformed; so is "over", whose command is, too.   *)
MCIds ==
    <<"core.app.quit.force", "core.app.quit.graceful", "core.app.restart.graceful",
      "core.controls", "core.devtools.open", "core.host.mine", "core.host.reload",
      "core.host.restart", "core.host.start", "core.host.stop.graceful",
      "core.webview.reload", "core.window.close", "core.window.show",
      "a", "b", "c", "g", "h", "m", "n", "r", "s", "t", "u", "w">>
MCCorePrefixed == {MCIds[i] : i \in 1..13}
MCHostPrefixed == {MCIds[i] : i \in 6..10}
MCCommands ==
    {"go", "window.show", "window.close", "webview.reload", "devtools.open",
     "host.start", "host.stop.graceful", "host.restart", "host.reload",
     "app.restart.graceful", "app.quit.graceful", "app.quit.force"}
MCLabels ==
    {"A", "B", "Show", "Close", "ReloadWeb", "DevTools", "Start", "Stop",
     "Restart", "Reload", "RestartApp", "Quit", "ForceQuit"}

To(target, command, args, confirm) ==
    [target |-> target, command |-> command, args |-> args, confirm |-> confirm]
Go == To("host", "go", 1, FALSE)

Item(id, order, label, visible, action) ==
    [kind |-> "action", id |-> id, order |-> order, label |-> label,
     enabled |-> TRUE, visible |-> visible, action |-> action]
Tick(is, id, order, checked, radio, visible) ==
    [kind |-> is, id |-> id, order |-> order, label |-> "A", enabled |-> TRUE,
     visible |-> visible, checked |-> checked, radio |-> radio, action |-> Go]
Sep(id, order) ==
    [kind |-> "separator", id |-> id, order |-> order, visible |-> TRUE]
Sub(id, order, label, visible, items) ==
    [kind |-> "submenu", id |-> id, order |-> order, label |-> label,
     enabled |-> TRUE, visible |-> visible, items |-> items]

NoLabel == "none"  \* as in TrayMenu

Group(id, order, label, visible, source, items) ==
    [id |-> id, order |-> order, label |-> label, visible |-> visible,
     source |-> source, items |-> items]
Payload(number, groups) ==
    [schema |-> 1, generation |-> number, revision |-> 1, groups |-> groups]
One(items) == Payload(0, <<Group("g", 1, NoLabel, TRUE, "host", items)>>)

(* Items that are in order, and items that are not.                        *)
Good ==
    {Item("a", 2, "A", TRUE, Go), Item("b", 1, "A", TRUE, Go),
     Item("c", 1, "A", FALSE, Go), Sep("s", 0), Sep("t", 2), Sep("u", 3),
     Tick("radio", "r", 2, TRUE, "w", TRUE), Tick("radio", "n", 2, TRUE, "w", FALSE),
     Sub("m", 2, "A", TRUE, <<>>),
     Sub("m", 2, "A", TRUE, <<Sep("w", 0), Item("h", 1, "A", TRUE, Go)>>),
     Sub("m", 1, "A", TRUE, <<Sep("w", 0)>>),
     Sub("m", 2, "A", FALSE, <<Item("h", 1, "A", TRUE, Go)>>)}
Bad ==
    {Item("a", 0, "", TRUE, Go), Item("", 0, "A", TRUE, Go),
     Item("core.host.start", 0, "A", TRUE, Go),
     Item("core.window.show", 0, "A", TRUE, To("host", "go", 0, TRUE)),
     Item("a", 0, "A", TRUE, To("app", "app.quit.force", 0, FALSE)),
     Item("a", 0, "A", TRUE, To("core", "host.start", 0, FALSE)),
     Item("a", 0, "A", TRUE, To("host", "over", 0, FALSE)),
     Item("a", 0, "A", TRUE, To("host", "go", 17, FALSE)),
     Tick("check", "a", 0, TRUE, "w", TRUE), Tick("radio", "a", 0, TRUE, NoLabel, TRUE),
     Tick("radio", "b", 0, TRUE, "w", TRUE),
     Sub("m", 0, "A", TRUE, <<Sub("n", 0, "A", TRUE, <<Sub("w", 0, "A", TRUE, <<>>)>>)>>)}

MCSamples ==
    {One(items) : items \in UNION {[1..n -> Good] : n \in 1..3}}
      \cup {One(<<item>>) : item \in Bad}
      \cup {One(<<item, other>>) : item \in Good, other \in Bad}

Switch(checked, label) ==
    One(<<Tick("check", "c", 1, checked, NoLabel, TRUE), Sep("s", 2),
          Sub("m", 3, label, TRUE, <<Item("a", 1, label, TRUE, Go)>>)>>)

Sections(number, label) ==
    Payload(number,
        <<Group("g", 1, label, TRUE, "plugin", <<Item("a", 1, "A", TRUE, To("host", "go", 1, TRUE))>>),
          Group("h", 0, "", TRUE, "host", <<Item("b", 1, "A", TRUE, Go)>>)>>)

MCPayloads ==
    {Payload(0, <<>>), Switch(TRUE, "A"), Switch(FALSE, "B"),
     One(<<Item("core.host.mine", 1, "A", TRUE, Go)>>),
     Sections(2, "A"), Sections(1, "B"),
     Payload(0, <<Group("g", 1, NoLabel, TRUE, "core",
                         <<Item("a", 0, "A", TRUE, To("app", "app.quit.force", 0, FALSE))>>)>>),
     Payload(0, <<Group("core.controls", 1, NoLabel, TRUE, "host",
                         <<Item("a", 0, "A", TRUE, Go)>>)>>),
     Payload(0, <<Group("g", 1, NoLabel, TRUE, "host", <<>>),
                   Group("g", 2, NoLabel, TRUE, "host", <<>>)>>),
     [Payload(0, <<>>) EXCEPT !.schema = 2], Payload(MaxInteger + 1, <<>>),
     [schema |-> 1, generation |-> 0, revision |-> 0]}
      \cup {One(<<Item("core.window.show", 0, "A", TRUE, To("host", "go", 0, TRUE))>>),
            One(<<Item("a", 0, "A", TRUE, To("app", "app.quit.force", 0, FALSE))>>)}

(* A chunk of one byte in each of its carriers, and what is no chunk.      *)
MCCarriers ==
    {[shape |-> shape, entries |-> entries] :
        shape \in {"text", "Buffer", "map", "list", "number"},
        entries \in [{0} -> {"byte", "large", "none"}] \cup [{1} -> {"byte"}]}

MCDirectories == {<<>>, <<"good", "bad", "good">>, <<"bad", "good", "good", "good">>}

(* A checkout whose bun is on PATH, and every other machine: a shim with   *)
(* and without the binary behind it, a bundle that is whole or is not.     *)
Checkout ==
    [hostBin |-> "unset", hostDir |-> "unset", dev |-> TRUE, resources |-> {},
     entries |-> {"checkout"}, bun |-> FALSE, home |-> FALSE, path |-> <<{"bun"}>>,
     cwd |-> TRUE]
MCMachines ==
    [hostBin : {"unset", "bad", "good"}, hostDir : {"unset", "bad", "good"}, dev : BOOLEAN,
     resources : SUBSET {"host", "host-triple", "cordis.yml"},
     entries : SUBSET {"checkout", "override"}, bun : {FALSE}, home : BOOLEAN,
     path : {<<>>, <<{"bun.cmd"}, {"bun"}>>, <<{}, {"bun.cmd", "behind a shim"}>>},
     cwd : {TRUE}]
      \cup {Checkout, [Checkout EXCEPT !.bun = TRUE], [Checkout EXCEPT !.cwd = FALSE]}

(* Every name of four fragments and separators.                            *)
Fragments == {"_", "API", "KEY", "PAT", "H", "PUBLIC", "TOKEN"}
MCEnvironments ==
    {[name \in {n} |-> value] : n \in UNION {[1..k -> Fragments] : k \in 1..4},
                                value \in {"value", "not utf-8"}}
      \cup {[name \in names |-> "value"] : names \in SUBSET {<<"HOME">>, <<"USERPROFILE">>}}

\* What the host sends, its groups and their fields.
ValidKeys ==
    [frame |-> {"schemaVersion", "port", "token", "hostVersion", "runtime", "host", "paths", "capacity"},
     runtime |-> {"bunVersion", "nodeVersion"}, host |-> {"platform", "arch", "mode"},
     paths |-> {"cwd", "execPath"}, capacity |-> {"capturedAtMs", "cpuCount", "totalMemBytes"}]
ValidFrame ==
    [schemaVersion |-> 1, port |-> 8080, token |-> "64 hex", hostVersion |-> 5,
     bunVersion |-> 5, nodeVersion |-> 5, cwd |-> 9, execPath |-> 9,
     platform |-> "linux", arch |-> "x64", mode |-> "source", cpuCount |-> 4,
     totalMem |-> "some", keys |-> ValidKeys, extra |-> [entries |-> 0, key |-> "camelCase", value |-> "scalar"]]
Ready(frame) == [kind |-> "ready", frame |-> frame]
Exit(code)   == [kind |-> "exit", code |-> code]
Sent ==
    {[kind |-> "none"], [kind |-> "malformed"], Ready(ValidFrame), Ready([ValidFrame EXCEPT !.port = 0])}
MCFrames ==
    {[ValidFrame EXCEPT !.schemaVersion = 2], [ValidFrame EXCEPT !.token = "short"],
     [ValidFrame EXCEPT !.hostVersion = 65], [ValidFrame EXCEPT !.bunVersion = 65],
     [ValidFrame EXCEPT !.cwd = 0], [ValidFrame EXCEPT !.platform = "win32"],
     [ValidFrame EXCEPT !.arch = "ia32"], [ValidFrame EXCEPT !.mode = "dev"],
     [ValidFrame EXCEPT !.cpuCount = 0], [ValidFrame EXCEPT !.totalMem = "unsafe"],
     [ValidFrame EXCEPT !.keys.frame = @ \cup {"extra"}], [ValidFrame EXCEPT !.keys.frame = @ \cup {"pid"}],
     [ValidFrame EXCEPT !.keys.host = @ \cup {"pid"}], [ValidFrame EXCEPT !.keys.paths = @ \ {"cwd"}],
     [ValidFrame EXCEPT !.extra.entries = MaxExtraEntries],
     [ValidFrame EXCEPT !.extra.entries = MaxExtraEntries + 1],
     [ValidFrame EXCEPT !.extra = [entries |-> 1, key |-> "bad-key", value |-> "scalar"]],
     [ValidFrame EXCEPT !.extra = [entries |-> 1, key |-> "camelCase", value |-> "object"]]}
MCScripts ==
    {<<Ready(frame)>> : frame \in MCFrames}
      \cup {<<one, other>> \o end : one \in Sent, other \in Sent,
               end \in {<<>>, <<Exit("stdio lost")>>, <<Exit("restart")>>, <<Exit("crash")>>}}
      \cup {<<>>, <<Exit("stdio lost")>>, <<Exit("crash")>>}

(* What the tray shows: items of the shell, and one of the host.           *)
MCActions ==
    LET Does(target, command, confirm) ==
            [target |-> target, command |-> command, confirm |-> confirm]
    IN  [id \in {"core.window.show", "core.window.close", "core.webview.reload",
                 "core.host.restart", "core.app.restart.graceful", "core.app.quit.force", "mine"} |->
            CASE id = "core.window.show"    -> Does("core", "window.show", FALSE)
              [] id = "core.window.close"   -> Does("core", "window.close", FALSE)
              [] id = "core.webview.reload" -> Does("core", "webview.reload", FALSE)
              [] id = "core.host.restart"   -> Does("core", "host.restart", FALSE)
              [] id = "core.app.restart.graceful" -> Does("app", "app.restart.graceful", FALSE)
              [] id = "core.app.quit.force" -> Does("app", "app.quit.force", TRUE)
              [] id = "mine"                -> Does("host", "go", TRUE)]

(* A scheme of the application's own, and each way to be no such thing.    *)
OwnScheme ==
    [name |-> "own", lowered |-> "own", prefix |-> "none", length |-> 3,
     first |-> "letter", rest |-> "scheme chars"]
MCSchemes ==
    {OwnScheme, [OwnScheme EXCEPT !.name = "VRCX", !.lowered = "vrcx"],
     [OwnScheme EXCEPT !.name = "ExeFile", !.lowered = "exefile"],
     [OwnScheme EXCEPT !.name = "ms-settings", !.lowered = "ms-settings", !.prefix = "ms-"],
     [OwnScheme EXCEPT !.name = "*", !.lowered = "*", !.first = "other"],
     [OwnScheme EXCEPT !.name = "", !.lowered = "", !.length = 0],
     [OwnScheme EXCEPT !.rest = "others"], [OwnScheme EXCEPT !.length = MaxSchemeLen + 1]}
Request(op, arg) == [op |-> op, arg |-> arg]
MCDialogs ==
    {Request("dialog.message", "other"), Request("dialog.ask", "yesNo")}
      \cup {Request("dialog.pickFile", flags) : flags \in {{}, {"directory"}, {"save", "directory"}, {"directory", "multiple"}}}
MCRequests ==
    MCDialogs
      \cup {Request("autostart.setEnabled", arg) :
               arg \in {[is |-> "bool", bool |-> TRUE], [is |-> "bool", bool |-> FALSE], [is |-> "text"]}}
      \cup {Request("deepLink.register", scheme) : scheme \in MCSchemes}
      \cup {Request("deepLink.isRegistered", OwnScheme), Request("autostart.isEnabled", "none"),
            Request("clipboard.writeText", "a text"), Request("clipboard.readText", "none"),
            Request("pass", "none"), Request("facts", "none"), Request("app.exit", "none"),
            Request("window", "hide"), Request("window", "minimize")}

MCPanelRequests ==
    {Request("dialog.ask", "yesNo"), Request("dialog.pickFile", {"directory", "multiple"}),
     Request("notify", "a title"), Request("secondInstance", "none"), Request("unparsable", "none")}

-----------------------------------------------------------------------------
VARIABLES
    part,
    phase, cache, menu, torn, failures, dialogs   \* of TrayShell

Menus == INSTANCE TrayShell

menusVars == <<phase, cache, menu, torn, failures, dialogs>>

NoWord == [name \in {<<"H">>} |-> "value"]

MCInit ==
    /\ part \in {"menus", "hands", "keys", "view", "launch", "hello", "start", "shell", "window"}
    /\ machine \in CASE part = "launch" -> MCMachines
                    [] part = "hello"  -> {Checkout, [Checkout EXCEPT !.cwd = FALSE]}
                    [] OTHER           -> {Checkout}
    /\ environment \in IF part = "hello" THEN MCEnvironments ELSE {NoWord}
    /\ host \in IF part = "start" THEN [script : MCScripts, code : {"running"}]
                ELSE {[script |-> <<>>, code |-> "running"]}
    /\ IF part = "hands" THEN HandsInit ELSE Begins(Gone, "file", 0, <<>>, TRUE)
    /\ ShellInit
    /\ part # "shell" => ~system.autostart /\ system.desktop
    /\ Menus!Init /\ Init /\ FaceInit /\ Unstarted /\ WindowInit

MCNext ==
    /\ UNCHANGED part
    /\ \/ /\ part = "menus" /\ Menus!Next
          /\ UNCHANGED <<vars, handsVars, faceVars, startVars, shellVars, windowVars>>
       \/ /\ part = "hands" /\ HandsNext
          /\ UNCHANGED <<vars, menusVars, faceVars, startVars, shellVars, windowVars>>
       \/ /\ part = "keys" /\ Next
          /\ UNCHANGED <<menusVars, handsVars, faceVars, startVars, shellVars, windowVars>>
       \/ /\ part = "view" /\ FaceNext
          /\ UNCHANGED <<vars, menusVars, handsVars, startVars, shellVars, windowVars>>
       \/ /\ part = "shell" /\ ShellNext
          /\ UNCHANGED <<vars, menusVars, handsVars, faceVars, startVars, windowVars>>
       \/ /\ part = "start" /\ StartNext
          /\ UNCHANGED <<vars, menusVars, handsVars, faceVars, shellVars, windowVars>>
       \/ /\ part \in {"launch", "hello"} /\ StartHostProcess
          /\ UNCHANGED <<vars, menusVars, handsVars, faceVars, shellVars, windowVars>>
       \/ /\ part = "window" /\ WindowNext
          /\ UNCHANGED <<vars, menusVars, handsVars, faceVars, startVars, shellVars>>

MCSpec ==
    MCInit /\ [][MCNext]_<<part, vars, menusVars, handsVars, faceVars, startVars, shellVars, windowVars>>

-----------------------------------------------------------------------------
(* A merged menu has what was visible and what the core owns, in order; a  *)
(* menu that was updated in place is the one that would be built; and the  *)
(* core's items stay, and stay the core's.                                 *)
MenusAreSound == part = "menus" => Menus!NormalizeIsSound /\ Menus!NativeShowsTheMenu /\ Menus!CoreOwnsItsItems
=============================================================================
