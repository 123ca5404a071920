---------------------------- MODULE ShellServices ----------------------------
(***************************************************************************)
(* The services the shell offers the host over the link (shell_sys.rs),    *)
(* the reading of their options (dialog_opts.rs), and the panel that       *)
(* exercises the same dialogs for a developer (smoke.rs).                  *)
(*                                                                         *)
(* The host's requests are served one after another on the thread that     *)
(* reads its link: while the user looks at a dialog, everything behind it  *)
(* waits.  The panel's dialogs have threads of their own.                  *)
(*                                                                         *)
(* Services that only pass a call on and its outcome back (notify, open,   *)
(* reveal, the dev-watch event) are one request here, "pass", and those    *)
(* that only tell of the system and the application are "facts".  A scheme *)
(* is a record of what its checks look at: its name as it is spelled and   *)
(* in lower case, its length, and its kinds of characters.                 *)
(*                                                                         *)
(* Mut... definitions are mistakes this code could contain, in the place   *)
(* of the definition that follows them.                                    *)
(***************************************************************************)
EXTENDS Naturals, Sequences

CONSTANTS
    Requests,        \* what the host may ask: [op, arg]
    PanelRequests,   \* what the panel may
    MaxSchemeLen,
    MaxRequests,     \* bound: requests of the host
    MaxPanel,        \* bound: actions of the panel
    MaxOutside       \* bound: changes by others

\* A flag that is a boolean is one, and a scheme's prefix is its name's.
ShellBounds ==
    /\ MaxRequests \in Nat /\ MaxPanel \in Nat /\ MaxOutside \in Nat
    /\ \A request \in Requests :
          /\ request.op = "autostart.setEnabled" /\ request.arg.is = "bool" =>
                request.arg.bool \in BOOLEAN
          /\ request.op = "deepLink.register" /\ request.arg.lowered = "ms-settings" =>
                request.arg.prefix = "ms-"
ASSUME ShellAssumption == ShellBounds

Null      == [kind |-> "null"]
NoRequest == [kind |-> "nothing"]

VARIABLES
    line,       \* requests on the link, in order
    asked,      \* how many there were, and of the panel
    reader,     \* the request whose dialog the reader waits for
    panel,      \* and the panel's
    system,     \* what the system has: [autostart, schemes, clipboard], whether
                \* the build is a desktop's, and whether its exit was asked for
    outside,    \* changes by others
    reply       \* the last answer: [to, verdict, chose, before, after]

shellVars == <<line, asked, reader, panel, system, outside, reply>>

ShellInit ==
    /\ line = <<>> /\ asked = [host |-> 0, panel |-> 0]
    /\ reader = NoRequest /\ panel = NoRequest
    /\ system \in [autostart : BOOLEAN, schemes : {{}}, clipboard : {Null}, desktop : BOOLEAN,
              exiting : {FALSE}]
    /\ system.autostart => system.desktop
    /\ outside = 0
    /\ reply = NoRequest

-----------------------------------------------------------------------------
(* Dialogs.                                                                *)

Buttons(set) ==
    CASE set = "okCancel"    -> {"ok", "cancel"}
      [] set = "yesNo"       -> {"yes", "no"}
      [] set = "yesNoCancel" -> {"yes", "no", "cancel"}
      [] OTHER               -> {"ok"}            \* message_buttons: missing or unknown

\* save wins over every combination.
PickMode(flags) ==
    CASE "save" \in flags -> "save"
      [] "save" \notin flags /\ {"directory", "multiple"} \subseteq flags -> "folders"
      [] "save" \notin flags /\ "directory" \in flags /\ "multiple" \notin flags -> "folder"
      [] "save" \notin flags /\ "directory" \notin flags /\ "multiple" \in flags -> "files"
      [] OTHER -> "file"

Dialogs == {"dialog.message", "dialog.ask", "dialog.pickFile"}

\* A build without folders to pick answers at once, and shows nothing.
NeverShown(request) ==
    /\ request.op = "dialog.pickFile"
    /\ ~system.desktop /\ PickMode(request.arg) \in {"folders", "folder"}

\* What the user may do with a dialog.
Outcomes(request) ==
    IF request.op = "dialog.pickFile" THEN {"cancel", "path", "file url", "uri"}
    ELSE Buttons(request.arg)

\* file_path_to_json: a path where there is one, the uri itself otherwise.
FilePathToJson(picked) == IF picked = "uri" THEN "uri" ELSE "path"

DialogAnswer(request, outcome) ==
    CASE request.op = "dialog.message" -> [kind |-> "bool", is |-> outcome \in {"ok", "yes"}]
      [] request.op = "dialog.ask"     -> [kind |-> "label", is |-> outcome]
      [] request.op = "dialog.pickFile" /\ outcome = "cancel" -> Null
      [] request.op = "dialog.pickFile" /\ outcome # "cancel" ->
            [kind |-> IF PickMode(request.arg) \in {"folders", "files"} THEN "list" ELSE "one",
             is   |-> FilePathToJson(outcome)]

-----------------------------------------------------------------------------
(* Requests that change the system.                                        *)

Ok      == [kind |-> "verdict", ok |-> TRUE]
Refused == [kind |-> "verdict", ok |-> FALSE]

(* The argument is not coerced: of two opposite guesses none is right.     *)
MutAutostartFlag(arg) == IF arg.is = "bool" THEN arg ELSE [is |-> "bool", bool |-> FALSE]

AutostartFlag(arg) == IF arg.is = "bool" THEN arg ELSE NoRequest

(* validate_deep_link_scheme, over the names its two lists stand for here. *)
ReservedSchemes  == {"http", "vrchat", "vrcx"}
RegistryClasses  == {"exefile", "directory"}

\* Schemes and the registry's classes know no case.
ValidScheme(scheme) ==
    /\ scheme.length \in 1..MaxSchemeLen
    /\ scheme.first = "letter"
    /\ scheme.rest = "scheme chars"
    /\ scheme.lowered \notin ReservedSchemes \union RegistryClasses
    /\ scheme.prefix # "ms-"

Reply(request, verdict, chose) ==
    reply' = [to |-> request, verdict |-> verdict, chose |-> chose,
              before |-> system, after |-> system']
Replies(request, verdict) == Reply(request, verdict, "nothing")

\* The system may refuse whatever it is asked.
SetEnabled(request) ==
    LET wanted == AutostartFlag(request.arg) IN
    \/ /\ wanted # NoRequest
       /\ system' = [system EXCEPT !.autostart = wanted.bool]
       /\ Replies(request, Ok)
    \/ UNCHANGED system /\ Replies(request, Refused)

RegisterScheme(request) ==
    \/ /\ ValidScheme(request.arg)
       /\ system' = [system EXCEPT !.schemes = @ \union {request.arg.lowered}]
       /\ Replies(request, Ok)
    \/ UNCHANGED system /\ Replies(request, Refused)

WriteText(request) ==
    \/ /\ system' = [system EXCEPT !.clipboard = [kind |-> "text", is |-> request.arg]]
       /\ Replies(request, Ok)
    \/ UNCHANGED system /\ Replies(request, Refused)

\* Nothing to read, or a read that fails, is not the empty text.
ReadText(request) ==
    /\ UNCHANGED system
    /\ Replies(request, system.clipboard) \/ Replies(request, Null)

IsEnabled(request) ==
    /\ UNCHANGED system
    /\ \E seen \in {system.autostart, FALSE} : Replies(request, [kind |-> "bool", is |-> seen])

IsRegistered(request) ==
    /\ UNCHANGED system
    /\ \E seen \in {request.arg.lowered \in system.schemes, FALSE} :
          Replies(request, [kind |-> "bool", is |-> seen])

PassOn(request) ==
    /\ UNCHANGED system
    /\ \E worked \in BOOLEAN : Replies(request, [kind |-> "bool", is |-> worked])

Facts(request) == UNCHANGED system /\ Replies(request, [kind |-> "facts"])

\* The window may be gone, and may refuse.
DesktopWindowActions == {"minimize", "maximize", "unmaximize"}
WindowAction(request) == PassOn(request)

\* What follows an exit is HostSupervisor's; the reader goes on until then.
AppExit(request) ==
    /\ system' = [system EXCEPT !.exiting = TRUE]
    /\ Replies(request, [kind |-> "bool", is |-> TRUE])

\* A route that a build leaves out is an unknown method there.
DesktopOnly(request) ==
    \/ request.op \in {"autostart.isEnabled", "autostart.setEnabled",
                      "deepLink.register", "deepLink.isRegistered"}
    \/ request.op = "window" /\ request.arg \in DesktopWindowActions

Handle(request) ==
    IF ~system.desktop /\ DesktopOnly(request)
    THEN UNCHANGED system /\ Replies(request, [kind |-> "unknown method"])
    ELSE CASE request.op = "autostart.setEnabled"  -> SetEnabled(request)
           [] request.op = "autostart.isEnabled"   -> IsEnabled(request)
           [] request.op = "deepLink.register"     -> RegisterScheme(request)
           [] request.op = "deepLink.isRegistered" -> IsRegistered(request)
           [] request.op = "clipboard.writeText"   -> WriteText(request)
           [] request.op = "clipboard.readText"    -> ReadText(request)
           [] request.op = "pass"                  -> PassOn(request)
           [] request.op = "facts"                 -> Facts(request)
           [] request.op = "window"                -> WindowAction(request)
           [] request.op = "app.exit"              -> AppExit(request)
           [] OTHER -> UNCHANGED system /\ Replies(request, Null)     \* NeverShown

-----------------------------------------------------------------------------
Ask ==
    /\ asked.host < MaxRequests
    /\ \E request \in Requests :
          /\ line' = Append(line, request)
          /\ asked' = [asked EXCEPT !.host = @ + 1]
    /\ UNCHANGED <<reader, panel, system, outside, reply>>

(* The reader: a frame, whole, or the dialog it opens.                     *)
ServeNext ==
    /\ reader = NoRequest /\ line # <<>>
    /\ line' = Tail(line)
    /\ IF Head(line).op \in Dialogs /\ ~NeverShown(Head(line))
       THEN reader' = Head(line) /\ UNCHANGED <<system, reply>>
       ELSE Handle(Head(line)) /\ UNCHANGED reader
    /\ UNCHANGED <<asked, panel, outside>>

(* blocking_show returns.                                                  *)
ReaderDialogEnds ==
    /\ reader # NoRequest
    /\ UNCHANGED system
    /\ \E outcome \in Outcomes(reader) : Reply(reader, DialogAnswer(reader, outcome), outcome)
    /\ reader' = NoRequest
    /\ UNCHANGED <<line, asked, panel, outside>>

(* The panel.  What it asks for comes from the web view, and is parsed     *)
(* first; whatever becomes of it, there is a report.                       *)
ParseAction(request) == request.op \in Dialogs \cup {"notify", "secondInstance"}

Capability(request) ==
    CASE request.op \in Dialogs       -> "dialog"
      [] request.op = "notify"         -> "notification"
      [] request.op = "secondInstance" -> "single-instance"
      [] OTHER                         -> "unknown"

SmokeReport(request, ok, value) ==
    [kind |-> "report", capability |-> Capability(request), ok |-> ok, value |-> value]

Failed(request) == SmokeReport(request, FALSE, NoRequest)

\* A notification, and a second process, which may not start.
AsksAtOnce(request) ==
    \/ Replies(request, SmokeReport(request, TRUE, request.arg))
    \/ Replies(request, Failed(request))

\* A dialog leaves the event loop, on which it could never be answered.
PanelRuns ==
    /\ panel = NoRequest /\ asked.panel < MaxPanel
    /\ asked' = [asked EXCEPT !.panel = @ + 1]
    /\ UNCHANGED system
    /\ \E request \in PanelRequests :
          CASE request.op \in Dialogs /\ ~NeverShown(request) ->
                  panel' = request /\ UNCHANGED reply
            [] request.op \in Dialogs /\ NeverShown(request) ->
                  Replies(request, SmokeReport(request, TRUE, Null)) /\ UNCHANGED panel
            [] request.op \in {"notify", "secondInstance"} ->
                  AsksAtOnce(request) /\ UNCHANGED panel
            [] ~ParseAction(request) ->
                  Replies(request, Failed(request)) /\ UNCHANGED panel
    /\ UNCHANGED <<line, reader, outside>>

\* A cancel is an outcome; only a task that did not finish is a failure.
PanelDialogEnds ==
    /\ panel # NoRequest
    /\ UNCHANGED system
    /\ \/ \E outcome \in Outcomes(panel) :
             Reply(panel, SmokeReport(panel, TRUE, DialogAnswer(panel, outcome)), outcome)
       \/ Replies(panel, Failed(panel))
    /\ panel' = NoRequest
    /\ UNCHANGED <<line, asked, reader, outside>>

\* The user, or another program.
Outside ==
    /\ outside < MaxOutside
    /\ outside' = outside + 1
    /\ \/ system.desktop /\ system' = [system EXCEPT !.autostart = ~@]
       \/ \E text \in {Null, [kind |-> "text", is |-> ""]} :
             system' = [system EXCEPT !.clipboard = text]
    /\ UNCHANGED <<line, asked, reader, panel, reply>>

ShellNext ==
    \/ Ask \/ ServeNext \/ ReaderDialogEnds \/ PanelRuns \/ PanelDialogEnds
    \/ Outside

ShellSpec == ShellInit /\ [][ShellNext]_shellVars

-----------------------------------------------------------------------------
ShownOf(requests) == {request \in requests : request.op \in Dialogs}
ArgsOf(op)        == {request.arg : request \in {asking \in Requests : asking.op = op}}
Systems ==
    [autostart : BOOLEAN,
     schemes   : SUBSET {scheme.lowered : scheme \in ArgsOf("deepLink.register")},
     clipboard : {Null} \cup [kind : {"text"}, is : {""} \cup ArgsOf("clipboard.writeText")],
     desktop   : BOOLEAN, exiting : BOOLEAN]

(* The values the variables take: what waits for the user is a dialog.     *)
ShellTypeOK ==
    /\ line \in Seq(Requests)
    /\ asked \in [host : 0..MaxRequests, panel : 0..MaxPanel]
    /\ reader \in ShownOf(Requests) \cup {NoRequest}
    /\ panel \in ShownOf(PanelRequests) \cup {NoRequest}
    /\ system \in Systems
    /\ outside \in 0..MaxOutside

\* What one answer says, against the system before and after it.
TrueVerdict(given) ==
    /\ given.verdict = Refused => given.after = given.before
    /\ given.to.op = "autostart.setEnabled" /\ given.verdict = Ok =>
          given.to.arg.is = "bool" /\ given.after.autostart = given.to.arg.bool
    /\ given.to.op = "deepLink.register" /\ given.verdict = Ok =>
          given.to.arg.lowered \in given.after.schemes
    /\ given.to.op = "dialog.pickFile" /\ given.verdict = Null =>
          given.chose = "cancel" \/ NeverShown(given.to)
    /\ given.verdict.kind = "report" =>
          /\ given.after = given.before
          /\ ~ParseAction(given.to) => ~given.verdict.ok
          /\ given.chose # "nothing" =>
                /\ given.verdict.ok
                /\ given.to.op = "dialog.pickFile" =>
                      (given.verdict.value = Null) = (given.chose = "cancel")
SchemesOfOthers == {"http", "vrchat", "vrcx", "exefile", "directory", "ms-settings"}

(* A verdict is what the system holds: what was granted is there as it was *)
(* asked, what was refused has changed nothing, a flag that is no boolean  *)
(* is refused, a pick is not answered as a cancel, to the panel no more    *)
(* than to the host, and no spelling of a scheme or a class that is        *)
(* somebody else's is ever taken (shell_sys.rs:61-90, 266-287, 302-312,    *)
(* dialog_opts.rs:76-92, smoke.rs:311-313, 500-511).                       *)
VerdictsAreTrue ==
    /\ reply # NoRequest => TrueVerdict(reply)
    /\ system.schemes \intersect SchemesOfOthers = {}
=============================================================================
