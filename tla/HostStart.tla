------------------------------ MODULE HostStart ------------------------------
(***************************************************************************)
(* How one host comes up, in the detail HostSupervisor leaves out: which   *)
(* program is launched and where (resolve_host_launch of host.rs), what    *)
(* the shell says of itself first (hands_hello.rs), which ready frames it  *)
(* accepts (host_ready.rs), and how the wait for them tells a host that    *)
(* was refused from one that left and one that said nothing                *)
(* (wait_until_ready_in_state of host.rs).                                 *)
(*                                                                         *)
(* The host, the thread that reads its frames, the thread that waits and   *)
(* whoever stops the host interleave.  Mut... definitions are mistakes     *)
(* this code could contain, in the place of the definition that follows.   *)
(***************************************************************************)
EXTENDS Naturals, Sequences, FiniteSets

CONSTANTS
    Machines,         \* what the machine holds and its environment says of the launch
    Environments,     \* the other variables of the environment: name -> value
    Scripts,          \* what a host may do: frames it sends, and at last an exit code
    MaxExtraEntries   \* entries of the open slot of a ready frame

\* What hosts do: calls of ready, and exits.
Steps  == UNION {{script[i] : i \in DOMAIN script} : script \in Scripts}
Frames == {step \in Steps : step.kind # "exit"}

MaxPort == 65535

\* PATH is a list of directories, a name a sequence, and a port a u16.
StartBounds ==
    /\ \A m \in Machines : m.path \in Seq(SUBSET STRING)
    /\ \A env \in Environments : DOMAIN env \subseteq Seq(STRING)
    /\ Scripts \subseteq Seq(Steps)
    /\ \A step \in Frames :
          /\ step.kind \in {"none", "malformed", "ready"}
          /\ step.kind = "ready" => step.frame.port \in 0..MaxPort
ASSUME StartAssumption == StartBounds

VARIABLES
    machine, environment,
    launch,     \* the launch that was resolved, or why there is none
    hello,      \* what the shell has announced of itself
    host,       \* [script, code]: what it is still to do, and how it exited
    pipe,       \* frames sent and not yet handled
    slot,       \* the accepted frame
    refused,    \* the handler has refused one
    current,    \* still_current: nobody has stopped or replaced this generation
    late,       \* the deadline has passed
    wait        \* the wait: its next check, its verdict, and whether an answer
                \* was there when its round began

startVars == <<machine, environment, launch, hello, host, pipe, slot, refused, current, late, wait>>

None == [kind |-> "none"]
NoHello == [env |-> <<>>, cwd |-> "", cwdError |-> FALSE, home |-> ""]

-----------------------------------------------------------------------------
(* The launch.  A machine is                                               *)
(*   hostBin, hostDir   VRCXK_HOST_BIN and VRCXK_HOST_DIR: "unset", "bad"  *)
(*                      or "good" (a file; a directory)                    *)
(*   dev, resources     a dev build; the files of the resource directory   *)
(*   entries            which directories hold the host's sources          *)
(*   bun, home          VRCXK_BUN is set; bun is installed in the home     *)
(*   path               of each entry of PATH, the files of interest in it *)
(*   cwd                the directory the shell was started in still is    *)

\* shim_dir_on_path, find_on_path: the first entry of PATH with such a file.
FirstOnPath(m, name) ==
    IF \E i \in DOMAIN m.path : name \in m.path[i]
    THEN CHOOSE i \in DOMAIN m.path :
            name \in m.path[i] /\ \A j \in 1..i - 1 : name \notin m.path[j]
    ELSE 0

\* A shim can not be spawned: the binary is looked for beside it.
BehindShim(m, shim) ==
    LET i == FirstOnPath(m, shim) IN i # 0 /\ "behind a shim" \in m.path[i]

FindBun(m) ==
    CASE m.bun -> "VRCXK_BUN"
      [] ~m.bun /\ m.home -> "home"
      [] ~m.bun /\ ~m.home /\ \E shim \in {"bun.cmd", "bun"} : BehindShim(m, shim) -> "behind a shim"
      [] ~m.bun /\ ~m.home /\ (\A shim \in {"bun.cmd", "bun"} : ~BehindShim(m, shim))
            /\ FirstOnPath(m, "bun") # 0 -> "on PATH"
      [] OTHER -> "bare name"

HostDir(m) == IF m.hostDir = "unset" THEN "checkout" ELSE "override"

Error(why) == [kind |-> "error", why |-> why]
Launched(program, args, cwd) ==
    [kind |-> "launch", program |-> program, args |-> args, cwd |-> cwd]

Source(m) ==
    IF HostDir(m) \in m.entries THEN Launched(FindBun(m), "src/index.ts", HostDir(m))
    ELSE Error("entry missing")

Explicit(m) ==
    IF m.hostBin # "good" THEN Error("VRCXK_HOST_BIN")
    ELSE Launched("VRCXK_HOST_BIN", "none", IF m.hostDir = "good" THEN "override" ELSE "beside it")

\* find_packaged_host: the name in the bundle, or the one a checkout leaves.
Packaged(m) == {"host", "host-triple"} \intersect m.resources # {}

Bundled(m) ==
    IF "cordis.yml" \in m.resources
    THEN Launched(IF "host" \in m.resources THEN "host" ELSE "host-triple", "none", "resources")
    ELSE Error("no cordis.yml")

ResolveHostLaunch(m) ==
    IF m.hostBin # "unset" THEN Explicit(m)
    ELSE IF ~m.dev /\ Packaged(m) THEN Bundled(m)
    ELSE Source(m)

-----------------------------------------------------------------------------
(* The hello.  A name is a sequence of fragments and of separators "_"     *)
(* (NAME_SEPARATORS); letters' case plays no part.                         *)

LongMarkers  == {<<"TOKEN">>, <<"PRIVATE", "KEY">>, <<"API", "KEY">>, <<"ACCESS", "KEY">>}
ShortMarkers == {<<"PAT">>, <<"AUTH">>}

Contains(name, word) ==
    \E i \in 0..Len(name) - Len(word) : SubSeq(name, i + 1, i + Len(word)) = word

MutNormalised(name) == name

\* The fragments that are no separators, in their order.
Kept(name)     == {i \in DOMAIN name : name[i] # "_"}
Rank(name, i)  == Cardinality({j \in Kept(name) : j <= i})
Normalised(name) ==
    [k \in 1..Cardinality(Kept(name)) |-> name[CHOOSE i \in Kept(name) : Rank(name, i) = k]]

\* Whole tokens, so that PAT is found and PATH is not.
HasToken(name, token) == Contains(<<"_">> \o name \o <<"_">>, <<"_">> \o token \o <<"_">>)

LooksSecret(name) ==
    \/ \E marker \in LongMarkers : Contains(Normalised(name), marker)
    \/ \E token \in ShortMarkers : HasToken(name, token)

\* What is not UTF-8 is left out, and a credential is announced without its value.
Environment(env) ==
    [name \in {n \in DOMAIN env : env[n] # "not utf-8"} |->
        IF LooksSecret(name) THEN "redacted" ELSE env[name]]

\* var_os with to_string_lossy: a home is told even if it is not UTF-8.
Home(env) ==
    LET homes == SelectSeq(<<<<"HOME">>, <<"USERPROFILE">>>>, LAMBDA name : name \in DOMAIN env)
    IN  IF homes = <<>> THEN ""
        ELSE IF env[Head(homes)] = "not utf-8" THEN "lossy" ELSE env[Head(homes)]

\* A working directory that is gone is reported, and does not sink the hello.
HelloPayload(m, env) ==
    [env |-> Environment(env), home |-> Home(env),
     cwd |-> IF m.cwd THEN "cwd" ELSE "", cwdError |-> ~m.cwd]

\* A hello that can not be written does not stop the start.
SendHello(payload) == hello' \in {payload, hello}

-----------------------------------------------------------------------------
(* The ready frame: the arguments of one call of ready.                    *)

\* The fields of its groups.  Each has all of its fields and no other one.
HostRuntime      == {"bunVersion", "nodeVersion"}
HostPlatformInfo == {"platform", "arch", "mode"}
HostPaths        == {"cwd", "execPath"}
HostCapacity     == {"capturedAtMs", "cpuCount", "totalMemBytes"}
HostReady        == {"schemaVersion", "port", "token", "hostVersion",
                     "runtime", "host", "paths", "capacity"}
Deserializes(keys) ==
    /\ keys.runtime = HostRuntime /\ keys.host = HostPlatformInfo
    /\ keys.paths = HostPaths     /\ keys.capacity = HostCapacity
    /\ keys.frame \in {HostReady, HostReady \cup {"extra"}}

\* The slot for what later versions add: few, plainly named, scalar.
IsExtraKey(key)     == key \in {"camelCase"}
IsExtraValue(value) == value \in {"null", "scalar"}
HasValidExtra(extra) ==
    /\ extra.entries <= MaxExtraEntries
    /\ extra.entries > 0 => IsExtraKey(extra.key) /\ IsExtraValue(extra.value)

IsSupported(frame) ==
    /\ frame.schemaVersion = 1
    /\ frame.port # 0
    /\ frame.token = "64 hex"
    /\ frame.hostVersion \in 1..64               \* lengths
    /\ frame.bunVersion > 0 /\ frame.nodeVersion > 0
    /\ frame.cwd > 0 /\ frame.execPath > 0
    /\ frame.platform \in {"windows", "linux", "macos"}
    /\ frame.arch \in {"x64", "arm64"}
    /\ frame.mode \in {"source", "compiled"}
    /\ frame.cpuCount >= 1 /\ frame.totalMem \in {"some"}
    /\ HasValidExtra(frame.extra)

(* The handler of ready: no argument at all says nothing, one that does    *)
(* not parse or is not supported is a refusal.                             *)
Handled(args) ==
    CASE args.kind = "none"      -> UNCHANGED <<slot, refused>>
      [] args.kind = "malformed" -> refused' = TRUE /\ UNCHANGED slot
      [] args.kind = "ready"     ->
            IF Deserializes(args.frame.keys) /\ IsSupported(args.frame)
            THEN slot' = args /\ UNCHANGED refused
            ELSE refused' = TRUE /\ UNCHANGED slot

-----------------------------------------------------------------------------
Waiting == [at |-> "current", verdict |-> "none", heard |-> FALSE]

\* Nothing is launched or heard yet.
Unstarted ==
    /\ launch = None /\ hello = NoHello
    /\ pipe = <<>> /\ slot = None /\ refused = FALSE
    /\ current = TRUE /\ late = FALSE
    /\ wait = [Waiting EXCEPT !.at = "start"]

StartInit ==
    /\ machine \in Machines
    /\ environment \in Environments
    /\ host \in [script : Scripts, code : {"running"}]
    /\ Unstarted

Verdict(v) == wait' = [wait EXCEPT !.at = "over", !.verdict = v]

(* start_host_process: the handlers are registered before the reader       *)
(* starts, and the hello is written after.  What was resolved may not      *)
(* start.                                                                  *)
StartHostProcess ==
    /\ wait.at = "start"
    /\ LET resolved == ResolveHostLaunch(machine) IN
       \/ /\ resolved.kind = "launch"
          /\ launch' = resolved
          /\ SendHello(HelloPayload(machine, environment))
          /\ wait' = Waiting
       \/ /\ launch' = IF resolved.kind = "launch" THEN Error("spawn") ELSE resolved
          /\ Verdict("not launched")
          /\ UNCHANGED hello
    /\ UNCHANGED <<machine, environment, host, pipe, slot, refused, current, late>>

Alive == launch.kind = "launch" /\ host.code = "running"

\* What a host does, in its order.
HostActs ==
    /\ Alive /\ host.script # <<>>
    /\ LET step == Head(host.script) IN
       IF step.kind = "exit"
       THEN host' = [script |-> <<>>, code |-> step.code] /\ UNCHANGED pipe
       ELSE /\ host' = [host EXCEPT !.script = Tail(@)]
            /\ pipe' = Append(pipe, step)
    /\ UNCHANGED <<machine, environment, launch, hello, slot, refused, current, late, wait>>

\* The reader: what was written before an exit can still be read after it.
ReadFrame ==
    /\ pipe # <<>>
    /\ pipe' = Tail(pipe)
    /\ Handled(Head(pipe))
    /\ UNCHANGED <<machine, environment, launch, hello, host, current, late, wait>>

Stop ==
    /\ current
    /\ current' = FALSE
    /\ UNCHANGED <<machine, environment, launch, hello, host, pipe, slot, refused, late, wait>>

TimePasses ==
    /\ wait.at \notin {"start", "over"} /\ ~late
    /\ late' = TRUE
    /\ UNCHANGED <<machine, environment, launch, hello, host, pipe, slot, refused, current, wait>>

-----------------------------------------------------------------------------
(* A round of the wait.                                                    *)

Waits(at) ==
    /\ wait.at = at
    /\ UNCHANGED <<machine, environment, launch, hello, host, pipe, slot, refused, current, late>>

Goto(at) == wait' = [wait EXCEPT !.at = at]

CheckCurrent ==
    /\ Waits("current")
    /\ IF current
       THEN wait' = [wait EXCEPT !.at = "slot", !.heard = slot # None \/ refused]
       ELSE Verdict("stopped")

CheckSlot ==
    /\ Waits("slot")
    /\ IF slot # None THEN Verdict("ready") ELSE Goto("refused")

CheckRefused ==
    /\ Waits("refused")
    /\ IF refused THEN Verdict("refused") ELSE Goto("exit")

(* classify_spawn_exit: a host that lost the shell is not charged for it,  *)
(* and any other exit is a failed start.                                   *)
CheckExit ==
    /\ Waits("exit")
    /\ CASE host.code = "running"    -> Goto("deadline")
         [] host.code = "stdio lost" -> Verdict("stdio lost")
         [] OTHER                    -> Verdict("exited")

CheckDeadline ==
    /\ Waits("deadline")
    /\ IF late THEN Verdict("timeout") ELSE Goto("current")

StartNext ==
    \/ StartHostProcess \/ HostActs \/ ReadFrame \/ Stop \/ TimePasses
    \/ CheckCurrent \/ CheckSlot \/ CheckRefused \/ CheckExit \/ CheckDeadline

StartSpec == StartInit /\ [][StartNext]_startVars

-----------------------------------------------------------------------------
Accepted ==
    {step \in Frames :
        step.kind = "ready" /\ Deserializes(step.frame.keys) /\ IsSupported(step.frame)}

HostStates ==
    [script : Seq(Steps), code : {"running"} \cup {step.code : step \in Steps \ Frames}]
WaitStates ==
    [at : {"start", "current", "slot", "refused", "exit", "deadline", "over"},
     verdict : {"none", "not launched", "stopped", "ready", "refused", "stdio lost", "exited",
                "timeout"},
     heard : BOOLEAN]

(* The values the variables take.                                          *)
StartTypeOK ==
    /\ machine \in Machines /\ environment \in Environments
    /\ launch \in {None, ResolveHostLaunch(machine), Error("spawn")}
    /\ hello \in {NoHello, HelloPayload(machine, environment)}
    /\ host \in HostStates /\ pipe \in Seq(Frames)
    /\ slot \in {None} \cup Accepted
    /\ refused \in BOOLEAN /\ current \in BOOLEAN /\ late \in BOOLEAN
    /\ wait \in WaitStates

(* What is launched can come up: the sources are in the directory a source *)
(* launch runs in, the include tree beside a bundled host, a dev build     *)
(* never runs the copy in its target directory, and a shim is never run    *)
(* (host.rs:1515-1545, 1620-1627, 1672-1682).                              *)
LaunchIsRunnable ==
    launch.kind = "launch" =>
        /\ launch.args = "src/index.ts" => launch.cwd \in machine.entries
        /\ launch.cwd = "resources" => "cordis.yml" \in machine.resources /\ ~machine.dev
        /\ machine.hostBin # "unset" => launch.program = "VRCXK_HOST_BIN"
        /\ launch.program = "bare name" =>
              \A i \in DOMAIN machine.path : "bun" \notin machine.path[i]

CanBeReached(frame) == frame.port \in 1..MaxPort /\ frame.token = "64 hex"

(* The verdict of the wait is what happened: a host is blamed for silence  *)
(* only when nothing of it was there to be seen, accepted or refused, when *)
(* the last round began; an accepted host can be reached; and a refusal, a *)
(* lost shell and an exit are never taken for one another                  *)
(* (host.rs:1366-1372, 1452-1470, 1485-1493).                              *)
BlameIsTrue ==
    /\ wait.verdict = "timeout" => late /\ ~wait.heard /\ launch.kind = "launch"
    /\ wait.verdict = "ready" => CanBeReached(slot.frame)
    /\ wait.verdict = "refused" => refused
    /\ wait.verdict \in {"exited", "stdio lost"} =>
          /\ host.code # "running" /\ ~wait.heard
          /\ (wait.verdict = "stdio lost") = (host.code = "stdio lost")
    /\ wait.verdict = "stopped" => ~current

\* The marker's fragments stand in the name, with at most separators in between.
Spells(name, marker) ==
    \E at \in [DOMAIN marker -> DOMAIN name] : \A k \in DOMAIN marker :
        /\ name[at[k]] = marker[k]
        /\ k > 1 => at[k - 1] < at[k] /\ \A j \in at[k - 1] + 1..at[k] - 1 : name[j] = "_"

(* The value of a variable whose name spells a credential, with whatever   *)
(* separators, does not leave the shell, and the variables a plugin needs  *)
(* do (hands_hello.rs:97-131).                                             *)
HelloHidesSecrets ==
    \A name \in DOMAIN hello.env :
        /\ hello.env[name] # "redacted" =>
              \A marker \in LongMarkers : ~Spells(name, marker)
        /\ name \in {<<"PAT", "H">>, <<"PUBLIC", "_", "KEY">>} =>
              hello.env[name] = environment[name]

(* A host is launched as it can run, is blamed only for what it did, and   *)
(* is told no credential by name.                                          *)
StartIsHonest == LaunchIsRunnable /\ BlameIsTrue /\ HelloHidesSecrets
=============================================================================
