------------------------------ MODULE Shortcuts ------------------------------
(***************************************************************************)
(* Global shortcuts, from the plugin that binds a chord to the handler     *)
(* that runs: ShortcutService of the host (host/src/shortcut.ts), the      *)
(* handlers shell.shortcut.register and unregister on the thread that      *)
(* reads the host's link (src-tauri/src/shell_sys.rs), the dev panel's     *)
(* register and unregister on a thread of their own (smoke.rs), and the    *)
(* shell's mirror of what the operating system holds, by which a press is  *)
(* forwarded (src-tauri/src/shortcut.rs).                                  *)
(*                                                                         *)
(* The host is replaced when it dies; what the operating system holds for  *)
(* the shell stays.  The store of the shortcut library and the operating   *)
(* system are one set of chords, and refuse at will what they may refuse.  *)
(*                                                                         *)
(* Mut... definitions are mistakes this code could contain, in the place   *)
(* of the definition that follows them.                                    *)
(***************************************************************************)
EXTENDS Naturals, Sequences

CONSTANTS
    Chords,          \* accelerators, by their canonical spelling
    NoChord,
    MaxCalls,        \* bound: calls of register and unregister by plugins
    MaxGenerations,  \* bound: host processes
    MaxMeddling,     \* bound: registrations and releases by the dev panel
    MaxPresses       \* bound: key edges of registered chords

ShortcutBounds ==
    /\ NoChord \notin Chords
    /\ MaxCalls \in Nat /\ MaxGenerations \in Nat
    /\ MaxMeddling \in Nat /\ MaxPresses \in Nat
ASSUME ShortcutAssumption == ShortcutBounds

Calls       == 1..MaxCalls
Generations == 1..MaxGenerations
Panel       == 0                          \* the dev panel, as a worker
Workers     == Generations \cup {Panel}   \* with the reader of each link
Ops         == {"register", "unregister"}

VARIABLES
    os,         \* the chords the operating system holds for the shell
    mirror,     \* ShortcutRegistry
    work,       \* what each worker is registering or releasing, and how far it is
    generation, \* of the host that runs, or ran last
    running,    \* it runs
    closed,     \* its ShortcutService was closed
    bindings,   \* the call whose handler is bound to a chord; 0 is none
    call,       \* of each call: what it asks for and what became of it
    requests,   \* on each link to the shell
    frames,     \* on the link to the host that runs
    routed,     \* the press the event thread is about to forward
    edges, meddling,
    foreign,    \* history: chords somebody else than this host asked the OS about
    raced       \* history: chords two workers were busy with at once

osVars    == <<os, mirror, work, foreign, raced>>
hostVars  == <<generation, running, closed, bindings, call>>
pressVars == <<routed, edges>>
vars == <<osVars, hostVars, pressVars, requests, frames, meddling>>

Idle == [at |-> "idle", op |-> "register", chord |-> NoChord, id |-> 0,
         ok |-> FALSE, seen |-> FALSE]

Init ==
    /\ os = {} /\ mirror = {} /\ foreign = {} /\ raced = {}
    /\ work = [w \in Workers |-> Idle]
    /\ generation = 0 /\ running = FALSE /\ closed = FALSE
    /\ bindings = [c \in Chords |-> 0]
    /\ call = [i \in Calls |-> [op |-> "register", chord |-> NoChord, is |-> "uncalled"]]
    /\ requests = [g \in Generations |-> <<>>] /\ frames = <<>>
    /\ routed = NoChord /\ edges = 0 /\ meddling = 0

-----------------------------------------------------------------------------
(* The operating system, through the shortcut library.                     *)

\* What a register or a release may answer, and whether the chord is held
\* after it.  A chord may be another application's, one that the shell
\* holds already may be refused or not, and a release may fail.
Answers(op, chord) ==
    IF op = "register"
    THEN {<<TRUE, TRUE>>, <<FALSE, chord \in os>>}
    ELSE {<<TRUE, FALSE>>, <<FALSE, chord \in os>>}

With(set, chord, in) == IF in THEN set \cup {chord} ELSE set \ {chord}

(* register_with_os, unregister_with_os: the call to the library.          *)
AskOs(w, op, chord, id) ==
    \E answer \in Answers(op, chord) :
        /\ os' = With(os, chord, answer[2])
        /\ work' = [work EXCEPT ![w] = [at |-> "asked", op |-> op, chord |-> chord,
                                        id |-> id, ok |-> answer[1], seen |-> FALSE]]
        /\ foreign' = IF w = generation THEN foreign ELSE foreign \cup {chord}
        /\ raced' = IF \E v \in Workers \ {w} : work[v].chord = chord
                    THEN raced \cup {chord} ELSE raced

(* sync_from_plugin: is the chord registered?  The answer is used under    *)
(* the registry's lock, which was not held when it was given.              *)
ReadBack(w) ==
    /\ work[w].at = "asked"
    /\ work' = [work EXCEPT ![w].at = "read", ![w].seen = work[w].chord \in os]
    /\ UNCHANGED <<os, mirror, foreign, raced, hostVars, pressVars, requests, frames, meddling>>

\* The answer is mirrored, and not what the library holds.
MutMirrored(task) == With(mirror, task.chord, task.ok /\ task.op = "register")

Mirrored(task) == With(mirror, task.chord, task.seen)

\* The reply is written by the reader of the link; the panel's report is for
\* the developer.  A reply to a host that is gone is lost.
Mirror(w) ==
    /\ work[w].at = "read"
    /\ mirror' = Mirrored(work[w])
    /\ work' = [work EXCEPT ![w] = Idle]
    /\ frames' = IF w = generation /\ running
                 THEN Append(frames, [press |-> NoChord, id |-> work[w].id, ok |-> work[w].ok])
                 ELSE frames
    /\ UNCHANGED <<os, foreign, raced, hostVars, pressVars, requests, meddling>>

(* A handler of shell_sys.rs: the reader of a link serves one request      *)
(* after the other, those that were sent before the host died as well.     *)
Serve(g) ==
    /\ work[g].at = "idle"
    /\ requests[g] # <<>>
    /\ LET request == Head(requests[g]) IN
       AskOs(g, request.op, request.chord, request.id)
    /\ requests' = [requests EXCEPT ![g] = Tail(@)]
    /\ UNCHANGED <<mirror, hostVars, pressVars, frames, meddling>>

(* SmokeAction::ShortcutRegister and ShortcutUnregister.                   *)
PanelAsks ==
    /\ meddling < MaxMeddling
    /\ work[Panel].at = "idle"
    /\ \E op \in Ops, chord \in Chords : AskOs(Panel, op, chord, 0)
    /\ meddling' = meddling + 1
    /\ UNCHANGED <<mirror, hostVars, pressVars, requests, frames>>

-----------------------------------------------------------------------------
(* Presses.                                                                *)

(* on_event on the library's thread, for either edge of a chord the        *)
(* operating system holds for the shell; ShortcutRegistry::route.          *)
Edge ==
    /\ edges < MaxPresses
    /\ routed = NoChord
    /\ \E chord \in os, edge \in {"Pressed", "Released"} :
          routed' = IF edge = "Pressed" /\ chord \in mirror THEN chord ELSE NoChord
    /\ edges' = edges + 1
    /\ UNCHANGED <<osVars, hostVars, requests, frames, meddling>>

(* notify_host: to the host that runs now, or to none (Delivery).          *)
Notify ==
    /\ routed # NoChord
    /\ frames' = IF running THEN Append(frames, [press |-> routed, id |-> 0, ok |-> TRUE])
                            ELSE frames
    /\ routed' = NoChord
    /\ UNCHANGED <<osVars, hostVars, requests, edges, meddling>>

-----------------------------------------------------------------------------
(* ShortcutService.                                                        *)

(* register and unregister, up to the await.                               *)
Call(i) ==
    /\ running
    /\ call[i].is = "uncalled"
    /\ \A j \in Calls : j < i => call[j].is # "uncalled"
    /\ \E op \in Ops, chord \in Chords :
          IF closed
          THEN /\ call' = [call EXCEPT ![i] = [op |-> op, chord |-> chord, is |-> "no-shell"]]
               /\ UNCHANGED requests
          ELSE /\ call' = [call EXCEPT ![i] = [op |-> op, chord |-> chord, is |-> "waiting"]]
               /\ requests' = [requests EXCEPT ![generation] =
                      Append(@, [op |-> op, chord |-> chord, id |-> i])]
    /\ UNCHANGED <<osVars, generation, running, closed, bindings, pressVars, frames, meddling>>

(* The await of register or unregister is over without an answer: the      *)
(* channel's timeout rejects it, the plugin is told so, and the binding    *)
(* stays.  The request stays on the link, and the shell will serve it.     *)
Expire(i) ==
    /\ running
    /\ call[i].is = "waiting"
    /\ call' = [call EXCEPT ![i].is = "expired"]
    /\ UNCHANGED <<osVars, generation, running, closed, bindings, pressVars, requests, frames,
                   meddling>>

\* The binding of a chord that was refused again is replaced as well.
MutBound(i, ok) ==
    IF call[i].op = "register" THEN i ELSE IF ok THEN 0 ELSE bindings[call[i].chord]

\* What is bound to the chord after the answer.
Bound(i, ok) ==
    IF ~ok THEN bindings[call[i].chord] ELSE IF call[i].op = "register" THEN i ELSE 0

(* register and unregister, from the await on: neither looks again whether *)
(* the service was closed meanwhile.  The answer to a call that is over is *)
(* dropped.                                                                *)
Answer ==
    /\ running /\ frames # <<>> /\ Head(frames).press = NoChord
    /\ LET i == Head(frames).id IN
       IF call[i].is = "waiting"
       THEN /\ bindings' = [bindings EXCEPT ![call[i].chord] = Bound(i, Head(frames).ok)]
            /\ call' = [call EXCEPT ![i].is = IF Head(frames).ok THEN "registered" ELSE "rejected"]
       ELSE UNCHANGED <<bindings, call>>
    /\ frames' = Tail(frames)
    /\ UNCHANGED <<osVars, generation, running, closed, pressVars, requests, meddling>>

(* dispatchPress: the handler that is bound runs, if there is one; what it *)
(* does is the plugin's.                                                   *)
Dispatch ==
    /\ running /\ frames # <<>> /\ Head(frames).press # NoChord
    /\ frames' = Tail(frames)
    /\ UNCHANGED <<osVars, hostVars, requests, routed, edges, meddling>>

(* close, when the host shuts down.                                        *)
Close ==
    /\ running /\ ~closed
    /\ closed' = TRUE
    /\ bindings' = [c \in Chords |-> 0]
    /\ UNCHANGED <<osVars, generation, running, call, pressVars, requests, frames, meddling>>

(* The host's process ends: its memory is gone, and what it was told and   *)
(* has not yet read.                                                       *)
Die ==
    /\ running
    /\ running' = FALSE /\ closed' = FALSE
    /\ frames' = <<>>
    /\ bindings' = [c \in Chords |-> 0]
    /\ call' = [i \in Calls |-> IF call[i].is = "uncalled"
                                THEN call[i] ELSE [call[i] EXCEPT !.is = "lost"]]
    /\ UNCHANGED <<osVars, generation, pressVars, requests, meddling>>

(* A new process, with a new service (attachShell).                        *)
Launch ==
    /\ ~running /\ generation < MaxGenerations
    /\ running' = TRUE /\ generation' = generation + 1
    /\ foreign' = {}
    /\ UNCHANGED <<os, mirror, work, raced, closed, bindings, call, pressVars, requests, frames,
                   meddling>>

Next ==
    \/ Launch \/ Die \/ Close \/ Answer \/ Dispatch
    \/ \E i \in Calls : Call(i) \/ Expire(i)
    \/ \E g \in Generations : Serve(g)
    \/ \E w \in Workers : ReadBack(w) \/ Mirror(w)
    \/ PanelAsks \/ Edge \/ Notify

Spec == Init /\ [][Next]_vars

-----------------------------------------------------------------------------
(* Type correctness. *)
TypeOK ==
    /\ os \subseteq Chords /\ mirror \subseteq Chords
    /\ foreign \subseteq Chords /\ raced \subseteq Chords
    /\ work \in [Workers -> [at : {"idle", "asked", "read"}, op : Ops,
                             chord : Chords \cup {NoChord}, id : Calls \cup {0},
                             ok : BOOLEAN, seen : BOOLEAN]]
    /\ generation \in Generations \cup {0} /\ running \in BOOLEAN /\ closed \in BOOLEAN
    /\ bindings \in [Chords -> Calls \cup {0}]
    /\ call \in [Calls -> [op : Ops, chord : Chords \cup {NoChord},
                           is : {"uncalled", "waiting", "registered", "rejected",
                                 "no-shell", "expired", "lost"}]]
    /\ requests \in [Generations -> Seq([op : Ops, chord : Chords, id : Calls])]
    /\ frames \in Seq([press : Chords \cup {NoChord}, id : Calls \cup {0}, ok : BOOLEAN])
    /\ routed \in Chords \cup {NoChord}
    /\ edges \in 0..MaxPresses
    /\ meddling \in 0..MaxMeddling

\* No call for the chord is under way in the host that runs.
Settled(chord) == \A i \in Calls : call[i].is = "waiting" => call[i].chord # chord

\* A release of the chord, called after the registration that is bound, timed
\* out: the shell may have carried it out, or may yet do so.
MaybeReleased(chord) ==
    \E i \in Calls : /\ i > bindings[chord]
                     /\ call[i].is = "expired"
                     /\ call[i].op = "unregister" /\ call[i].chord = chord

(* A handler that a plugin was told is registered can run: as long as only *)
(* this host has asked for the chord, and it waits for no answer about it, *)
(* a bound chord is held by the operating system and forwarded by the      *)
(* shell, unless a later call to release it timed out.  A registration     *)
(* that timed out endangers none (shortcut.ts:132-179, shortcut.rs:171-    *)
(* 220).                                                                   *)
BoundIsRouted ==
    \A chord \in Chords :
        running /\ ~closed /\ Settled(chord) /\ bindings[chord] # 0
            /\ chord \notin foreign \cup raced /\ ~MaybeReleased(chord)
        => chord \in os \cap mirror

(* The mirror says what the operating system holds whenever nobody is at   *)
(* work on a chord, unless two workers were once at work on it together    *)
(* (shortcut.rs:171-176).                                                  *)
MirrorFollowsTheOs ==
    \A chord \in Chords \ raced :
        (\A w \in Workers : work[w].chord # chord) => (chord \in mirror <=> chord \in os)
=============================================================================
