-------------------------------- MODULE Face --------------------------------
(***************************************************************************)
(* How the web view learns the state of the host: the change feed of the   *)
(* shell (src-tauri/src/lib.rs) with its fingerprints, the command         *)
(* get_host_lifecycle, and the panel that mounts, listens, reads a seed    *)
(* and reduces both into what it shows (src/hostLifecycle.ts,              *)
(* src/hostLifecyclePanel.tsx).                                            *)
(*                                                                         *)
(* Events and the answers of commands travel apart: in order among         *)
(* themselves, in any order against each other.  Events that are emitted   *)
(* while nobody listens are gone.                                          *)
(*                                                                         *)
(* Mut... definitions are mistakes this code could contain, in the place   *)
(* of the definition that follows them.                                    *)
(***************************************************************************)
EXTENDS Naturals, Sequences

CONSTANTS
    Values,     \* what a snapshot says beside its generation
    First,      \* of them, before the host is first started
    MaxChanges, \* bound: changes of the host's state
    MaxMounts   \* bound: how often the panel is mounted

FaceBounds == First \in Values /\ MaxChanges \in Nat /\ MaxMounts \in Nat
ASSUME FaceAssumption == FaceBounds

Changes == 0..MaxChanges
Mounts  == 1..MaxMounts
\* When a snapshot was true, in changes since the start, is history: nothing
\* decides by it.
Snapshot == [generation : Changes, value : Values, at : Changes]

VARIABLES
    truth,     \* lifecycle_snapshot of the host
    published, \* the snapshot the observer emitted last (last_fingerprint)
    events,    \* host-lifecycle events on their way to each subscription
    sub,       \* each mount's subscription: its listener, seed and cancellation
    answer,    \* the seed on its way to it
    view,      \* what the panel shows
    mount      \* the mount that is current; 0 before the first

faceVars == <<truth, published, events, sub, answer, view, mount>>

Nowhere == [generation |-> 0, value |-> First, at |-> 0]
Pending == [status |-> "pending", snapshot |-> Nowhere]

FaceInit ==
    /\ truth = Nowhere
    /\ published = Nowhere
    /\ events = [m \in Mounts |-> <<>>]
    /\ sub = [m \in Mounts |-> [listener |-> "none", settled |-> FALSE, failed |-> FALSE,
                                seed |-> "unread", cancelled |-> FALSE]]
    /\ answer = [m \in Mounts |-> Nowhere]
    /\ view = Pending
    /\ mount = 0

-----------------------------------------------------------------------------
(* The shell.                                                              *)

SameFingerprint(a, b) == a.generation = b.generation /\ a.value = b.value

\* The supervisor, or a command, changes the state; a spawn counts generations.
Change ==
    /\ truth.at < MaxChanges
    /\ \E generation \in {truth.generation, truth.generation + 1}, value \in Values :
          /\ truth' = [generation |-> generation, value |-> value, at |-> truth.at + 1]
          /\ ~SameFingerprint(truth, truth')
    /\ UNCHANGED <<published, events, sub, answer, view, mount>>

(* The observer that supervise_loop calls: only a snapshot that differs    *)
(* from the last one is emitted, to whoever listens.                       *)
Observe ==
    /\ ~SameFingerprint(truth, published)
    /\ published' = truth
    /\ events' = [m \in Mounts |-> IF sub[m].listener = "on" THEN Append(events[m], truth)
                                                              ELSE events[m]]
    /\ UNCHANGED <<truth, sub, answer, view, mount>>

\* The shell registers the listener before the promise of listen settles.
Register(m) ==
    /\ sub[m].listener = "asked"
    /\ sub' = [sub EXCEPT ![m].listener = "on"]
    /\ UNCHANGED <<truth, published, events, answer, view, mount>>

\* get_host_lifecycle, which an older shell does not have.
ReadTruth(m) ==
    /\ sub[m].seed = "asked"
    /\ \E known \in BOOLEAN :
          sub' = [sub EXCEPT ![m].seed = IF known THEN "answered" ELSE "unknown"]
    /\ answer' = [answer EXCEPT ![m] = truth]
    /\ UNCHANGED <<truth, published, events, view, mount>>

-----------------------------------------------------------------------------
(* reduceHostLifecycle.                                                    *)

(* isStaleSnapshot.                                                        *)
IsStale(snapshot) == snapshot.generation < view.snapshot.generation

\* A seed is a snapshot like any other.
MutAfterSeed(snapshot) ==
    IF IsStale(snapshot) THEN view ELSE [status |-> "live", snapshot |-> snapshot]

AfterSeed(snapshot) ==
    IF view.status = "live" \/ IsStale(snapshot) THEN view
    ELSE [status |-> "live", snapshot |-> snapshot]

AfterEvent(snapshot) ==
    IF IsStale(snapshot) THEN view ELSE [status |-> "live", snapshot |-> snapshot]

AfterUnsupported ==
    IF view.status = "live" THEN view ELSE [status |-> "unsupported", snapshot |-> Nowhere]

AfterError == [view EXCEPT !.status = "error"]

-----------------------------------------------------------------------------
(* subscribeHostLifecycle, by the effect of HostLifecyclePanel.            *)

\* A mounted panel starts from nothing; in React's strict mode the first
\* mount is taken back at once and the second one keeps the state.
Mount ==
    /\ mount < MaxMounts
    /\ mount > 0 => sub[mount].cancelled
    /\ mount' = mount + 1
    /\ sub' = [sub EXCEPT ![mount + 1].listener = "asked"]
    /\ view' = Pending
    /\ UNCHANGED <<truth, published, events, answer>>

(* The clean-up: unlisten is known only once listen has settled.           *)
Unmount ==
    /\ mount > 0 /\ ~sub[mount].cancelled
    /\ sub' = [sub EXCEPT ![mount].cancelled = TRUE,
                          ![mount].listener = IF sub[mount].settled /\ @ = "on" THEN "off" ELSE @]
    /\ UNCHANGED <<truth, published, events, answer, view, mount>>

(* listen has resolved: the seed is read only now.                         *)
AfterListen(m) ==
    IF sub[m].cancelled THEN [sub[m] EXCEPT !.settled = TRUE, !.listener = "off"]
    ELSE [sub[m] EXCEPT !.settled = TRUE, !.seed = "asked"]

Listening(m) ==
    /\ sub[m].listener = "on" /\ ~sub[m].settled
    /\ sub' = [sub EXCEPT ![m] = AfterListen(m)]
    /\ UNCHANGED <<truth, published, events, answer, view, mount>>

(* listen has rejected: the seed is read all the same.                     *)
ListenFails(m) ==
    /\ sub[m].listener = "asked"
    /\ sub' = [sub EXCEPT ![m].listener = "off", ![m].settled = TRUE, ![m].failed = TRUE,
                          ![m].seed = "asked"]
    /\ UNCHANGED <<truth, published, events, answer, view, mount>>

\* applyIfLive.
AppliedIfLive(m, shown) == IF sub[m].cancelled THEN view ELSE shown

Event(m) ==
    /\ events[m] # <<>>
    /\ view' = AppliedIfLive(m, AfterEvent(Head(events[m])))
    /\ events' = [events EXCEPT ![m] = Tail(@)]
    /\ UNCHANGED <<truth, published, sub, answer, mount>>

(* The seed is answered; behind it, when listen had failed, the error.     *)
Seed(m) ==
    /\ sub[m].seed \in {"answered", "unknown"}
    /\ view' = AppliedIfLive(m, IF sub[m].seed = "answered" THEN AfterSeed(answer[m])
                                                      ELSE AfterUnsupported)
    /\ sub' = [sub EXCEPT ![m].seed = IF sub[m].failed THEN "failing" ELSE "done"]
    /\ answer' = [answer EXCEPT ![m] = Nowhere]
    /\ UNCHANGED <<truth, published, events, mount>>

Failing(m) ==
    /\ sub[m].seed = "failing"
    /\ view' = AppliedIfLive(m, AfterError)
    /\ sub' = [sub EXCEPT ![m].seed = "done"]
    /\ UNCHANGED <<truth, published, events, answer, mount>>

FaceNext ==
    \/ Change \/ Observe \/ Mount \/ Unmount
    \/ \E m \in Mounts : \/ Register(m) \/ ReadTruth(m) \/ Listening(m) \/ ListenFails(m)
                         \/ Event(m) \/ Seed(m) \/ Failing(m)

FaceSpec == FaceInit /\ [][FaceNext]_faceVars

-----------------------------------------------------------------------------
(* Type correctness. *)
FaceTypeOK ==
    /\ truth \in Snapshot /\ published \in Snapshot
    /\ events \in [Mounts -> Seq(Snapshot)]
    /\ sub \in [Mounts -> [listener : {"none", "asked", "on", "off"}, settled : BOOLEAN,
                           failed : BOOLEAN,
                           seed : {"unread", "asked", "answered", "unknown", "failing", "done"},
                           cancelled : BOOLEAN]]
    /\ answer \in [Mounts -> Snapshot]
    /\ view \in [status : {"pending", "live", "unsupported", "error"}, snapshot : Snapshot]
    /\ mount \in 0..MaxMounts

(* A panel that listens, and to which nothing more is under way, shows     *)
(* nothing older than the last snapshot that was published, whether that   *)
(* was before it listened or after (hostLifecycle.ts:108-125,174-226).     *)
NothingPublishedIsMissed ==
    mount > 0 /\ ~sub[mount].cancelled /\ ~sub[mount].failed
        /\ sub[mount].seed = "done" /\ events[mount] = <<>> /\ view.status = "live"
    => view.snapshot.at >= published.at

(* A subscription that was cancelled leaves no listener behind, although   *)
(* it may be cancelled before listen has given it one                      *)
(* (hostLifecycle.ts:201-226).                                             *)
CancelledIsQuiet ==
    \A m \in Mounts : sub[m].cancelled /\ sub[m].settled => sub[m].listener # "on"
=============================================================================
