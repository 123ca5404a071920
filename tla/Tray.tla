-------------------------------- MODULE Tray --------------------------------
(***************************************************************************)
(* How the groups a plugin publishes come to be in the tray: TrayService   *)
(* of the host (host/src/tray.ts), the link to the shell, the shell's      *)
(* cache and its refresh (src-tauri/src/tray.rs), which runs on the thread *)
(* that reads the link and on the supervisor's, and the main thread that   *)
(* applies what refreshes have queued.                                     *)
(*                                                                         *)
(* Groups are only compared here, so they are values, and a merged menu is *)
(* the pair of the groups and the phase it was made from.  TrayMenu and    *)
(* TrayShell have their structure.                                         *)
(*                                                                         *)
(* Mut... definitions are mistakes this code could contain, in the place   *)
(* of the definition that follows them.                                    *)
(***************************************************************************)
EXTENDS Naturals, Sequences

CONSTANTS
    Contents,  \* the groups plugins publish
    Refused,   \* those of them that the shell refuses
    Nothing,   \* no groups
    Phases,    \* the phases of the host
    FirstPhase, \* the one before it is started
    MaxCalls,  \* bound: how often setGroups is called
    MaxTurns,  \* bound: how often the phase of the host changes
    MaxFaults  \* bound: how often an answer is late or a refresh fails

TrayBounds ==
    /\ MaxCalls \in Nat /\ MaxTurns \in Nat /\ MaxFaults \in Nat
    /\ FirstPhase \in Phases
    /\ Nothing \notin Contents /\ Refused \subseteq Contents
ASSUME TrayAssumption == TrayBounds

Calls    == 1..MaxCalls
Verdicts == {"pushed", "unchanged", "coalesced", "no-shell", "error", "closed"}
Held     == Contents \cup {Nothing}
Menus    == Held \X Phases
Threads  == {"reader", "supervisor"}

VARIABLES
    service,   \* TrayService: what it holds, its shell, and whether it is closed
    update,    \* the update that is queued for the next flush, with its waiters
    chain,     \* the pushes behind each other; the first is being pushed
    pushing,   \* the first one has been sent and is awaited
    verdict,   \* of each call of setGroups
    requests,  \* on the link to the shell
    replies,   \* on the link to the host
    cache,     \* TrayCache of the shell
    hostPhase, \* the lifecycle of the host
    published, \* the turn the supervisor's observer saw last
    thread,    \* where each thread that refreshes is
    queue,     \* the closures that wait for the main thread
    applied,   \* the menu in the tray
    turns, faults,
    wanted,    \* history: the groups that setGroups was called with last
    failed,    \* history: a push did not succeed
    raced      \* history: a refresh met another one, or the queue of the main
               \* thread

hostVars  == <<service, update, chain, pushing, verdict, wanted, failed>>
wireVars  == <<requests, replies>>
shellVars == <<cache, hostPhase, published, thread, queue, applied, raced>>
trayVars  == <<hostVars, wireVars, shellVars, turns, faults>>

Job == [groups : Contents, revision : Calls \cup {MaxCalls + 1}, waiters : SUBSET Calls]
NoJob == [groups |-> Nothing, revision |-> 0, waiters |-> {}]

Resting == [at |-> "idle", phase |-> Nothing, menu |-> Nothing, job |-> NoJob]

TrayInit ==
    /\ service = [content |-> Nothing, pushed |-> Nothing, last |-> Nothing,
                  revision |-> 0, attached |-> FALSE, closed |-> FALSE]
    /\ update = NoJob
    /\ chain = <<>> /\ pushing = FALSE
    /\ verdict = [c \in Calls |-> "uncalled"]
    /\ requests = <<>> /\ replies = <<>>
    /\ cache = [groups |-> Nothing, revision |-> 0]
    /\ hostPhase = FirstPhase /\ published = 0
    /\ thread = [t \in Threads |-> Resting]
    /\ queue = <<>> /\ applied = <<Nothing, FirstPhase>>
    /\ turns = 0 /\ faults = 0
    /\ wanted = Nothing /\ failed = FALSE /\ raced = FALSE

-----------------------------------------------------------------------------
(* TrayService.                                                            *)

Tell(verdicts, calls, what) ==
    [c \in Calls |-> IF c \in calls THEN what ELSE verdicts[c]]

(* enqueue: the update supersedes the one that waits for the same flush.   *)
MutEnqueued(groups, calls, verdicts) ==
    /\ service' = [service EXCEPT !.content = groups, !.last = groups,
                                  !.revision = @ + 1]
    /\ update' = IF update = NoJob
                 THEN [groups |-> groups, revision |-> service.revision + 1,
                       waiters |-> calls]
                 ELSE [update EXCEPT !.waiters = @ \cup calls]
    /\ verdict' = verdicts

Enqueued(groups, calls, verdicts) ==
    /\ service' = [service EXCEPT !.content = groups, !.last = groups,
                                  !.revision = @ + 1]
    /\ update' = [groups |-> groups, revision |-> service.revision + 1,
                  waiters |-> calls]
    /\ verdict' = Tell(verdicts, update.waiters, "coalesced")

SetGroups(call, groups) ==
    LET waiting == [verdict EXCEPT ![call] = "waiting"] IN
    /\ verdict[call] = "uncalled"
    /\ \A c \in Calls : c < call => verdict[c] # "uncalled"
    /\ IF service.closed
       THEN /\ verdict' = [verdict EXCEPT ![call] = "closed"]
            /\ UNCHANGED <<service, update, wanted>>
       ELSE /\ wanted' = groups
            /\ IF groups = service.content
               THEN /\ service' = [service EXCEPT !.last = groups]
                    /\ verdict' = [verdict EXCEPT ![call] = "unchanged"]
                    /\ UNCHANGED update
               ELSE Enqueued(groups, {call}, waiting)
    /\ UNCHANGED <<chain, pushing, failed, wireVars, shellVars, turns, faults>>

(* attachShell: what was accepted without a shell is pushed now.           *)
Attach ==
    /\ ~service.attached /\ ~service.closed
    /\ IF service.content # service.pushed /\ service.last # Nothing
       THEN /\ update' = [groups |-> service.last, waiters |-> {},
                          revision |-> service.revision + 1]
            /\ service' = [service EXCEPT !.attached = TRUE, !.revision = @ + 1,
                                          !.content = service.last]
            /\ verdict' = Tell(verdict, update.waiters, "coalesced")
       ELSE /\ service' = [service EXCEPT !.attached = TRUE]
            /\ UNCHANGED <<update, verdict>>
    /\ UNCHANGED <<chain, pushing, wanted, failed, wireVars, shellVars, turns, faults>>

(* flush, from the microtask or the timer.                                 *)
FlushUpdate ==
    /\ update # NoJob
    /\ chain' = Append(chain, update)
    /\ update' = NoJob
    /\ UNCHANGED <<service, pushing, verdict, wanted, failed, wireVars, shellVars,
                   turns, faults>>

(* pushSnapshot, up to the await of the shell's answer.                    *)
Push ==
    /\ chain # <<>> /\ ~pushing
    /\ IF service.attached
       THEN /\ requests' = Append(requests, Head(chain))
            /\ pushing' = TRUE
            /\ UNCHANGED <<chain, verdict>>
       ELSE /\ verdict' = Tell(verdict, Head(chain).waiters, "no-shell")
            /\ chain' = Tail(chain)
            /\ UNCHANGED <<requests, pushing>>
    /\ UNCHANGED <<service, update, wanted, failed, replies, shellVars, turns, faults>>

(* pushSnapshot, after the await.                                          *)
MutRolledBack(groups) == service.content

RolledBack(groups) ==
    IF service.content = groups THEN service.pushed ELSE service.content

Settles(ok) ==
    LET job == Head(chain) IN
    /\ service' = IF ok THEN [service EXCEPT !.pushed = job.groups]
                        ELSE [service EXCEPT !.content = RolledBack(job.groups)]
    /\ verdict' = Tell(verdict, job.waiters, IF ok THEN "pushed" ELSE "error")
    /\ failed' = (failed \/ ~ok)
    /\ chain' = Tail(chain)
    /\ pushing' = FALSE

Answered ==
    /\ replies # <<>>
    /\ IF pushing /\ Head(chain).revision = Head(replies).revision
       THEN Settles(Head(replies).ok) /\ UNCHANGED <<update, wanted>>
       ELSE UNCHANGED hostVars
    /\ replies' = Tail(replies)
    /\ UNCHANGED <<requests, shellVars, turns, faults>>

(* The call of the shell times out; the request is on the link still.      *)
PushTimesOut ==
    /\ pushing /\ faults < MaxFaults
    /\ Settles(FALSE)
    /\ faults' = faults + 1
    /\ UNCHANGED <<update, wanted, wireVars, shellVars, turns>>

MutCloseTray ==
    /\ ~service.closed
    /\ service' = [service EXCEPT !.closed = TRUE]
    /\ update' = NoJob
    /\ UNCHANGED <<verdict, chain, pushing, wanted, failed, wireVars, shellVars, turns,
                   faults>>

CloseTray ==
    /\ ~service.closed
    /\ service' = [service EXCEPT !.closed = TRUE]
    /\ verdict' = Tell(verdict, update.waiters, "closed")
    /\ update' = NoJob
    /\ UNCHANGED <<chain, pushing, wanted, failed, wireVars, shellVars, turns, faults>>

-----------------------------------------------------------------------------
(* The shell.                                                              *)

(* apply_host_snapshot, up to the refresh.  The snapshot is validated and  *)
(* cached; groups that the cache has already are not rendered again.       *)
Replies(job, ok) ==
    replies' = Append(replies, [revision |-> job.revision, ok |-> ok])

Caches(job) == job.groups \notin Refused

Ingress ==
    LET job == Head(requests) IN
    /\ thread["reader"].at = "idle" /\ requests # <<>>
    /\ requests' = Tail(requests)
    /\ IF Caches(job)
       THEN /\ cache' = [groups |-> job.groups, revision |-> job.revision]
            /\ IF job.groups = cache.groups
               THEN Replies(job, TRUE) /\ UNCHANGED thread
               ELSE /\ thread' = [thread EXCEPT !["reader"].at = "refresh",
                                                !["reader"].job = job]
                    /\ UNCHANGED replies
       ELSE Replies(job, FALSE) /\ UNCHANGED <<cache, thread>>
    /\ UNCHANGED <<hostVars, hostPhase, published, queue, applied, raced, turns, faults>>

(* The reducer and the supervisor move the host to another phase.          *)
Turn(now) ==
    /\ turns < MaxTurns /\ now # hostPhase
    /\ hostPhase' = now
    /\ turns' = turns + 1
    /\ UNCHANGED <<hostVars, wireVars, cache, published, thread, queue, applied,
                   raced, faults>>

(* The supervisor's observer, which passes on only what has changed.  The  *)
(* fingerprint it compares is of the whole snapshot, so each turn has its  *)
(* own.                                                                    *)
Observe ==
    /\ thread["supervisor"].at = "idle" /\ turns # published
    /\ published' = turns
    /\ thread' = [thread EXCEPT !["supervisor"].at = "refresh"]
    /\ UNCHANGED <<hostVars, wireVars, cache, hostPhase, queue, applied, raced, turns, faults>>

(* refresh reads the lifecycle under its lock...                           *)
ReadPhase(t) ==
    /\ thread[t].at = "refresh"
    /\ thread' = [thread EXCEPT ![t].at = "merge", ![t].phase = hostPhase]
    /\ UNCHANGED <<hostVars, wireVars, cache, hostPhase, published, queue, applied, raced,
                   turns, faults>>

(* ... merges it with the cache under the lock of the tray...              *)
MutMerge(t) ==
    /\ thread[t].at = "merge"
    /\ thread' = [thread EXCEPT ![t].at = "compare",
                                ![t].menu = <<applied[1], thread[t].phase>>]
    /\ UNCHANGED <<hostVars, wireVars, cache, hostPhase, published, queue, applied, raced,
                   turns, faults>>

Merge(t) ==
    /\ thread[t].at = "merge"
    /\ thread' = [thread EXCEPT ![t].at = "compare",
                                ![t].menu = <<cache.groups, thread[t].phase>>]
    /\ UNCHANGED <<hostVars, wireVars, cache, hostPhase, published, queue, applied, raced,
                   turns, faults>>

(* ... and, under it again, compares the menu with the one in the tray.    *)
Overtaken(t) == \E u \in Threads \ {t} : thread[u].at \in {"merge", "compare"}

(* The end of refresh, and of apply_host_snapshot when it called it.       *)
Returns(t, ok) ==
    /\ thread' = [thread EXCEPT ![t] = Resting]
    /\ IF t = "reader" THEN Replies(thread[t].job, ok) ELSE UNCHANGED replies

Compare(t) ==
    /\ thread[t].at = "compare"
    /\ queue' = IF thread[t].menu = applied THEN queue ELSE Append(queue, thread[t].menu)
    /\ raced' = (raced \/ Overtaken(t) \/ (thread[t].menu = applied /\ queue # <<>>)
                       \/ (\E u \in Threads \ {t} : thread[u].at = "refresh"))
    /\ Returns(t, TRUE)
    /\ UNCHANGED <<hostVars, requests, cache, hostPhase, published, applied, turns, faults>>

(* run_on_main_thread refuses the closure.                                 *)
RefreshFails(t) ==
    /\ thread[t].at = "compare" /\ thread[t].menu # applied
    /\ faults < MaxFaults
    /\ faults' = faults + 1
    /\ raced' = TRUE
    /\ Returns(t, FALSE)
    /\ UNCHANGED <<hostVars, requests, cache, hostPhase, published, queue, applied, turns>>

(* The main thread runs a closure.                                         *)
Apply ==
    /\ queue # <<>>
    /\ applied' = Head(queue)
    /\ queue' = Tail(queue)
    /\ UNCHANGED <<hostVars, wireVars, cache, hostPhase, published, thread, raced, turns,
                   faults>>

-----------------------------------------------------------------------------
Host == Attach \/ FlushUpdate \/ Push \/ Answered \/ PushTimesOut \/ CloseTray
            \/ \E call \in Calls, groups \in Contents : SetGroups(call, groups)
Refreshes(t) == ReadPhase(t) \/ Merge(t) \/ Compare(t) \/ RefreshFails(t)
Shell == Ingress \/ Observe \/ Apply \/ \E t \in Threads : Refreshes(t)

TrayNext == Host \/ Shell \/ \E now \in Phases : Turn(now)

TraySpec == TrayInit /\ [][TrayNext]_trayVars

(* Microtasks run, the link carries what it is given, and no thread of the *)
(* shell stops; plugins, the user and faults are owed nothing.  That some  *)
(* one of these goes on is enough, and weaker.                             *)
TrayFairness ==
    WF_trayVars(\/ FlushUpdate \/ Push \/ Answered \/ Ingress \/ Observe \/ Apply
                \/ \E t \in Threads : ReadPhase(t) \/ Merge(t) \/ Compare(t))

FairTraySpec == TraySpec /\ TrayFairness

-----------------------------------------------------------------------------
(* Properties. *)

TrayTypeOK ==
    /\ service \in [content : Held, pushed : Held, last : Held, revision : Nat,
                    attached : BOOLEAN, closed : BOOLEAN]
    /\ update \in Job \cup {NoJob}
    /\ chain \in Seq(Job) /\ requests \in Seq(Job)
    /\ pushing \in BOOLEAN /\ (pushing => chain # <<>>)
    /\ verdict \in [Calls -> Verdicts \cup {"uncalled", "waiting"}]
    /\ replies \in Seq([revision : Nat, ok : BOOLEAN])
    /\ cache \in [groups : Held, revision : Nat]
    /\ hostPhase \in Phases /\ published \in 0..MaxTurns
    /\ thread \in [Threads -> [at : {"idle", "refresh", "merge", "compare"},
                               phase : Phases \cup {Nothing}, menu : Menus \cup {Nothing},
                               job : Job \cup {NoJob}]]
    /\ queue \in Seq(Menus) /\ applied \in Menus
    /\ turns \in 0..MaxTurns /\ faults \in 0..MaxFaults
    /\ wanted \in Held /\ failed \in BOOLEAN /\ raced \in BOOLEAN

HostAtRest  == update = NoJob /\ chain = <<>>
ShellAtRest == /\ requests = <<>> /\ queue = <<>> /\ turns = published
               /\ \A t \in Threads : thread[t].at = "idle"

(* No call of setGroups waits for ever (there are MaxCalls of them), also  *)
(* one that is superseded, or whose push is refused, times out or finds    *)
(* the service closed.                                                     *)
CallsAreAnswered == <>[](\A c \in Calls : verdict[c] # "waiting")

(* While no push fails, the groups asked for last are those the shell has  *)
(* once the service is at rest, however calls, the attachment and pushes   *)
(* overlap.                                                                *)
LastCallWins ==
    service.attached /\ ~service.closed /\ HostAtRest /\ ~failed =>
        cache.groups = wanted /\ service.content = wanted /\ service.pushed = wanted

(* Of groups that were refused, nothing is kept: when no answer was late,  *)
(* what the service takes for pushed is what the shell has, and to publish *)
(* the groups again is to push them again.                                 *)
PushedIsHeld ==
    ~service.closed /\ HostAtRest /\ requests = <<>> /\ faults = 0 =>
        /\ service.pushed = cache.groups
        /\ \A groups \in Refused : service.attached => service.content # groups

(* At rest the tray shows the groups that are cached under the phase that  *)
(* the host is in, unless two refreshes overlapped or one of them compared *)
(* its menu with the tray while a closure was queued.                      *)
MenuIsCurrent == ShellAtRest /\ ~raced => applied = <<cache.groups, hostPhase>>

(* The same without the exception.  refresh is said to be safe to call     *)
(* from any thread; the tray may keep a menu that is neither.              *)
MenuCatchesUp == ShellAtRest /\ faults = 0 => applied = <<cache.groups, hostPhase>>
=============================================================================
