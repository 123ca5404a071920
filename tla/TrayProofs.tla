----------------------------- MODULE TrayProofs -----------------------------
(***************************************************************************)
(* Theorems about the tray's menu on its way from a plugin to the screen   *)
(* (Tray), for any groups, any number of calls, turns and faults.          *)
(*                                                                         *)
(* Until a push is given up one request is under way, and it is the head   *)
(* of the chain: so what the shell has cached is what the service takes    *)
(* for pushed whenever the service rests.  The newest of what is queued,   *)
(* chained and pushed is what was asked for last.  Refused groups are      *)
(* nowhere but on their way to being refused.  On the screen a refresh is  *)
(* at work that read what is current, both threads refresh, or what the    *)
(* main thread comes to is current.                                        *)
(***************************************************************************)
EXTENDS Tray, SequenceTheorems, TLAPS

-----------------------------------------------------------------------------
(* Types.                                                                  *)

Services ==
    [content : Held, pushed : Held, last : Held, revision : Nat,
     attached : BOOLEAN, closed : BOOLEAN]
Told     == [Calls -> Verdicts \cup {"uncalled", "waiting"}]
Answers  == [revision : Nat, ok : BOOLEAN]
CacheStates == [groups : Held, revision : Nat]
Workers  == [at : {"idle", "refresh", "merge", "compare"}, phase : Phases \cup {Nothing},
             menu : Menus \cup {Nothing}, job : Job \cup {NoJob}]

HostTypes ==
    /\ service \in Services /\ update \in Job \cup {NoJob} /\ chain \in Seq(Job)
    /\ pushing \in BOOLEAN /\ (pushing => chain # <<>>)
    /\ verdict \in Told /\ wanted \in Held /\ failed \in BOOLEAN
WireTypes == requests \in Seq(Job) /\ replies \in Seq(Answers)
MenuTypes ==
    /\ cache \in CacheStates /\ hostPhase \in Phases /\ published \in 0..MaxTurns
    /\ queue \in Seq(Menus) /\ applied \in Menus /\ raced \in BOOLEAN
    /\ turns \in 0..MaxTurns /\ faults \in 0..MaxFaults

\* What a thread has read where it is.
HasRead(w) ==
    /\ w.at = "idle" => w.job = NoJob
    /\ w.at = "merge" => w.phase \in Phases
    /\ w.at = "compare" => w.menu \in Menus
ThreadTypes == thread \in [Threads -> Workers] /\ \A t \in Threads : HasRead(thread[t])

\* One revision for each call and one for the attachment.
Attachments == IF service.attached THEN 1 ELSE 0
RevisionInv ==
    /\ service.revision <= MaxCalls + Attachments
    /\ \A c \in Calls : verdict[c] = "uncalled" => service.revision <= (c - 1) + Attachments

Types == HostTypes /\ WireTypes /\ MenuTypes /\ ThreadTypes /\ RevisionInv

LEMMA JobFields ==
    ASSUME TrayBounds
    PROVE  /\ \A job \in Job : job # NoJob /\ job.groups \in Contents /\ job.revision \in Nat
           /\ NoJob.groups = Nothing /\ NoJob.revision \in Nat /\ NoJob \notin Job
BY DEF TrayBounds, Job, NoJob, Calls

LEMMA TypesInit == ASSUME TrayBounds, TrayInit PROVE Types
<1>1. HostTypes
  <2>1. service \in Services /\ wanted \in Held
    BY DEF TrayInit, Services, Held
  <2>2. verdict \in Told
    BY DEF TrayInit, Told
  <2>3. chain \in Seq(Job) /\ update \in Job \cup {NoJob}
    BY DEF TrayInit
  <2> QED BY <2>1, <2>2, <2>3 DEF TrayInit, HostTypes
<1>2. WireTypes
  BY DEF TrayInit, WireTypes
<1>3. MenuTypes
  <2>1. cache \in CacheStates
    BY DEF TrayInit, CacheStates, Held
  <2>2. applied \in Menus /\ queue \in Seq(Menus) /\ hostPhase \in Phases
    BY DEF TrayInit, Held, Menus, TrayBounds
  <2>3. published \in 0..MaxTurns /\ turns \in 0..MaxTurns /\ faults \in 0..MaxFaults
    BY DEF TrayInit, TrayBounds
  <2>4. raced \in BOOLEAN
    BY DEF TrayInit
  <2> QED BY <2>1, <2>2, <2>3, <2>4 DEF MenuTypes
<1>4. ThreadTypes
  BY DEF TrayInit, ThreadTypes, Workers, HasRead, Resting
<1>5. RevisionInv
  BY DEF TrayInit, RevisionInv, Attachments, TrayBounds, Calls
<1> QED BY <1>1, <1>2, <1>3, <1>4, <1>5 DEF Types

\* Sequences of what is queued.
LEMMA QueueTail ==
    ASSUME NEW S, NEW q \in Seq(S), q # <<>>
    PROVE  Head(q) \in S /\ Tail(q) \in Seq(S)
OBVIOUS

LEMMA TellKeeps ==
    ASSUME NEW told \in Told, NEW calls, NEW what \in Verdicts
    PROVE  /\ Tell(told, calls, what) \in Told
           /\ \A c \in Calls : Tell(told, calls, what)[c] = "uncalled" => told[c] = "uncalled"
BY DEF Told, Tell, Verdicts

LEMMA TypesSetGroups ==
    ASSUME TrayBounds, Types, NEW call \in Calls, NEW groups \in Contents,
           SetGroups(call, groups)
    PROVE  Types'
<1>1. WireTypes' /\ MenuTypes' /\ ThreadTypes'
  BY DEF Types, SetGroups, wireVars, shellVars, WireTypes, MenuTypes, ThreadTypes, HasRead
<1>2. call \in Nat /\ call >= 1 /\ call <= MaxCalls /\ \A c \in Calls : c \in Nat
  BY DEF TrayBounds, Calls
<1>3. /\ verdict[call] = "uncalled" /\ \A c \in Calls : c < call => verdict[c] # "uncalled"
      /\ UNCHANGED <<chain, pushing, failed>>
  BY DEF SetGroups
<1>4. service \in Services /\ verdict \in Told /\ service.revision \in Nat
  BY DEF Types, HostTypes, Services
<1>5. CASE service.closed
  <2>1. UNCHANGED <<service, update, wanted>> /\ verdict' = [verdict EXCEPT ![call] = "closed"]
    BY <1>5 DEF SetGroups
  <2>2. HostTypes'
    BY <1>3, <2>1 DEF Types, HostTypes, Told, Verdicts
  <2>3. RevisionInv'
    BY <1>4, <2>1 DEF Types, RevisionInv, Attachments, Told
  <2> QED BY <1>1, <2>2, <2>3 DEF Types
<1>6. CASE ~service.closed /\ groups = service.content
  <2>1. /\ service' = [service EXCEPT !.last = groups] /\ wanted' = groups
        /\ verdict' = [verdict EXCEPT ![call] = "unchanged"] /\ UNCHANGED update
    BY <1>6 DEF SetGroups
  <2>2. HostTypes'
    BY <1>3, <2>1 DEF Types, HostTypes, Told, Verdicts, Services, Held
  <2>3. service'.revision = service.revision /\ service'.attached = service.attached
    BY <1>4, <2>1 DEF Services
  <2>4. RevisionInv'
    BY <1>4, <2>1, <2>3 DEF Types, RevisionInv, Attachments, Told
  <2> QED BY <1>1, <2>2, <2>4 DEF Types
<1>7. CASE ~service.closed /\ groups # service.content
  <2> DEFINE waiting == [verdict EXCEPT ![call] = "waiting"]
  <2>1. wanted' = groups /\ Enqueued(groups, {call}, waiting)
    BY <1>7 DEF SetGroups
  <2>2. /\ service' = [service EXCEPT !.content = groups, !.last = groups, !.revision = @ + 1]
        /\ update' = [groups |-> groups, revision |-> service.revision + 1, waiters |-> {call}]
        /\ verdict' = Tell(waiting, update.waiters, "coalesced")
    BY <2>1 DEF Enqueued
  <2>3. /\ waiting \in Told /\ waiting[call] = "waiting"
        /\ \A c \in Calls : c # call => waiting[c] = verdict[c]
    BY <1>4 DEF Told
  <2>4. /\ verdict' \in Told
        /\ \A c \in Calls : verdict'[c] = "uncalled" => waiting[c] = "uncalled"
    <3>1. "coalesced" \in Verdicts
      BY DEF Verdicts
    <3> HIDE DEF waiting
    <3> QED BY <2>2, <2>3, <3>1, TellKeeps
  <2>5. /\ service' \in Services /\ service'.revision = service.revision + 1
        /\ service'.attached = service.attached
    <3>1. groups \in Held
      BY DEF Held
    <3>2. service'.revision = service.revision + 1 /\ service'.attached = service.attached
      BY <1>4, <2>2 DEF Services
    <3>3. service.revision + 1 \in Nat
      BY <1>4
    <3> QED BY <1>4, <2>2, <3>1, <3>2, <3>3 DEF Services
  <2>6. service.revision <= (call - 1) + Attachments
    BY <1>3 DEF Types, RevisionInv
  <2>7. Attachments \in {0, 1} /\ Attachments' = Attachments
    BY <2>5 DEF Attachments
  <2>8. service.revision + 1 \in Calls \cup {MaxCalls + 1}
    BY <1>2, <1>4, <2>6, <2>7 DEF Calls, TrayBounds
  <2>9. update' \in Job
    BY <2>2, <2>8 DEF Job
  <2>10. HostTypes'
    BY <1>3, <2>1, <2>4, <2>5, <2>9 DEF Types, HostTypes, Held
  <2>11. RevisionInv'
    <3>1. service'.revision <= MaxCalls + Attachments'
      BY <1>2, <1>4, <2>5, <2>6, <2>7 DEF TrayBounds
    <3>2. ASSUME NEW c \in Calls, verdict'[c] = "uncalled"
          PROVE  service'.revision <= (c - 1) + Attachments'
      <4>1. verdict[c] = "uncalled" /\ c # call
        BY <2>3, <2>4, <3>2
      <4>2. c > call
        BY <1>2, <1>3, <4>1
      <4> QED BY <1>2, <1>4, <2>5, <2>6, <2>7, <4>2
    <3> QED BY <3>1, <3>2 DEF RevisionInv
  <2> QED BY <1>1, <2>10, <2>11 DEF Types
<1> QED BY <1>5, <1>6, <1>7

LEMMA TypesAttach == ASSUME TrayBounds, Types, Attach PROVE Types'
<1>1. WireTypes' /\ MenuTypes' /\ ThreadTypes'
  BY DEF Types, Attach, wireVars, shellVars, WireTypes, MenuTypes, ThreadTypes, HasRead
<1>2. ~service.attached /\ UNCHANGED <<chain, pushing, failed, wanted>>
  BY DEF Attach
<1>3. /\ service \in Services /\ verdict \in Told /\ service.revision \in Nat
      /\ service.revision <= MaxCalls
      /\ \A c \in Calls : verdict[c] = "uncalled" => service.revision <= c - 1
  BY <1>2 DEF Types, HostTypes, Services, RevisionInv, Attachments, TrayBounds, Calls
<1>4. \A c \in Calls : c \in Nat
  BY DEF Calls
<1>5. CASE service.content # service.pushed /\ service.last # Nothing
  <2>1. /\ update' = [groups |-> service.last, waiters |-> {}, revision |-> service.revision + 1]
        /\ service' = [service EXCEPT !.attached = TRUE, !.revision = @ + 1,
                                      !.content = service.last]
        /\ verdict' = Tell(verdict, update.waiters, "coalesced")
    BY <1>5 DEF Attach
  <2>2. /\ service' \in Services /\ service'.revision = service.revision + 1
        /\ service'.attached = TRUE
    <3>1. service.revision + 1 \in Nat /\ service.last \in Held
      BY <1>3 DEF Services
    <3>2. service'.revision = service.revision + 1 /\ service'.attached = TRUE
      BY <1>3, <2>1 DEF Services
    <3> QED BY <1>3, <2>1, <3>1, <3>2 DEF Services
  <2>3. verdict' \in Told /\ \A c \in Calls : verdict'[c] = "uncalled" => verdict[c] = "uncalled"
    BY <1>3, <2>1, TellKeeps DEF Verdicts
  <2>4. service.revision + 1 \in Calls \cup {MaxCalls + 1} /\ service.last \in Contents
    BY <1>3, <1>5 DEF Calls, TrayBounds, Services, Held
  <2>5. update' \in Job
    BY <2>1, <2>4 DEF Job
  <2>6. HostTypes'
    BY <1>2, <2>2, <2>3, <2>5 DEF Types, HostTypes
  <2>7. Attachments' = 1
    BY <2>2 DEF Attachments
  <2>8. RevisionInv'
    BY <1>3, <1>4, <2>2, <2>3, <2>7 DEF RevisionInv, TrayBounds
  <2> QED BY <1>1, <2>6, <2>8 DEF Types
<1>6. CASE ~(service.content # service.pushed /\ service.last # Nothing)
  <2>1. service' = [service EXCEPT !.attached = TRUE] /\ UNCHANGED <<update, verdict>>
    BY <1>6 DEF Attach
  <2>2. service' \in Services /\ service'.revision = service.revision /\ service'.attached = TRUE
    BY <1>3, <2>1 DEF Services
  <2>3. HostTypes'
    BY <1>2, <2>1, <2>2 DEF Types, HostTypes
  <2>4. Attachments' = 1
    BY <2>2 DEF Attachments
  <2>5. RevisionInv'
    BY <1>3, <1>4, <2>1, <2>2, <2>4 DEF RevisionInv, TrayBounds
  <2> QED BY <1>1, <2>3, <2>5 DEF Types
<1> QED BY <1>5, <1>6

LEMMA TypesFlush == ASSUME TrayBounds, Types, FlushUpdate PROVE Types'
<1>1. update \in Job /\ chain' = Append(chain, update) /\ update' = NoJob
  BY DEF FlushUpdate, Types, HostTypes
<1>2. chain' \in Seq(Job) /\ chain' # <<>>
  BY <1>1 DEF Types, HostTypes
<1>3. HostTypes'
  BY <1>1, <1>2 DEF FlushUpdate, Types, HostTypes
<1>4. WireTypes' /\ MenuTypes' /\ ThreadTypes' /\ RevisionInv'
  BY DEF Types, FlushUpdate, wireVars, shellVars, WireTypes, MenuTypes, ThreadTypes, HasRead,
         RevisionInv, Attachments
<1> QED BY <1>3, <1>4 DEF Types

LEMMA TypesPush == ASSUME TrayBounds, Types, Push PROVE Types'
<1>1. chain \in Seq(Job) /\ chain # <<>> /\ requests \in Seq(Job) /\ verdict \in Told
  BY DEF Push, Types, HostTypes, WireTypes
<1>2. Head(chain) \in Job /\ Tail(chain) \in Seq(Job)
  BY <1>1, QueueTail
<1>3. MenuTypes' /\ ThreadTypes'
  BY DEF Types, Push, shellVars, MenuTypes, ThreadTypes, HasRead
<1>4. CASE service.attached
  <2>1. /\ requests' = Append(requests, Head(chain)) /\ pushing' = TRUE
        /\ UNCHANGED <<chain, verdict>>
    BY <1>4 DEF Push
  <2>2. HostTypes' /\ WireTypes' /\ RevisionInv'
    BY <1>1, <1>2, <2>1 DEF Types, Push, HostTypes, WireTypes, RevisionInv, Attachments
  <2> QED BY <1>3, <2>2 DEF Types
<1>5. CASE ~service.attached
  <2>1. /\ verdict' = Tell(verdict, Head(chain).waiters, "no-shell") /\ chain' = Tail(chain)
        /\ UNCHANGED <<requests, pushing>> /\ pushing = FALSE
    BY <1>5 DEF Push, Types, HostTypes
  <2>2. "no-shell" \in Verdicts
    BY DEF Verdicts
  <2>3. verdict' \in Told /\ \A c \in Calls : verdict'[c] = "uncalled" => verdict[c] = "uncalled"
    BY <1>1, <2>1, <2>2, TellKeeps
  <2>4. HostTypes' /\ WireTypes'
    BY <1>1, <1>2, <2>1, <2>3 DEF Types, Push, HostTypes, WireTypes
  <2>5. RevisionInv'
    BY <2>3 DEF Types, Push, RevisionInv, Attachments
  <2> QED BY <1>3, <2>4, <2>5 DEF Types
<1> QED BY <1>4, <1>5

LEMMA TypesSettles ==
    ASSUME TrayBounds, Types, pushing, NEW ok \in BOOLEAN, Settles(ok),
           UNCHANGED <<update, wanted>>
    PROVE  HostTypes' /\ RevisionInv'
<1>1. chain \in Seq(Job) /\ chain # <<>> /\ verdict \in Told /\ service \in Services
  BY DEF Types, HostTypes
<1>2. Head(chain) \in Job /\ Tail(chain) \in Seq(Job) /\ Head(chain).groups \in Held
  <2>1. Head(chain) \in Job /\ Tail(chain) \in Seq(Job)
    BY <1>1, QueueTail
  <2> QED BY <2>1 DEF Job, Held
<1>3. /\ service' = IF ok THEN [service EXCEPT !.pushed = Head(chain).groups]
                    ELSE [service EXCEPT !.content = RolledBack(Head(chain).groups)]
      /\ verdict' = Tell(verdict, Head(chain).waiters, IF ok THEN "pushed" ELSE "error")
      /\ failed' = (failed \/ ~ok) /\ chain' = Tail(chain) /\ pushing' = FALSE
  BY DEF Settles
<1>4. (IF ok THEN "pushed" ELSE "error") \in Verdicts
  BY DEF Verdicts
<1>5. verdict' \in Told /\ \A c \in Calls : verdict'[c] = "uncalled" => verdict[c] = "uncalled"
  BY <1>1, <1>3, <1>4, TellKeeps
<1>6. RolledBack(Head(chain).groups) \in Held
  BY <1>1 DEF RolledBack, Services
<1>7. /\ service' \in Services /\ service'.revision = service.revision
      /\ service'.attached = service.attached
  BY <1>1, <1>2, <1>3, <1>6 DEF Services
<1>8. HostTypes'
  BY <1>2, <1>3, <1>5, <1>7 DEF Types, HostTypes
<1>9. RevisionInv'
  BY <1>5, <1>7 DEF Types, RevisionInv, Attachments
<1> QED BY <1>8, <1>9

LEMMA TypesAnswered == ASSUME TrayBounds, Types, Answered PROVE Types'
<1>1. MenuTypes' /\ ThreadTypes'
  BY DEF Types, Answered, shellVars, MenuTypes, ThreadTypes, HasRead
<1>2. Head(replies) \in Answers /\ Tail(replies) \in Seq(Answers)
  BY QueueTail DEF Answered, Types, WireTypes
<1>3. WireTypes'
  BY <1>2 DEF Answered, Types, WireTypes
<1>4. CASE pushing /\ Head(chain).revision = Head(replies).revision
  <2>1. Settles(Head(replies).ok) /\ UNCHANGED <<update, wanted>> /\ Head(replies).ok \in BOOLEAN
    BY <1>2, <1>4 DEF Answered, Answers
  <2> QED BY <1>1, <1>3, <1>4, <2>1, TypesSettles DEF Types
<1>5. CASE ~(pushing /\ Head(chain).revision = Head(replies).revision)
  <2>1. HostTypes' /\ RevisionInv'
    BY <1>5 DEF Answered, hostVars, Types, HostTypes, RevisionInv, Attachments
  <2> QED BY <1>1, <1>3, <2>1 DEF Types
<1> QED BY <1>4, <1>5

LEMMA TypesTimesOut == ASSUME TrayBounds, Types, PushTimesOut PROVE Types'
<1>1. HostTypes' /\ RevisionInv'
  BY TypesSettles DEF PushTimesOut
<1>2. WireTypes' /\ MenuTypes' /\ ThreadTypes'
  BY DEF Types, PushTimesOut, wireVars, shellVars, WireTypes, MenuTypes, ThreadTypes, HasRead,
         TrayBounds
<1> QED BY <1>1, <1>2 DEF Types

LEMMA TypesClose == ASSUME TrayBounds, Types, CloseTray PROVE Types'
<1>1. WireTypes' /\ MenuTypes' /\ ThreadTypes'
  BY DEF Types, CloseTray, wireVars, shellVars, WireTypes, MenuTypes, ThreadTypes, HasRead
<1>2. "closed" \in Verdicts /\ verdict \in Told /\ service \in Services
  BY DEF Verdicts, Types, HostTypes
<1>3. verdict' \in Told /\ \A c \in Calls : verdict'[c] = "uncalled" => verdict[c] = "uncalled"
  BY <1>2, TellKeeps DEF CloseTray
<1>4. /\ service' \in Services /\ service'.revision = service.revision
      /\ service'.attached = service.attached
  BY <1>2 DEF CloseTray, Services
<1>5. HostTypes'
  BY <1>3, <1>4 DEF CloseTray, Types, HostTypes
<1>6. RevisionInv'
  BY <1>3, <1>4 DEF Types, RevisionInv, Attachments
<1> QED BY <1>1, <1>5, <1>6 DEF Types
\* The steps of the shell change neither the service nor what is told.
LEMMA HostRests == ASSUME Types, UNCHANGED hostVars PROVE HostTypes' /\ RevisionInv'
BY DEF Types, hostVars, HostTypes, RevisionInv, Attachments

\* What a thread goes on to.
LEMMA ThreadMoves ==
    ASSUME ThreadTypes, NEW t \in Threads, NEW w \in Workers, HasRead(w),
           thread' = [thread EXCEPT ![t] = w]
    PROVE  ThreadTypes'
BY DEF ThreadTypes

LEMMA RestingIsWorker == Resting \in Workers /\ HasRead(Resting)
BY DEF Resting, Workers, HasRead

LEMMA RepliesType ==
    ASSUME TrayBounds, WireTypes, NEW job \in Job \cup {NoJob}, NEW ok \in BOOLEAN,
           Replies(job, ok)
    PROVE  replies' \in Seq(Answers)
<1>1. [revision |-> job.revision, ok |-> ok] \in Answers
  BY JobFields DEF Answers
<1> QED BY <1>1 DEF WireTypes, Replies

LEMMA TypesIngress == ASSUME TrayBounds, Types, Ingress PROVE Types'
<1> DEFINE job == Head(requests)
<1>1. job \in Job /\ Tail(requests) \in Seq(Job) /\ replies \in Seq(Answers)
  BY QueueTail DEF Ingress, Types, WireTypes
<1>2. job.groups \in Held /\ job.revision \in Nat
  BY <1>1, JobFields DEF Held
<1>3. requests' = Tail(requests)
  BY DEF Ingress
<1>4. HostTypes' /\ RevisionInv'
  BY HostRests DEF Ingress
<1>5. cache' \in CacheStates
  <2>1. cache' \in {cache, [groups |-> job.groups, revision |-> job.revision]}
    BY DEF Ingress
  <2>2. [groups |-> job.groups, revision |-> job.revision] \in CacheStates
    BY <1>2 DEF CacheStates
  <2> HIDE DEF job
  <2> QED BY <2>1, <2>2 DEF Types, MenuTypes
<1>6. MenuTypes'
  BY <1>5 DEF Ingress, Types, MenuTypes
<1>7. CASE Caches(job) /\ job.groups # cache.groups
  <2>1. thread' = [thread EXCEPT !["reader"].at = "refresh", !["reader"].job = job]
        /\ UNCHANGED replies
    BY <1>7 DEF Ingress
  <2>2. [thread["reader"] EXCEPT !.at = "refresh", !.job = job] \in Workers
    BY <1>1 DEF Types, ThreadTypes, Threads, Workers
  <2>3. HasRead([thread["reader"] EXCEPT !.at = "refresh", !.job = job])
    BY DEF HasRead, Types, ThreadTypes, Threads, Workers
  <2>4. thread' = [thread EXCEPT !["reader"] =
                       [thread["reader"] EXCEPT !.at = "refresh", !.job = job]]
    BY <2>1
  <2>5. ThreadTypes'
    <3> HIDE DEF job
    <3> QED BY <2>2, <2>3, <2>4, ThreadMoves DEF Types, Threads
  <2> QED BY <1>1, <1>3, <1>4, <1>6, <2>1, <2>5 DEF Types, WireTypes
<1>8. CASE ~(Caches(job) /\ job.groups # cache.groups)
  <2>1. PICK ok \in BOOLEAN : Replies(job, ok) /\ UNCHANGED thread
    BY <1>8 DEF Ingress
  <2>2. replies' \in Seq(Answers)
    BY <1>1, <2>1, RepliesType DEF Types
  <2>3. ThreadTypes'
    BY <2>1 DEF Types, ThreadTypes, HasRead
  <2> QED BY <1>1, <1>3, <1>4, <1>6, <2>2, <2>3 DEF Types, WireTypes
<1> QED BY <1>7, <1>8

LEMMA TypesShell ==
    ASSUME TrayBounds, Types,
           \/ Observe \/ Apply
           \/ \E now \in Phases : Turn(now)
           \/ \E t \in Threads : ReadPhase(t) \/ Merge(t)
    PROVE  Types'
<1>1. HostTypes' /\ RevisionInv' /\ WireTypes'
  <2>1. UNCHANGED hostVars /\ UNCHANGED wireVars
    BY DEF Observe, Apply, Turn, ReadPhase, Merge
  <2> QED BY <2>1, HostRests DEF Types, wireVars, WireTypes
<1>2. CASE Observe
  <2>1. thread' = [thread EXCEPT !["supervisor"] =
                       [thread["supervisor"] EXCEPT !.at = "refresh"]]
    BY <1>2 DEF Observe
  <2>2. /\ [thread["supervisor"] EXCEPT !.at = "refresh"] \in Workers
        /\ HasRead([thread["supervisor"] EXCEPT !.at = "refresh"])
    BY DEF Types, ThreadTypes, Threads, Workers, HasRead
  <2>3. ThreadTypes'
    BY <2>1, <2>2, ThreadMoves DEF Types, Threads
  <2>4. MenuTypes'
    BY <1>2 DEF Observe, Types, MenuTypes
  <2> QED BY <1>1, <2>3, <2>4 DEF Types
<1>3. CASE Apply
  <2>1. Head(queue) \in Menus /\ Tail(queue) \in Seq(Menus)
    BY <1>3, QueueTail DEF Apply, Types, MenuTypes
  <2>2. MenuTypes' /\ ThreadTypes'
    BY <1>3, <2>1 DEF Apply, Types, MenuTypes, ThreadTypes, HasRead
  <2> QED BY <1>1, <2>2 DEF Types
<1>4. ASSUME NEW now \in Phases, Turn(now) PROVE Types'
  <2>1. MenuTypes' /\ ThreadTypes'
    BY <1>4 DEF Turn, Types, MenuTypes, ThreadTypes, HasRead, TrayBounds
  <2> QED BY <1>1, <2>1 DEF Types
<1>5. ASSUME NEW t \in Threads, ReadPhase(t) PROVE Types'
  <2>1. thread' = [thread EXCEPT ![t] = [thread[t] EXCEPT !.at = "merge", !.phase = hostPhase]]
    BY <1>5 DEF ReadPhase
  <2>2. /\ [thread[t] EXCEPT !.at = "merge", !.phase = hostPhase] \in Workers
        /\ HasRead([thread[t] EXCEPT !.at = "merge", !.phase = hostPhase])
    BY DEF Types, ThreadTypes, MenuTypes, Workers, HasRead
  <2>3. ThreadTypes'
    BY <2>1, <2>2, ThreadMoves DEF Types
  <2>4. MenuTypes'
    BY <1>5 DEF ReadPhase, Types, MenuTypes
  <2> QED BY <1>1, <2>3, <2>4 DEF Types
<1>6. ASSUME NEW t \in Threads, Merge(t) PROVE Types'
  <2> DEFINE menu == <<cache.groups, thread[t].phase>>
  <2>1. thread' = [thread EXCEPT ![t] = [thread[t] EXCEPT !.at = "compare", !.menu = menu]]
    BY <1>6 DEF Merge
  <2>2. menu \in Menus
    BY <1>6 DEF Merge, Types, ThreadTypes, HasRead, MenuTypes, CacheStates, Menus
  <2>3. /\ [thread[t] EXCEPT !.at = "compare", !.menu = menu] \in Workers
        /\ HasRead([thread[t] EXCEPT !.at = "compare", !.menu = menu])
    <3> HIDE DEF menu
    <3> QED BY <2>2 DEF Types, ThreadTypes, Workers, HasRead
  <2>4. ThreadTypes'
    <3> HIDE DEF menu
    <3> QED BY <2>1, <2>3, ThreadMoves DEF Types
  <2>5. MenuTypes'
    BY <1>6 DEF Merge, Types, MenuTypes
  <2> QED BY <1>1, <2>4, <2>5 DEF Types
<1> QED BY <1>2, <1>3, <1>4, <1>5, <1>6

LEMMA TypesReturns ==
    ASSUME TrayBounds, Types, NEW t \in Threads, NEW ok \in BOOLEAN, Returns(t, ok)
    PROVE  ThreadTypes' /\ replies' \in Seq(Answers)
<1>1. ThreadTypes'
  BY RestingIsWorker, ThreadMoves DEF Returns, Types
<1>2. thread[t].job \in Job \cup {NoJob}
  BY DEF Types, ThreadTypes, Workers
<1>3. replies' \in Seq(Answers)
  BY <1>2, RepliesType DEF Returns, Types, WireTypes
<1> QED BY <1>1, <1>3

LEMMA TypesCompare ==
    ASSUME TrayBounds, Types, NEW t \in Threads, Compare(t) \/ RefreshFails(t)
    PROVE  Types'
<1>1. UNCHANGED hostVars /\ UNCHANGED <<requests, cache, hostPhase, published, applied, turns>>
  BY DEF Compare, RefreshFails
<1>2. ThreadTypes' /\ replies' \in Seq(Answers)
  BY TypesReturns DEF Compare, RefreshFails
<1>3. thread[t].menu \in Menus
  BY DEF Compare, RefreshFails, Types, ThreadTypes, HasRead
<1>4. queue' \in Seq(Menus)
  <2>1. queue' \in {queue, Append(queue, thread[t].menu)}
    BY DEF Compare, RefreshFails
  <2>2. queue \in Seq(Menus)
    BY DEF Types, MenuTypes
  <2> QED BY <1>3, <2>1, <2>2
<1>5. raced' \in BOOLEAN /\ faults' \in 0..MaxFaults
  <2>1. raced' \in BOOLEAN
    BY DEF Compare, RefreshFails
  <2>2. faults' = faults \/ (faults < MaxFaults /\ faults' = faults + 1)
    BY DEF Compare, RefreshFails
  <2>3. faults \in 0..MaxFaults
    BY DEF Types, MenuTypes
  <2> QED BY <2>1, <2>2, <2>3 DEF TrayBounds
<1>6. MenuTypes'
  BY <1>1, <1>4, <1>5 DEF Types, MenuTypes
<1>7. HostTypes' /\ RevisionInv' /\ WireTypes'
  BY <1>1, <1>2, HostRests DEF Types, WireTypes
<1> QED BY <1>2, <1>6, <1>7 DEF Types

LEMMA TypesStep == TrayBounds /\ Types /\ [TrayNext]_trayVars => Types'
<1> SUFFICES ASSUME TrayBounds, Types, [TrayNext]_trayVars PROVE Types'
  OBVIOUS
<1>1. CASE UNCHANGED trayVars
  BY <1>1, HostRests DEF trayVars, hostVars, wireVars, shellVars, Types, WireTypes, MenuTypes,
         ThreadTypes, HasRead
<1>2. CASE Host
  BY <1>2, TypesAttach, TypesFlush, TypesPush, TypesAnswered, TypesTimesOut, TypesClose,
     TypesSetGroups DEF Host
<1>3. CASE Shell \/ \E now \in Phases : Turn(now)
  BY <1>3, TypesIngress, TypesShell, TypesCompare DEF Shell, Refreshes
<1> QED BY <1>1, <1>2, <1>3 DEF TrayNext

LEMMA TypesHold == TraySpec => []Types
BY TypesInit, TypesStep, TrayAssumption, PTL DEF TraySpec

\* The values are of their types, and revisions never outnumber what asks for
\* them: one for each call of setGroups and one for the attachment.
THEOREM TypeCorrect == TraySpec => []TrayTypeOK
<1>1. Types => TrayTypeOK
  BY DEF Types, TrayTypeOK, HostTypes, WireTypes, MenuTypes, ThreadTypes, Services, Told,
     Answers, CacheStates, Workers
<1> QED BY <1>1, TypesHold, PTL

-----------------------------------------------------------------------------
(* What was asked for last is the newest of what is on its way.            *)

ReaderRests == thread["reader"].at = "idle"
Quiet == ~pushing /\ requests = <<>> /\ replies = <<>> /\ ReaderRests

Newest ==
    IF update # NoJob THEN update.groups
    ELSE IF chain # <<>> THEN chain[Len(chain)].groups
    ELSE service.pushed

NothingYet == /\ service.content = Nothing /\ service.pushed = Nothing
              /\ update = NoJob /\ chain = <<>>

AskedInv ==
    /\ service.last = wanted
    /\ wanted = Nothing => NothingYet
    /\ ~service.attached => Quiet /\ service.pushed = Nothing
    /\ ~failed => service.content = wanted
    /\ ~failed /\ service.attached /\ ~service.closed => Newest = service.content

LEMMA AskedInit == ASSUME TrayInit PROVE AskedInv
BY DEF TrayInit, AskedInv, NothingYet, Quiet, ReaderRests, Resting, Threads, Newest

\* A quiet shell stays so unless the service pushes.
LEMMA ShellStaysQuiet ==
    ASSUME Types, Quiet,
           \/ Shell
           \/ \E now \in Phases : Turn(now)
    PROVE  Quiet'
<1>1. CASE Ingress
  BY <1>1 DEF Ingress, Quiet
<1>2. CASE Observe
  BY <1>2 DEF Observe, Quiet, ReaderRests, hostVars, wireVars, Types, ThreadTypes, Threads
<1>3. CASE Apply \/ \E now \in Phases : Turn(now)
  BY <1>3 DEF Apply, Turn, Quiet, ReaderRests, hostVars, wireVars
<1>4. ASSUME NEW t \in Threads, Refreshes(t) PROVE Quiet'
  <2>1. t # "reader"
    BY <1>4 DEF Refreshes, ReadPhase, Merge, Compare, RefreshFails, Quiet, ReaderRests
  <2>2. UNCHANGED <<pushing, requests, replies>>
    BY <1>4, <2>1 DEF Refreshes, ReadPhase, Merge, Compare, RefreshFails, Returns,
       hostVars, wireVars
  <2>3. thread'["reader"] = thread["reader"]
    BY <1>4, <2>1 DEF Refreshes, ReadPhase, Merge, Compare, RefreshFails, Returns, Types,
       ThreadTypes, Threads
  <2> QED BY <2>2, <2>3 DEF Quiet, ReaderRests
<1> QED BY <1>1, <1>2, <1>3, <1>4 DEF Shell

LEMMA AskedShell ==
    ASSUME Types, AskedInv, Shell \/ \E now \in Phases : Turn(now)
    PROVE  AskedInv'
<1>1. UNCHANGED hostVars
  BY DEF Shell, Ingress, Observe, Apply, Refreshes, ReadPhase, Merge, Compare, RefreshFails,
         Turn
<1>2. ~service.attached => Quiet'
  BY ShellStaysQuiet DEF AskedInv
<1> QED BY <1>1, <1>2 DEF AskedInv, hostVars, NothingYet, Newest

LEMMA AskedSetGroups ==
    ASSUME TrayBounds, Types, AskedInv, NEW call \in Calls, NEW groups \in Contents,
           SetGroups(call, groups)
    PROVE  AskedInv'
<1>1. UNCHANGED <<chain, pushing, failed, requests, replies, thread>> /\ service \in Services
  BY DEF SetGroups, wireVars, shellVars, Types, HostTypes
<1>2. Quiet' = Quiet /\ groups # Nothing
  BY <1>1 DEF Quiet, ReaderRests, TrayBounds
<1>3. CASE service.closed
  BY <1>1, <1>2, <1>3 DEF SetGroups, AskedInv, NothingYet, Newest
<1>4. CASE ~service.closed /\ groups = service.content
  <2>1. service' = [service EXCEPT !.last = groups] /\ wanted' = groups /\ UNCHANGED update
    BY <1>4 DEF SetGroups
  <2>2. /\ service'.last = groups /\ service'.content = service.content
        /\ service'.pushed = service.pushed /\ service'.attached = service.attached
        /\ service'.closed = service.closed
    BY <1>1, <2>1 DEF Services
  <2>3. Newest' = Newest
    BY <1>1, <2>1, <2>2 DEF Newest
  <2> QED BY <1>1, <1>2, <1>4, <2>1, <2>2, <2>3 DEF AskedInv
<1>5. CASE ~service.closed /\ groups # service.content
  <2>1. /\ service' = [service EXCEPT !.content = groups, !.last = groups, !.revision = @ + 1]
        /\ update' = [groups |-> groups, revision |-> service.revision + 1, waiters |-> {call}]
        /\ wanted' = groups
    BY <1>5 DEF SetGroups, Enqueued
  <2>2. /\ service'.last = groups /\ service'.content = groups
        /\ service'.pushed = service.pushed /\ service'.attached = service.attached
    BY <1>1, <2>1 DEF Services
  <2>3. update' # NoJob /\ update'.groups = groups
    BY <1>2, <2>1 DEF NoJob
  <2>4. Newest' = groups
    BY <2>3 DEF Newest
  <2> QED BY <1>1, <1>2, <2>1, <2>2, <2>4 DEF AskedInv
<1> QED BY <1>3, <1>4, <1>5

LEMMA AskedAttach == ASSUME TrayBounds, Types, AskedInv, Attach PROVE AskedInv'
<1>1. UNCHANGED <<chain, failed, wanted>> /\ service \in Services /\ ~service.attached
  BY DEF Attach, Types, HostTypes
<1>2. service.pushed = Nothing /\ service.last = wanted
  BY <1>1 DEF AskedInv
<1>3. CASE service.content # service.pushed /\ service.last # Nothing
  <2>1. /\ update' = [groups |-> service.last, waiters |-> {}, revision |-> service.revision + 1]
        /\ service' = [service EXCEPT !.attached = TRUE, !.revision = @ + 1,
                                      !.content = service.last]
    BY <1>3 DEF Attach
  <2>2. service'.last = wanted /\ service'.content = wanted /\ service'.attached
    BY <1>1, <1>2, <2>1 DEF Services
  <2>3. update' # NoJob /\ update'.groups = wanted
    BY <1>2, <1>3, <2>1 DEF NoJob
  <2>4. Newest' = wanted
    BY <2>3 DEF Newest
  <2> QED BY <1>1, <1>2, <1>3, <2>2, <2>4 DEF AskedInv
<1>4. CASE ~(service.content # service.pushed /\ service.last # Nothing)
  <2>1. service' = [service EXCEPT !.attached = TRUE] /\ UNCHANGED update
    BY <1>4 DEF Attach
  <2>2. /\ service'.last = service.last /\ service'.content = service.content
        /\ service'.pushed = service.pushed /\ service'.attached
    BY <1>1, <2>1 DEF Services
  <2>3. ~failed => NothingYet
    BY <1>2, <1>4 DEF AskedInv, NothingYet
  <2>4. ~failed => Newest' = service'.content
    BY <1>1, <2>1, <2>2, <2>3 DEF NothingYet, Newest
  <2> QED BY <1>1, <2>1, <2>2, <2>4 DEF AskedInv, NothingYet
<1> QED BY <1>3, <1>4

LEMMA LastOfAppend ==
    ASSUME NEW S, NEW q \in Seq(S), NEW e \in S
    PROVE  /\ Append(q, e) # <<>> /\ Append(q, e)[Len(Append(q, e))] = e
           /\ q # <<>> => Head(Append(q, e)) = Head(q)
BY AppendProperties, HeadTailAppend

LEMMA LastOfTail ==
    ASSUME NEW S, NEW q \in Seq(S), q # <<>>
    PROVE  /\ Tail(q) # <<>> => Tail(q)[Len(Tail(q))] = q[Len(q)]
           /\ Tail(q) = <<>> => q[Len(q)] = Head(q)
<1>1. /\ Tail(q) \in Seq(S) /\ Len(Tail(q)) = Len(q) - 1 /\ Len(q) \in Nat
      /\ \A i \in 1..Len(Tail(q)) : Tail(q)[i] = q[i + 1]
  BY HeadTailProperties, LenProperties
<1>2. CASE Tail(q) = <<>>
  <2>1. Len(Tail(q)) = 0
    BY <1>1, <1>2, EmptySeq
  <2>2. Len(q) = 1
    <3>1. \A n, m \in Nat : m = 0 /\ m = n - 1 => n = 1
      OBVIOUS
    <3>2. Len(Tail(q)) \in Nat /\ Len(q) \in Nat /\ Len(Tail(q)) = Len(q) - 1
      BY <1>1, LenProperties
    <3> QED BY <2>1, <3>1, <3>2, Zenon
  <2>3. Head(q) = q[1]
    BY HeadTailProperties
  <2> QED BY <1>2, <2>2, <2>3
<1>3. CASE Tail(q) # <<>>
  <2>1. Len(Tail(q)) \in Nat \ {0}
    BY <1>1, <1>3, EmptySeq
  <2>2. Len(Tail(q)) \in 1..Len(Tail(q)) /\ Len(Tail(q)) + 1 = Len(q)
    BY <1>1, <2>1
  <2>3. Tail(q)[Len(Tail(q))] = q[Len(Tail(q)) + 1]
    BY <1>1, <2>2
  <2> QED BY <1>3, <2>2, <2>3
<1> QED BY <1>2, <1>3

LEMMA AskedFlush == ASSUME TrayBounds, Types, AskedInv, FlushUpdate PROVE AskedInv'
<1>1. /\ update \in Job /\ chain \in Seq(Job)
      /\ chain' = Append(chain, update) /\ update' = NoJob
      /\ UNCHANGED <<service, pushing, wanted, failed, requests, replies, thread>>
      /\ update # NoJob
  BY DEF FlushUpdate, Types, HostTypes, wireVars, shellVars
<1>2. Newest' = Newest
  BY <1>1, LastOfAppend DEF Newest
<1>3. wanted # Nothing
  BY <1>1 DEF AskedInv, NothingYet
<1> QED BY <1>1, <1>2, <1>3 DEF AskedInv, Quiet, ReaderRests

LEMMA AskedPush == ASSUME TrayBounds, Types, AskedInv, Push PROVE AskedInv'
<1>1. /\ UNCHANGED <<service, update, wanted, failed, replies, thread>> /\ chain # <<>>
  BY DEF Push, shellVars
<1>2. wanted # Nothing
  BY <1>1 DEF AskedInv, NothingYet
<1>3. CASE service.attached
  BY <1>1, <1>2, <1>3 DEF Push, AskedInv, Newest
<1>4. CASE ~service.attached
  BY <1>1, <1>2, <1>4 DEF Push, AskedInv, Quiet, ReaderRests
<1> QED BY <1>3, <1>4

LEMMA AskedSettles ==
    ASSUME TrayBounds, Types, AskedInv, pushing, NEW ok \in BOOLEAN, Settles(ok),
           UNCHANGED <<update, wanted>>
    PROVE  AskedInv'
<1>1. service \in Services /\ chain \in Seq(Job) /\ chain # <<>> /\ service.attached
  BY DEF Types, HostTypes, AskedInv, Quiet
<1>2. wanted # Nothing
  BY <1>1 DEF AskedInv, NothingYet
<1>3. chain' = Tail(chain) /\ failed' = (failed \/ ~ok)
  BY DEF Settles
<1>4. CASE ok
  <2>1. service' = [service EXCEPT !.pushed = Head(chain).groups] /\ failed' = failed
    BY <1>3, <1>4 DEF Settles, Types, HostTypes
  <2>2. /\ service'.last = service.last /\ service'.content = service.content
        /\ service'.pushed = Head(chain).groups /\ service'.attached = service.attached
        /\ service'.closed = service.closed
    BY <1>1, <2>1 DEF Services
  <2>3. Newest' = Newest
    <3>1. CASE update # NoJob
      BY <3>1 DEF Newest
    <3>2. CASE update = NoJob /\ Tail(chain) # <<>>
      BY <1>1, <1>3, <3>2, LastOfTail DEF Newest
    <3>3. CASE update = NoJob /\ Tail(chain) = <<>>
      BY <1>1, <1>3, <2>2, <3>3, LastOfTail DEF Newest
    <3> QED BY <3>1, <3>2, <3>3
  <2> QED BY <1>1, <1>2, <2>1, <2>2, <2>3 DEF AskedInv
<1>5. CASE ~ok
  <2>1. service' = [service EXCEPT !.content = RolledBack(Head(chain).groups)] /\ failed'
    BY <1>3, <1>5 DEF Settles
  <2>2. service'.last = service.last /\ service'.attached = service.attached
    BY <1>1, <2>1 DEF Services
  <2> QED BY <1>1, <1>2, <2>1, <2>2 DEF AskedInv
<1> QED BY <1>4, <1>5

LEMMA AskedHost ==
    ASSUME TrayBounds, Types, AskedInv, Answered \/ PushTimesOut \/ CloseTray
    PROVE  AskedInv'
<1>1. CASE Answered
  <2>1. replies # <<>> /\ replies \in Seq(Answers)
    BY <1>1 DEF Answered, Types, WireTypes
  <2>2. Head(replies).ok \in BOOLEAN
    <3>1. Head(replies) \in Answers
      BY <2>1, QueueTail
    <3> QED BY <3>1 DEF Answers
  <2>3. CASE pushing /\ Head(chain).revision = Head(replies).revision
    BY <1>1, <2>2, <2>3, AskedSettles DEF Answered
  <2>4. CASE ~(pushing /\ Head(chain).revision = Head(replies).revision)
    <3>1. UNCHANGED hostVars
      BY <1>1, <2>4 DEF Answered
    <3>2. service.attached
      BY <2>1 DEF AskedInv, Quiet
    <3> QED BY <3>1, <3>2 DEF AskedInv, hostVars, NothingYet, Newest
  <2> QED BY <2>3, <2>4
<1>2. CASE PushTimesOut
  BY <1>2, AskedSettles DEF PushTimesOut
<1>3. CASE CloseTray
  <2>1. /\ service' = [service EXCEPT !.closed = TRUE] /\ update' = NoJob
        /\ UNCHANGED <<chain, pushing, wanted, failed, requests, replies, thread>>
    BY <1>3 DEF CloseTray, wireVars, shellVars
  <2>2. /\ service'.last = service.last /\ service'.content = service.content
        /\ service'.pushed = service.pushed /\ service'.attached = service.attached
        /\ service'.closed
    BY <2>1 DEF Types, HostTypes, Services
  <2> QED BY <2>1, <2>2 DEF AskedInv, NothingYet, Quiet, ReaderRests
<1> QED BY <1>1, <1>2, <1>3

LEMMA AskedStep == TrayBounds /\ Types /\ AskedInv /\ [TrayNext]_trayVars => AskedInv'
<1> SUFFICES ASSUME TrayBounds, Types, AskedInv, [TrayNext]_trayVars PROVE AskedInv'
  OBVIOUS
<1>1. CASE UNCHANGED trayVars
  BY <1>1 DEF trayVars, hostVars, wireVars, shellVars, AskedInv, NothingYet, Newest, Quiet,
     ReaderRests
<1>2. CASE Host
  BY <1>2, AskedAttach, AskedFlush, AskedPush, AskedHost, AskedSetGroups DEF Host
<1>3. CASE Shell \/ \E now \in Phases : Turn(now)
  BY <1>3, AskedShell
<1> QED BY <1>1, <1>2, <1>3 DEF TrayNext

-----------------------------------------------------------------------------
(* Unless a push was given up, one request is under way at a time, and it  *)
(* is the push that is first in the chain.                                 *)

InTime == ~failed \/ faults = 0
Before == cache.groups = service.pushed

Unsent    == Quiet /\ Before
Sent      == /\ pushing /\ ReaderRests /\ replies = <<>> /\ Before
             /\ requests # <<>> /\ Tail(requests) = <<>> /\ Head(requests) = Head(chain)
AtWork    == /\ pushing /\ ~ReaderRests /\ replies = <<>> /\ requests = <<>>
             /\ thread["reader"].job = Head(chain) /\ cache.groups = Head(chain).groups
Returning == /\ pushing /\ ReaderRests /\ requests = <<>>
             /\ replies # <<>> /\ Tail(replies) = <<>>
             /\ Head(replies).revision = Head(chain).revision
             /\ Head(replies).ok => cache.groups = Head(chain).groups
             /\ ~Head(replies).ok /\ faults = 0 => Before

FlightInv == InTime => Unsent \/ Sent \/ AtWork \/ Returning

LEMMA FlightInit == ASSUME TrayInit PROVE FlightInv
BY DEF TrayInit, FlightInv, Unsent, Quiet, ReaderRests, Resting, Threads, Before

\* A step of the host that neither sends nor receives.
LEMMA FlightRests ==
    ASSUME FlightInv, UNCHANGED <<pushing, requests, replies, thread, cache, failed, faults>>,
           pushing => Head(chain') = Head(chain), service'.pushed = service.pushed
    PROVE  FlightInv'
<1>1. Quiet' = Quiet /\ ReaderRests' = ReaderRests /\ Before' = Before /\ InTime' = InTime
  BY DEF Quiet, ReaderRests, Before, InTime
<1>2. CASE pushing
  BY <1>1, <1>2 DEF FlightInv, Unsent, Sent, AtWork, Returning
<1>3. CASE ~pushing
  BY <1>1, <1>3 DEF FlightInv, Unsent, Sent, AtWork, Returning
<1> QED BY <1>2, <1>3

LEMMA OneIn ==
    ASSUME NEW e
    PROVE  /\ Append(<<>>, e) # <<>> /\ Tail(Append(<<>>, e)) = <<>> /\ Head(Append(<<>>, e)) = e
OBVIOUS

LEMMA FlightPush == ASSUME TrayBounds, Types, FlightInv, Push PROVE FlightInv'
<1>1. /\ UNCHANGED <<service, replies, thread, cache, failed, faults>> /\ pushing = FALSE
      /\ InTime' = InTime
  BY DEF Push, shellVars, InTime, Types, HostTypes
<1>2. Before' = Before /\ ReaderRests' = ReaderRests
  BY <1>1 DEF Before, ReaderRests
<1>3. InTime => Unsent
  BY <1>1 DEF FlightInv, Sent, AtWork, Returning
<1>4. CASE service.attached
  <2>1. requests' = Append(requests, Head(chain)) /\ pushing' = TRUE /\ chain' = chain
    BY <1>4 DEF Push
  <2>2. InTime => Sent'
    BY <1>1, <1>2, <1>3, <2>1, OneIn DEF Unsent, Quiet, Sent
  <2> QED BY <1>1, <2>2 DEF FlightInv
<1>5. CASE ~service.attached
  <2>1. UNCHANGED <<requests, pushing>>
    BY <1>5 DEF Push
  <2>2. InTime => Unsent'
    BY <1>1, <1>2, <1>3, <2>1 DEF Unsent, Quiet
  <2> QED BY <1>1, <2>2 DEF FlightInv
<1> QED BY <1>4, <1>5

LEMMA FlightAnswered == ASSUME TrayBounds, Types, FlightInv, Answered PROVE FlightInv'
<1>1. /\ replies # <<>> /\ replies' = Tail(replies)
      /\ UNCHANGED <<requests, thread, cache, faults>>
  BY DEF Answered, shellVars
<1>2. InTime => Returning
  BY <1>1 DEF FlightInv, Unsent, Quiet, Sent, AtWork
<1>3. CASE pushing /\ Head(chain).revision = Head(replies).revision
  <2> DEFINE ok == Head(replies).ok
  <2>1. Settles(ok)
    BY <1>3 DEF Answered
  <2>2. /\ pushing' = FALSE /\ failed' = (failed \/ ~ok)
        /\ service' = IF ok THEN [service EXCEPT !.pushed = Head(chain).groups]
                      ELSE [service EXCEPT !.content = RolledBack(Head(chain).groups)]
    BY <2>1 DEF Settles
  <2>3. service \in Services
    BY DEF Types, HostTypes
  <2>4. CASE ok
    <3>1. service'.pushed = Head(chain).groups
      BY <2>2, <2>3, <2>4 DEF Services
    <3>2. InTime' => InTime
      BY <1>1, <2>2, <2>4 DEF InTime
    <3> QED BY <1>1, <1>2, <2>2, <2>4, <3>1, <3>2 DEF FlightInv, Returning, Unsent, Quiet,
               ReaderRests, Before
  <2>5. CASE ~ok
    <3>1. service'.pushed = service.pushed
      BY <2>2, <2>3, <2>5 DEF Services
    <3>2. InTime' => InTime /\ faults = 0
      BY <1>1, <2>2, <2>5 DEF InTime
    <3> QED BY <1>1, <1>2, <2>2, <2>5, <3>1, <3>2 DEF FlightInv, Returning, Unsent, Quiet,
               ReaderRests, Before
  <2> QED BY <2>4, <2>5
<1>4. CASE ~(pushing /\ Head(chain).revision = Head(replies).revision)
  <2>1. UNCHANGED hostVars
    BY <1>4 DEF Answered
  <2>2. ~InTime /\ InTime' = InTime
    BY <1>1, <1>2, <1>4, <2>1 DEF Returning, hostVars, InTime
  <2> QED BY <2>2 DEF FlightInv
<1> QED BY <1>3, <1>4

LEMMA FlightHost ==
    ASSUME TrayBounds, Types, FlightInv, Host
    PROVE  FlightInv'
<1>1. service \in Services /\ (pushing => chain # <<>>) /\ chain \in Seq(Job)
  BY DEF Types, HostTypes
<1>2. ASSUME NEW call \in Calls, NEW groups \in Contents, SetGroups(call, groups)
      PROVE  FlightInv'
  <2>1. service'.pushed = service.pushed
    BY <1>1, <1>2 DEF SetGroups, Enqueued, Services
  <2> QED BY <1>2, <2>1, FlightRests DEF SetGroups, wireVars, shellVars
<1>3. CASE Attach
  <2>1. service'.pushed = service.pushed
    BY <1>1, <1>3 DEF Attach, Services
  <2> QED BY <1>3, <2>1, FlightRests DEF Attach, wireVars, shellVars
<1>4. CASE FlushUpdate
  <2>1. update \in Job /\ chain' = Append(chain, update)
    BY <1>4 DEF FlushUpdate, Types, HostTypes
  <2>2. pushing => Head(chain') = Head(chain)
    BY <1>1, <2>1, LastOfAppend
  <2> QED BY <1>4, <2>2, FlightRests DEF FlushUpdate, wireVars, shellVars
<1>5. CASE CloseTray
  <2>1. service'.pushed = service.pushed
    BY <1>1, <1>5 DEF CloseTray, Services
  <2> QED BY <1>5, <2>1, FlightRests DEF CloseTray, wireVars, shellVars
<1>6. CASE PushTimesOut
  <2>1. failed' /\ faults' = faults + 1 /\ faults \in 0..MaxFaults
    BY <1>6 DEF PushTimesOut, Settles, Types, MenuTypes
  <2>2. ~InTime'
    BY <2>1 DEF InTime, TrayBounds
  <2> QED BY <2>2 DEF FlightInv
<1> QED BY <1>2, <1>3, <1>4, <1>5, <1>6, FlightPush, FlightAnswered DEF Host

LEMMA FlightIngress == ASSUME TrayBounds, Types, FlightInv, Ingress PROVE FlightInv'
<1> DEFINE job == Head(requests)
<1>1. /\ requests # <<>> /\ requests' = Tail(requests) /\ UNCHANGED <<hostVars, faults>>
      /\ InTime' = InTime
  BY DEF Ingress, InTime, hostVars
<1>2. InTime => Sent
  BY <1>1 DEF FlightInv, Unsent, Quiet, AtWork, Returning
<1>3. CASE Caches(job) /\ job.groups # cache.groups
  <2>1. /\ cache' = [groups |-> job.groups, revision |-> job.revision]
        /\ thread' = [thread EXCEPT !["reader"].at = "refresh", !["reader"].job = job]
        /\ UNCHANGED replies
    BY <1>3 DEF Ingress
  <2>2. thread'["reader"].at = "refresh" /\ thread'["reader"].job = job
    BY <2>1 DEF Types, ThreadTypes, Threads, Workers
  <2>3. cache'.groups = job.groups
    BY <2>1
  <2>4. InTime => AtWork'
    BY <1>1, <1>2, <2>1, <2>2, <2>3 DEF Sent, AtWork, ReaderRests, hostVars
  <2> QED BY <1>1, <2>4 DEF FlightInv
<1>4. CASE Caches(job) /\ job.groups = cache.groups
  <2>1. cache'.groups = job.groups /\ Replies(job, TRUE) /\ UNCHANGED thread
    <3>1. /\ cache' = [groups |-> job.groups, revision |-> job.revision]
          /\ Replies(job, TRUE) /\ UNCHANGED thread
      BY <1>4 DEF Ingress
    <3> HIDE DEF job
    <3> QED BY <3>1
  <2>2. replies' = Append(replies, [revision |-> job.revision, ok |-> TRUE])
    BY <2>1 DEF Replies
  <2>3. InTime => Returning'
    <3> HIDE DEF job
    <3>1. SUFFICES ASSUME InTime PROVE Returning'
      OBVIOUS
    <3>2. job = Head(chain) /\ pushing /\ ReaderRests /\ replies = <<>> /\ Tail(requests) = <<>>
      BY <1>2, <3>1 DEF Sent, job
    <3>3. /\ replies' # <<>> /\ Tail(replies') = <<>>
          /\ Head(replies') = [revision |-> job.revision, ok |-> TRUE]
      BY <2>2, <3>2, OneIn
    <3> QED BY <1>1, <2>1, <3>2, <3>3 DEF Returning, ReaderRests, hostVars
  <2> QED BY <1>1, <2>3 DEF FlightInv
<1>5. CASE ~Caches(job)
  <2>1. Replies(job, FALSE) /\ UNCHANGED <<cache, thread>>
    BY <1>5 DEF Ingress
  <2>2. replies' = Append(replies, [revision |-> job.revision, ok |-> FALSE])
    BY <2>1 DEF Replies
  <2>3. InTime => Returning'
    <3> HIDE DEF job
    <3>1. SUFFICES ASSUME InTime PROVE Returning'
      OBVIOUS
    <3>2. /\ job = Head(chain) /\ pushing /\ ReaderRests /\ Before
          /\ replies = <<>> /\ Tail(requests) = <<>>
      BY <1>2, <3>1 DEF Sent, job
    <3>3. /\ replies' # <<>> /\ Tail(replies') = <<>>
          /\ Head(replies') = [revision |-> job.revision, ok |-> FALSE]
      BY <2>2, <3>2, OneIn
    <3> QED BY <1>1, <2>1, <3>2, <3>3 DEF Returning, ReaderRests, Before, hostVars
  <2> QED BY <1>1, <2>3 DEF FlightInv
<1> QED BY <1>3, <1>4, <1>5

\* A step of the shell that does not concern the reader's job.
LEMMA FlightAside ==
    ASSUME FlightInv, UNCHANGED <<hostVars, wireVars, cache>>, ReaderRests' = ReaderRests,
           thread'["reader"].job = thread["reader"].job, faults' = 0 => faults = 0
    PROVE  FlightInv'
<1>1. (InTime' => InTime) /\ Before' = Before /\ Quiet' = Quiet
  BY DEF InTime, Before, Quiet, hostVars, wireVars
<1>2. Unsent => Unsent'
  BY <1>1 DEF Unsent
<1>3. Sent => Sent'
  BY <1>1 DEF Sent, hostVars, wireVars
<1>4. AtWork => AtWork'
  BY <1>1 DEF AtWork, hostVars, wireVars
<1>5. Returning => Returning'
  BY <1>1 DEF Returning, hostVars, wireVars
<1> QED BY <1>1, <1>2, <1>3, <1>4, <1>5 DEF FlightInv

LEMMA FlightShell ==
    ASSUME TrayBounds, Types, FlightInv, Shell \/ \E now \in Phases : Turn(now)
    PROVE  FlightInv'
<1>0. /\ thread \in [Threads -> Workers] /\ Threads = {"reader", "supervisor"}
      /\ faults \in 0..MaxFaults
  BY DEF Types, ThreadTypes, MenuTypes, Threads
<1>1. CASE Apply \/ \E now \in Phases : Turn(now)
  BY <1>1, FlightAside DEF Apply, Turn, ReaderRests
<1>2. CASE Observe
  <2>1. thread'["reader"] = thread["reader"]
    BY <1>0, <1>2 DEF Observe
  <2> QED BY <1>2, <2>1, FlightAside DEF Observe, ReaderRests
<1>3. ASSUME NEW t \in Threads, ReadPhase(t) \/ Merge(t) PROVE FlightInv'
  <2>1. /\ (thread'["reader"].at = "idle") = (thread["reader"].at = "idle")
        /\ thread'["reader"].job = thread["reader"].job
    <3>1. CASE t = "reader"
      BY <1>0, <1>3, <3>1 DEF ReadPhase, Merge, Workers
    <3>2. CASE t # "reader"
      BY <1>0, <1>3, <3>2 DEF ReadPhase, Merge
    <3> QED BY <3>1, <3>2
  <2> QED BY <1>3, <2>1, FlightAside DEF ReadPhase, Merge, ReaderRests
<1>4. ASSUME Compare("supervisor") \/ RefreshFails("supervisor") PROVE FlightInv'
  <2>1. thread'["reader"] = thread["reader"] /\ UNCHANGED <<hostVars, wireVars, cache>>
    BY <1>0, <1>4 DEF Compare, RefreshFails, Returns, wireVars
  <2>2. faults' = faults \/ faults' = faults + 1
    BY <1>4 DEF Compare, RefreshFails
  <2>3. faults' = 0 => faults = 0
    BY <1>0, <2>2 DEF TrayBounds
  <2> QED BY <2>1, <2>3, FlightAside DEF ReaderRests
<1>5. ASSUME NEW ok \in BOOLEAN, Returns("reader", ok), thread["reader"].at = "compare",
             UNCHANGED <<hostVars, requests, cache>>,
             ~ok => faults' # 0, faults' = 0 => faults = 0
      PROVE  FlightInv'
  <2>1. SUFFICES ASSUME InTime' PROVE Returning'
    BY DEF FlightInv
  <2>2. AtWork
    BY <1>5, <2>1 DEF InTime, hostVars, FlightInv, Unsent, Quiet, ReaderRests, Sent, Returning
  <2>3. /\ thread' = [thread EXCEPT !["reader"] = Resting]
        /\ replies' = Append(replies, [revision |-> thread["reader"].job.revision, ok |-> ok])
    BY <1>5 DEF Returns, Replies
  <2>4. /\ replies' # <<>> /\ Tail(replies') = <<>>
        /\ Head(replies') = [revision |-> Head(chain).revision, ok |-> ok]
    BY <2>2, <2>3, OneIn DEF AtWork
  <2>5. thread'["reader"].at = "idle"
    BY <1>0, <2>3 DEF Resting
  <2> QED BY <1>5, <2>2, <2>4, <2>5 DEF AtWork, Returning, ReaderRests, hostVars
<1>6. CASE Compare("reader")
  BY <1>5, <1>6 DEF Compare
<1>7. CASE RefreshFails("reader")
  <2>1. faults' # 0
    BY <1>0, <1>7 DEF RefreshFails, TrayBounds
  <2> QED BY <1>5, <1>7, <2>1 DEF RefreshFails
<1>8. CASE \E t \in Threads : Refreshes(t)
  BY <1>0, <1>3, <1>4, <1>6, <1>7, <1>8 DEF Refreshes
<1> QED BY <1>1, <1>2, <1>8, FlightIngress DEF Shell

LEMMA FlightStep == TrayBounds /\ Types /\ FlightInv /\ [TrayNext]_trayVars => FlightInv'
<1> SUFFICES ASSUME TrayBounds, Types, FlightInv, [TrayNext]_trayVars PROVE FlightInv'
  OBVIOUS
<1>1. CASE UNCHANGED trayVars
  BY <1>1, FlightAside DEF trayVars, shellVars, ReaderRests
<1> QED BY <1>1, FlightHost, FlightShell DEF TrayNext

-----------------------------------------------------------------------------
(* Groups that the shell refuses are nowhere but on their way to it.       *)

InPipe(groups) == \/ update.groups = groups
                  \/ \E i \in 1..Len(chain) : chain[i].groups = groups

RefusedInv ==
    /\ cache.groups \notin Refused
    /\ faults = 0 => service.pushed \notin Refused
    /\ faults = 0 /\ service.attached /\ ~service.closed /\ service.content \in Refused =>
           InPipe(service.content)

LEMMA RefusedInit == ASSUME TrayBounds, TrayInit PROVE RefusedInv
BY DEF TrayBounds, TrayInit, RefusedInv

LEMMA PipeMoves ==
    ASSUME chain \in Seq(Job), NEW groups, InPipe(groups)
    PROVE  /\ update \in Job /\ chain' = Append(chain, update) => InPipe(groups)'
           /\ /\ chain # <<>> /\ Head(chain).groups # groups
              /\ chain' = Tail(chain) /\ update' = update
              => InPipe(groups)'
<1>1. Len(chain) \in Nat
  BY LenProperties
<1>2. ASSUME update \in Job, chain' = Append(chain, update) PROVE InPipe(groups)'
  <2>1. /\ Len(chain') = Len(chain) + 1 /\ chain'[Len(chain) + 1] = update
        /\ \A i \in 1..Len(chain) : chain'[i] = chain[i]
    BY <1>2, AppendProperties
  <2>2. CASE update.groups = groups
    <3>1. Len(chain) + 1 \in 1..Len(chain') /\ chain'[Len(chain) + 1].groups = groups
      BY <1>1, <2>1, <2>2
    <3> QED BY <3>1 DEF InPipe
  <2>3. ASSUME NEW i \in 1..Len(chain), chain[i].groups = groups PROVE InPipe(groups)'
    <3>1. i \in 1..Len(chain') /\ chain'[i].groups = groups
      BY <1>1, <2>1, <2>3
    <3> QED BY <3>1 DEF InPipe
  <2> QED BY <2>2, <2>3 DEF InPipe
<1>3. ASSUME chain # <<>>, Head(chain).groups # groups, chain' = Tail(chain), update' = update
      PROVE  InPipe(groups)'
  <2>1. /\ Len(chain') = Len(chain) - 1 /\ Head(chain) = chain[1]
        /\ \A i \in 1..Len(chain') : chain'[i] = chain[i + 1]
    BY <1>3, HeadTailProperties
  <2>2. CASE update.groups = groups
    BY <1>3, <2>2 DEF InPipe
  <2>3. ASSUME NEW i \in 1..Len(chain), chain[i].groups = groups PROVE InPipe(groups)'
    <3>1. i # 1
      BY <1>3, <2>1, <2>3
    <3>2. i - 1 \in 1..Len(chain') /\ (i - 1) + 1 = i
      BY <1>1, <2>1, <3>1
    <3>3. chain'[i - 1] = chain[i]
      BY <2>1, <3>2
    <3> QED BY <2>3, <3>2, <3>3 DEF InPipe
  <2> QED BY <2>2, <2>3 DEF InPipe
<1> QED BY <1>2, <1>3

LEMMA RefusedAnswered ==
    ASSUME TrayBounds, Types, FlightInv, RefusedInv, Answered
    PROVE  RefusedInv'
<1>1. /\ replies # <<>> /\ cache' = cache /\ faults' = faults /\ service \in Services
      /\ chain \in Seq(Job) /\ (pushing => chain # <<>>)
  BY DEF Answered, shellVars, Types, HostTypes
<1>2. CASE pushing /\ Head(chain).revision = Head(replies).revision
  <2> DEFINE ok == Head(replies).ok
  <2>1. /\ chain' = Tail(chain) /\ update' = update
        /\ service' = IF ok THEN [service EXCEPT !.pushed = Head(chain).groups]
                      ELSE [service EXCEPT !.content = RolledBack(Head(chain).groups)]
    BY <1>2 DEF Answered, Settles
  <2>2. service'.attached = service.attached /\ service'.closed = service.closed
    BY <1>1, <2>1 DEF Services
  <2>3. SUFFICES ASSUME faults = 0
                 PROVE  /\ service'.pushed \notin Refused
                        /\ service.attached /\ ~service.closed /\ service'.content \in Refused
                           => InPipe(service.content)'
    BY <1>1, <2>2 DEF RefusedInv
  <2>4. service.pushed \notin Refused /\ cache.groups \notin Refused
    BY <2>3 DEF RefusedInv
  <2>5. Returning
    BY <1>1, <2>3 DEF FlightInv, InTime, Unsent, Quiet, Sent, AtWork
  <2>6. CASE ok
    <3>1. service'.pushed = Head(chain).groups /\ service'.content = service.content
      BY <1>1, <2>1, <2>6 DEF Services
    <3>2. Head(chain).groups = cache.groups
      BY <2>5, <2>6 DEF Returning
    <3>3. ASSUME service.attached, ~service.closed, service.content \in Refused
          PROVE  InPipe(service.content)'
      <4>1. InPipe(service.content)
        BY <2>3, <3>3 DEF RefusedInv
      <4>2. Head(chain).groups # service.content
        BY <2>4, <3>2, <3>3
      <4>3. PICK g : g = service.content
        OBVIOUS
      <4>4. InPipe(g)'
        BY <1>1, <1>2, <2>1, <4>1, <4>2, <4>3, PipeMoves
      <4> QED BY <3>1, <4>3, <4>4 DEF InPipe
    <3> QED BY <2>4, <3>1, <3>2, <3>3 DEF InPipe
  <2>7. CASE ~ok
    <3>1. /\ service'.pushed = service.pushed
          /\ service'.content = RolledBack(Head(chain).groups)
      BY <1>1, <2>1, <2>7 DEF Services
    <3>2. ASSUME service.attached, ~service.closed, service'.content \in Refused
          PROVE  InPipe(service.content)'
      <4>1. service.content # Head(chain).groups /\ service'.content = service.content
        BY <2>4, <3>1, <3>2 DEF RolledBack
      <4>2. PICK g : g = service.content
        OBVIOUS
      <4>3. InPipe(g)
        BY <2>3, <3>2, <4>1, <4>2 DEF RefusedInv
      <4>4. InPipe(g)'
        BY <1>1, <1>2, <2>1, <4>1, <4>2, <4>3, PipeMoves
      <4> QED BY <4>1, <4>2, <4>4 DEF InPipe
    <3> QED BY <2>4, <3>1, <3>2
  <2> QED BY <2>6, <2>7
<1>3. CASE ~(pushing /\ Head(chain).revision = Head(replies).revision)
  BY <1>1, <1>3 DEF Answered, hostVars, RefusedInv, InPipe
<1> QED BY <1>2, <1>3

LEMMA RefusedHost ==
    ASSUME TrayBounds, Types, AskedInv, FlightInv, RefusedInv, Host
    PROVE  RefusedInv'
<1>1. service \in Services /\ chain \in Seq(Job) /\ Nothing \notin Refused
  BY DEF Types, HostTypes, TrayBounds
<1>2. ASSUME NEW call \in Calls, NEW groups \in Contents, SetGroups(call, groups)
      PROVE  RefusedInv'
  <2>1. cache' = cache /\ faults' = faults /\ chain' = chain
    BY <1>2 DEF SetGroups, shellVars
  <2>2. CASE service.closed
    BY <1>2, <2>1, <2>2 DEF SetGroups, RefusedInv, InPipe
  <2>3. CASE ~service.closed /\ groups = service.content
    <3>1. service' = [service EXCEPT !.last = groups] /\ update' = update
      BY <1>2, <2>3 DEF SetGroups
    <3>2. /\ service'.content = service.content /\ service'.pushed = service.pushed
          /\ service'.attached = service.attached /\ service'.closed = service.closed
      BY <1>1, <3>1 DEF Services
    <3> QED BY <2>1, <3>1, <3>2 DEF RefusedInv, InPipe
  <2>4. CASE ~service.closed /\ groups # service.content
    <3>1. /\ service' = [service EXCEPT !.content = groups, !.last = groups, !.revision = @ + 1]
          /\ update' = [groups |-> groups, revision |-> service.revision + 1, waiters |-> {call}]
      BY <1>2, <2>4 DEF SetGroups, Enqueued
    <3>2. service'.content = groups /\ service'.pushed = service.pushed /\ update'.groups = groups
      BY <1>1, <3>1 DEF Services
    <3> QED BY <2>1, <3>2 DEF RefusedInv, InPipe
  <2> QED BY <2>2, <2>3, <2>4
<1>3. CASE Attach
  <2>1. cache' = cache /\ faults' = faults /\ chain' = chain
    BY <1>3 DEF Attach, shellVars
  <2>2. CASE service.content # service.pushed /\ service.last # Nothing
    <3>1. /\ update' = [groups |-> service.last, waiters |-> {},
                        revision |-> service.revision + 1]
          /\ service' = [service EXCEPT !.attached = TRUE, !.revision = @ + 1,
                                        !.content = service.last]
      BY <1>3, <2>2 DEF Attach
    <3>2. /\ service'.content = service.last /\ service'.pushed = service.pushed
          /\ update'.groups = service.last
      BY <1>1, <3>1 DEF Services
    <3> QED BY <2>1, <3>2 DEF RefusedInv, InPipe
  <2>3. CASE ~(service.content # service.pushed /\ service.last # Nothing)
    <3>1. service' = [service EXCEPT !.attached = TRUE]
      BY <1>3, <2>3 DEF Attach
    <3>2. service'.content = service.content /\ service'.pushed = service.pushed
      BY <1>1, <3>1 DEF Services
    <3>3. service.content = service.pushed \/ service.content = Nothing
      BY <2>3 DEF AskedInv, NothingYet
    <3> QED BY <1>1, <2>1, <3>2, <3>3 DEF RefusedInv
  <2> QED BY <2>2, <2>3
<1>4. CASE FlushUpdate
  <2>1. /\ update \in Job /\ chain' = Append(chain, update)
        /\ UNCHANGED <<service, cache, faults>>
    BY <1>4 DEF FlushUpdate, Types, HostTypes, shellVars
  <2>2. PICK g : g = service.content
    OBVIOUS
  <2>3. InPipe(g) => InPipe(g)'
    BY <1>1, <2>1, PipeMoves
  <2>4. InPipe(service.content) => InPipe(service.content)'
    BY <2>1, <2>2, <2>3 DEF InPipe
  <2> QED BY <2>1, <2>4 DEF RefusedInv
<1>5. CASE Push
  <2>1. UNCHANGED <<service, update, cache, faults>> /\ (service.attached => chain' = chain)
    BY <1>5 DEF Push, shellVars
  <2> QED BY <2>1 DEF RefusedInv, InPipe
<1>6. CASE PushTimesOut
  <2>1. faults' = faults + 1 /\ faults \in 0..MaxFaults /\ cache' = cache
    BY <1>6 DEF PushTimesOut, shellVars, Types, MenuTypes
  <2>2. faults' # 0
    BY <2>1 DEF TrayBounds
  <2> QED BY <2>1, <2>2 DEF RefusedInv
<1>7. CASE CloseTray
  <2>1. service' = [service EXCEPT !.closed = TRUE] /\ UNCHANGED <<cache, faults>>
    BY <1>7 DEF CloseTray, shellVars
  <2>2. service'.closed /\ service'.pushed = service.pushed
    BY <1>1, <2>1 DEF Services
  <2> QED BY <2>1, <2>2 DEF RefusedInv
<1> QED BY <1>2, <1>3, <1>4, <1>5, <1>6, <1>7, RefusedAnswered DEF Host

LEMMA RefusedShell ==
    ASSUME TrayBounds, Types, RefusedInv, Shell \/ \E now \in Phases : Turn(now)
    PROVE  RefusedInv'
<1>1. UNCHANGED hostVars
  BY DEF Shell, Ingress, Observe, Apply, Refreshes, ReadPhase, Merge, Compare, RefreshFails,
         Turn
<1>2. cache'.groups \notin Refused
  <2>1. CASE Ingress
    <3> DEFINE job == Head(requests)
    <3>1. \/ Caches(job) /\ cache' = [groups |-> job.groups, revision |-> job.revision]
          \/ cache' = cache
      BY <2>1 DEF Ingress
    <3>2. cache' = cache \/ (cache'.groups = job.groups /\ Caches(job))
      <4> HIDE DEF job
      <4> QED BY <3>1
    <3> QED BY <3>2 DEF RefusedInv, Caches
  <2>2. CASE ~Ingress
    <3>1. cache' = cache
      BY <2>2 DEF Shell, Observe, Apply, Refreshes, ReadPhase, Merge, Compare, RefreshFails,
         Turn
    <3> QED BY <3>1 DEF RefusedInv
  <2> QED BY <2>1, <2>2
<1>3. faults' = 0 => faults = 0
  <2>1. faults' = faults \/ faults' = faults + 1
    BY DEF Shell, Ingress, Observe, Apply, Refreshes, ReadPhase, Merge, Compare, RefreshFails,
         Turn
  <2>2. faults \in 0..MaxFaults
    BY DEF Types, MenuTypes
  <2> QED BY <2>1, <2>2 DEF TrayBounds
<1> QED BY <1>1, <1>2, <1>3 DEF RefusedInv, InPipe, hostVars

LEMMA RefusedStep ==
    /\ TrayBounds /\ Types /\ AskedInv /\ FlightInv /\ RefusedInv
    /\ [TrayNext]_trayVars
    => RefusedInv'
<1>1. ASSUME RefusedInv, UNCHANGED trayVars PROVE RefusedInv'
  BY <1>1 DEF trayVars, hostVars, shellVars, RefusedInv, InPipe
<1> QED BY <1>1, RefusedHost, RefusedShell DEF TrayNext

-----------------------------------------------------------------------------
(* The menu the main thread comes to is current, or a refresh is at work   *)
(* that will make it so.                                                   *)

Destined == IF queue = <<>> THEN applied ELSE queue[Len(queue)]
Current  == <<cache.groups, hostPhase>>
Idle(t)  == thread[t].at = "idle"

AllRefresh == \A t \in Threads : ~Idle(t)
NoneDoes   == (\A t \in Threads : Idle(t)) /\ Destined = Current
OneDoes(t) == /\ ~Idle(t) /\ \A u \in Threads \ {t} : Idle(u)
              /\ thread[t].at = "merge" => thread[t].phase = hostPhase
              /\ thread[t].at = "compare" => thread[t].menu = Current

Refreshed == AllRefresh \/ NoneDoes \/ \E t \in Threads : OneDoes(t)

MenuInv == published <= turns /\ (~raced /\ turns = published => Refreshed)

LEMMA MenuInit == ASSUME TrayInit PROVE MenuInv
BY DEF TrayInit, MenuInv, Refreshed, NoneDoes, Idle, Resting, Destined, Current

LEMMA MenuRests == ASSUME MenuInv, UNCHANGED <<shellVars, turns>> PROVE MenuInv'
BY DEF MenuInv, shellVars, Refreshed, AllRefresh, NoneDoes, OneDoes, Idle, Destined, Current

LEMMA MenuIngress == ASSUME Types, MenuInv, Ingress PROVE MenuInv'
<1> DEFINE job == Head(requests)
<1>1. /\ UNCHANGED <<hostPhase, published, queue, applied, raced, turns>> /\ Idle("reader")
      /\ thread \in [Threads -> Workers] /\ Threads = {"reader", "supervisor"}
  BY DEF Ingress, Idle, Types, ThreadTypes, Threads
<1>2. CASE Caches(job) /\ job.groups # cache.groups
  <2>1. thread' = [thread EXCEPT !["reader"].at = "refresh", !["reader"].job = job]
    BY <1>2 DEF Ingress
  <2>2. /\ thread'["reader"].at = "refresh"
        /\ thread'["supervisor"] = thread["supervisor"]
    <3> HIDE DEF job
    <3> QED BY <1>1, <2>1 DEF Workers
  <2>3. CASE Idle("supervisor")
    BY <1>1, <2>2, <2>3 DEF MenuInv, Refreshed, OneDoes, Idle
  <2>4. CASE ~Idle("supervisor")
    BY <1>1, <2>2, <2>4 DEF MenuInv, Refreshed, AllRefresh, Idle
  <2> QED BY <2>3, <2>4
<1>3. CASE ~(Caches(job) /\ job.groups # cache.groups)
  <2>1. thread' = thread
    BY <1>3 DEF Ingress
  <2>2. \/ Caches(job) /\ cache' = [groups |-> job.groups, revision |-> job.revision]
        \/ cache' = cache
    BY DEF Ingress
  <2>3. cache'.groups = cache.groups
    <3> HIDE DEF job
    <3> QED BY <1>3, <2>2
  <2> QED BY <1>1, <2>1, <2>3 DEF MenuInv, Refreshed, AllRefresh, NoneDoes, OneDoes, Idle,
             Destined, Current
<1> QED BY <1>2, <1>3

LEMMA MenuTurns ==
    ASSUME TrayBounds, Types, MenuInv, Observe \/ \E now \in Phases : Turn(now)
    PROVE  MenuInv'
<1>1. published \in Nat /\ turns \in Nat /\ Threads = {"reader", "supervisor"}
  BY DEF Types, MenuTypes, TrayBounds, Threads
<1>2. CASE \E now \in Phases : Turn(now)
  BY <1>1, <1>2 DEF Turn, MenuInv
<1>3. CASE Observe
  <2>1. /\ thread'["supervisor"].at = "refresh" /\ thread'["reader"] = thread["reader"]
        /\ published' = turns /\ turns' = turns
    BY <1>3 DEF Observe, Types, ThreadTypes, Threads, Workers
  <2>2. CASE Idle("reader")
    BY <1>1, <2>1, <2>2 DEF MenuInv, Refreshed, OneDoes, Idle
  <2>3. CASE ~Idle("reader")
    BY <1>1, <2>1, <2>3 DEF MenuInv, Refreshed, AllRefresh, Idle
  <2> QED BY <2>2, <2>3
<1> QED BY <1>2, <1>3

LEMMA MenuReads ==
    ASSUME Types, MenuInv, NEW t \in Threads, ReadPhase(t) \/ Merge(t)
    PROVE  MenuInv'
<1>1. /\ UNCHANGED <<cache, hostPhase, published, queue, applied, raced, turns>>
      /\ thread \in [Threads -> Workers] /\ ~Idle(t)
  BY DEF ReadPhase, Merge, Types, ThreadTypes, Idle
<1>2. /\ ~Idle(t)' /\ \A u \in Threads \ {t} : thread'[u] = thread[u]
  BY <1>1 DEF ReadPhase, Merge, Idle, Workers
<1>3. OneDoes(t) => OneDoes(t)'
  <2>1. CASE ReadPhase(t)
    <3>1. thread'[t].at = "merge" /\ thread'[t].phase = hostPhase
      BY <1>1, <2>1 DEF ReadPhase, Workers
    <3> QED BY <1>1, <1>2, <3>1 DEF OneDoes, Idle
  <2>2. CASE Merge(t)
    <3>1. /\ thread'[t].at = "compare" /\ thread[t].at = "merge"
          /\ thread'[t].menu = <<cache.groups, thread[t].phase>>
      BY <1>1, <2>2 DEF Merge, Workers
    <3> QED BY <1>1, <1>2, <3>1 DEF OneDoes, Idle, Current
  <2> QED BY <2>1, <2>2
<1>4. Refreshed => AllRefresh \/ OneDoes(t)
  BY <1>1 DEF Refreshed, NoneDoes, OneDoes
<1>5. AllRefresh => AllRefresh'
  BY <1>1, <1>2 DEF AllRefresh, Idle
<1> QED BY <1>1, <1>3, <1>4, <1>5 DEF MenuInv, Refreshed

LEMMA MenuCompare ==
    ASSUME Types, MenuInv, NEW t \in Threads, Compare(t) \/ RefreshFails(t)
    PROVE  MenuInv'
<1>1. /\ UNCHANGED <<cache, hostPhase, published, applied, turns>>
      /\ thread \in [Threads -> Workers] /\ thread[t].at = "compare"
      /\ thread' = [thread EXCEPT ![t] = Resting]
      /\ queue \in Seq(Menus) /\ thread[t].menu \in Menus
  BY DEF Compare, RefreshFails, Returns, Types, ThreadTypes, MenuTypes, HasRead
<1>2. SUFFICES ASSUME ~raced', turns = published PROVE Refreshed'
  BY <1>1 DEF MenuInv
<1>3. Compare(t)
  BY <1>2 DEF RefreshFails
<1>4. /\ ~raced /\ (thread[t].menu = applied => queue = <<>>)
      /\ \A u \in Threads \ {t} : thread[u].at \notin {"refresh", "merge", "compare"}
  BY <1>2, <1>3 DEF Compare, Overtaken
<1>5. \A u \in Threads \ {t} : Idle(u)
  BY <1>1, <1>4 DEF Workers, Idle
<1>6. \E u \in Threads \ {t} : TRUE
  BY DEF Threads
<1>7. OneDoes(t)
  <2>1. Refreshed /\ ~AllRefresh
    BY <1>2, <1>4, <1>5, <1>6 DEF MenuInv, AllRefresh
  <2> QED BY <1>1, <1>5, <2>1 DEF Refreshed, NoneDoes, OneDoes, Idle
<1>8. thread[t].menu = Current /\ Current' = Current
  BY <1>1, <1>7 DEF OneDoes, Current
<1>9. \A u \in Threads : Idle(u)'
  BY <1>1, <1>5 DEF Idle, Resting
<1>10. Destined' = Current
  <2>1. CASE thread[t].menu = applied
    <3>1. queue' = <<>>
      BY <1>3, <1>4, <2>1 DEF Compare
    <3> QED BY <1>1, <1>8, <2>1, <3>1 DEF Destined
  <2>2. CASE thread[t].menu # applied
    <3>1. queue' = Append(queue, thread[t].menu)
      BY <1>3, <2>2 DEF Compare
    <3> QED BY <1>1, <1>8, <3>1, LastOfAppend DEF Destined
  <2> QED BY <2>1, <2>2
<1> QED BY <1>8, <1>9, <1>10 DEF Refreshed, NoneDoes

LEMMA MenuApply == ASSUME Types, MenuInv, Apply PROVE MenuInv'
<1>1. /\ queue # <<>> /\ applied' = Head(queue) /\ queue' = Tail(queue) /\ queue \in Seq(Menus)
      /\ UNCHANGED <<cache, hostPhase, published, thread, raced, turns>>
  BY DEF Apply, Types, MenuTypes
<1>2. Destined' = Destined
  BY <1>1, LastOfTail DEF Destined
<1> QED BY <1>1, <1>2 DEF MenuInv, Refreshed, AllRefresh, NoneDoes, OneDoes, Idle, Current

LEMMA MenuStep == TrayBounds /\ Types /\ MenuInv /\ [TrayNext]_trayVars => MenuInv'
<1> SUFFICES ASSUME TrayBounds, Types, MenuInv, [TrayNext]_trayVars PROVE MenuInv'
  OBVIOUS
<1>1. CASE UNCHANGED trayVars
  BY <1>1, MenuRests DEF trayVars
<1>2. CASE Host
  <2>1. UNCHANGED <<shellVars, turns>>
    BY <1>2 DEF Host, Attach, FlushUpdate, Push, Answered, PushTimesOut, CloseTray, SetGroups
  <2> QED BY <2>1, MenuRests
<1>3. CASE Shell \/ \E now \in Phases : Turn(now)
  BY <1>3, MenuIngress, MenuTurns, MenuReads, MenuCompare, MenuApply DEF Shell, Refreshes
<1> QED BY <1>1, <1>2, <1>3 DEF TrayNext

-----------------------------------------------------------------------------
\* While no push fails, the groups of the last setGroups are the ones the shell
\* has cached once the service rests (host/src/tray.ts, pushSnapshot's chain).
THEOREM LastCall == TraySpec => []LastCallWins
<1>1. Types /\ AskedInv /\ FlightInv => LastCallWins
  <2> SUFFICES ASSUME Types, AskedInv, FlightInv, service.attached, ~service.closed, HostAtRest,
                      ~failed
               PROVE  cache.groups = wanted /\ service.content = wanted /\ service.pushed = wanted
    BY DEF LastCallWins
  <2>1. service.content = wanted /\ service.pushed = wanted
    BY DEF AskedInv, HostAtRest, Newest
  <2>2. ~pushing
    BY DEF HostAtRest, Types, HostTypes
  <2>3. Before
    BY <2>2 DEF FlightInv, InTime, Unsent, Sent, AtWork, Returning
  <2> QED BY <2>1, <2>3 DEF Before
<1> QED BY <1>1, TypesHold, TrayAssumption, AskedInit, AskedStep, FlightInit,
           FlightStep, PTL DEF TraySpec

\* A refused push leaves nothing behind: what the service takes for pushed is
\* what the shell has, and refused groups are not taken for the content, so that
\* setGroups would push them again.
THEOREM PushedHeld == TraySpec => []PushedIsHeld
<1>1. TrayBounds /\ Types /\ FlightInv /\ RefusedInv => PushedIsHeld
  <2> SUFFICES ASSUME TrayBounds, Types, FlightInv, RefusedInv,
                      ~service.closed, HostAtRest, faults = 0
               PROVE  /\ service.pushed = cache.groups
                      /\ \A groups \in Refused : service.attached => service.content # groups
    BY DEF PushedIsHeld
  <2>1. ~pushing
    BY DEF HostAtRest, Types, HostTypes
  <2>2. Before
    BY <2>1 DEF FlightInv, InTime, Unsent, Sent, AtWork, Returning
  <2>3. ASSUME NEW groups \in Refused, service.attached, service.content = groups PROVE FALSE
    <3>1. InPipe(groups)
      BY <2>3 DEF RefusedInv
    <3>2. update.groups = Nothing /\ Len(chain) = 0
      BY EmptySeq DEF HostAtRest, NoJob
    <3> QED BY <3>1, <3>2, <2>3 DEF InPipe, TrayBounds
  <2> QED BY <2>2, <2>3 DEF Before
<1> QED BY <1>1, TypesHold, TrayAssumption, AskedInit, AskedStep, FlightInit,
           FlightStep, RefusedInit, RefusedStep, PTL DEF TraySpec

\* Unless two refreshes overlapped, or one compared its menu while a closure was
\* queued, the tray at rest shows the cached groups under the phase of the host
\* (src-tauri/src/tray.rs, refresh).
THEOREM MenuCurrent == TraySpec => []MenuIsCurrent
<1>1. MenuInv => MenuIsCurrent
  <2> SUFFICES ASSUME MenuInv, ShellAtRest, ~raced PROVE applied = <<cache.groups, hostPhase>>
    BY DEF MenuIsCurrent
  <2>1. \A t \in Threads : Idle(t)
    BY DEF ShellAtRest, Idle
  <2>2. NoneDoes
    BY <2>1 DEF ShellAtRest, MenuInv, Refreshed, AllRefresh, OneDoes, Threads
  <2> QED BY <2>2 DEF NoneDoes, ShellAtRest, Destined, Current
<1> QED BY <1>1, TypesHold, TrayAssumption, MenuInit, MenuStep, PTL DEF TraySpec
=============================================================================
