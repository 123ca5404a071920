---------------------------- MODULE ShellProofs ----------------------------
(***************************************************************************)
(* Theorems about four parts of the shell: the lifecycle panel (Face), for *)
(* any values, any number of changes and of mounts; the main window        *)
(* (MainWindow), for every menu and any number of deeds; the start of a    *)
(* host (HostStart), for every machine, environment and script of a host;  *)
(* and the shell's services (ShellServices), for any requests.             *)
(*                                                                         *)
(* Panel.  Snapshots are ordered by when they were true, and generations   *)
(* follow that order.  What is published after the listener is there is    *)
(* still in the queue or was shown; what was published before the seed was *)
(* read is in the seed.                                                    *)
(*                                                                         *)
(* Window.  It is shown to whoever asked for it because the operations     *)
(* that bring it to the front only ever help each other, and because the   *)
(* first ones of a plan establish what its last one needs.                 *)
(*                                                                         *)
(* Start.  Each check of the wait rules out what came before it, so that   *)
(* the verdict names the first thing the host did.  A credential spelled   *)
(* with any separators is found because fragments keep their order when    *)
(* the separators go.                                                      *)
(*                                                                         *)
(* Services.  Every answer is one the system's state bears out when it is  *)
(* given, and whoever waits for the user has a dialog that was shown.      *)
(***************************************************************************)
EXTENDS Face, MainWindow, HostStart, ShellServices, SequenceTheorems, FiniteSetTheorems,
        WellFoundedInduction, TLAPS

(* The lifecycle panel.                                                    *)

Subscription ==
    [listener : {"none", "asked", "on", "off"}, settled : BOOLEAN, failed : BOOLEAN,
     seed : {"unread", "asked", "answered", "unknown", "failing", "done"}, cancelled : BOOLEAN]

Views == [status : {"pending", "live", "unsupported", "error"}, snapshot : Snapshot]

\* Of two snapshots, that one is not the later one.
Before(s, t) == s.at <= t.at /\ s.generation <= t.generation
Comparable(s) == Before(s, published) \/ Before(published, s)

OrderInv ==
    /\ truth.generation <= truth.at
    /\ Before(published, truth) /\ Before(view.snapshot, truth) /\ Comparable(view.snapshot)
    /\ \A m \in Mounts : Before(answer[m], truth) /\ Comparable(answer[m])
    /\ \A m \in Mounts : \A i \in 1..Len(events[m]) : Before(events[m][i], published)

\* Mounts that are over, and mounts to come.
MountInv ==
    \A m \in Mounts :
        /\ m < mount => sub[m].cancelled
        /\ m > mount => sub[m].listener = "none" /\ sub[m].seed = "unread" /\ events[m] = <<>>
        /\ sub[m].seed = "failing" => sub[m].failed

\* What the mount that is current has, in its queue, its seed or its view.
Current(m) == m = mount /\ ~sub[m].cancelled /\ ~sub[m].failed
FlowInv ==
    \A m \in Mounts : Current(m) =>
        /\ view.status = "live" \/ sub[m].seed # "unread" \/ events[m] # <<>> =>
              sub[m].listener = "on"
        /\ events[m] # <<>> => events[m][Len(events[m])] = published
        /\ sub[m].seed = "answered" /\ events[m] = <<>> =>
              view.status = "live" \/ answer[m].at >= published.at
        /\ view.status = "live" /\ events[m] = <<>> => view.snapshot.at >= published.at
        /\ view.status # "live" => view.snapshot.generation = 0

FaceInv == FaceTypeOK /\ OrderInv /\ MountInv /\ FlowInv

LEMMA NowhereIsASnapshot == ASSUME FaceBounds PROVE Nowhere \in Snapshot
BY DEF FaceBounds, Nowhere, Snapshot, Changes

LEMMA SnapshotFields ==
    ASSUME FaceBounds, NEW s \in Snapshot
    PROVE  s.at \in Nat /\ s.generation \in Nat /\ s.at <= MaxChanges
BY DEF FaceBounds, Snapshot, Changes

LEMMA PanelInitHolds == ASSUME FaceBounds, FaceInit PROVE FaceInv
<1>1. FaceTypeOK
  BY NowhereIsASnapshot DEF FaceInit, FaceTypeOK, Pending, FaceBounds
<1>2. OrderInv
  BY DEF FaceInit, OrderInv, Pending, Nowhere, Before, Comparable
<1>3. MountInv /\ FlowInv
  BY DEF FaceInit, MountInv, FlowInv, Current, Pending, Mounts, FaceBounds
<1> QED
  BY <1>1, <1>2, <1>3 DEF FaceInv

\* The host's state changes.
LEMMA ChangeKeeps == ASSUME FaceBounds, FaceInv, Change PROVE FaceInv'
<1>1. truth' \in Snapshot /\ Before(truth, truth') /\ truth'.generation <= truth'.at
  BY SnapshotFields DEF Change, FaceInv, FaceTypeOK, OrderInv, Snapshot, Changes, FaceBounds, Before
<1>2. FaceTypeOK'
  BY <1>1 DEF Change, FaceInv, FaceTypeOK
<1>3. OrderInv'
  BY <1>1, SnapshotFields DEF Change, FaceInv, FaceTypeOK, OrderInv, Before, Comparable
<1>4. MountInv' /\ FlowInv'
  BY DEF Change, FaceInv, MountInv, FlowInv, Current
<1> QED
  BY <1>2, <1>3, <1>4 DEF FaceInv

\* What is published goes to whoever listens.
LEMMA ObserveKeeps == ASSUME FaceBounds, FaceInv, Observe PROVE FaceInv'
<1> USE DEF FaceInv
<1>1. ASSUME NEW m \in Mounts
      PROVE  /\ events[m] \in Seq(Snapshot) /\ events'[m] \in Seq(Snapshot)
             /\ \/ /\ sub[m].listener = "on"
                   /\ Len(events'[m]) = Len(events[m]) + 1
                   /\ events'[m][Len(events[m]) + 1] = truth
                   /\ \A i \in 1..Len(events[m]) : events'[m][i] = events[m][i]
                \/ sub[m].listener # "on" /\ events'[m] = events[m]
  BY DEF Observe, FaceTypeOK
<1>2. FaceTypeOK'
  BY <1>1 DEF Observe, FaceTypeOK
<1>3. OrderInv'
  <2>1. Before(truth, truth) /\ Before(published', truth') /\ published' = truth
    BY SnapshotFields DEF Observe, FaceTypeOK, Before
  <2>2. Before(view'.snapshot, truth') /\ Comparable(view.snapshot)'
    BY <2>1 DEF Observe, OrderInv, Comparable
  <2>3. ASSUME NEW m \in Mounts PROVE Before(answer'[m], truth') /\ Comparable(answer[m])'
    BY <2>1 DEF Observe, OrderInv, Comparable
  <2>4. ASSUME NEW m \in Mounts, NEW i \in 1..Len(events'[m])
        PROVE  Before(events'[m][i], published')
    <3>1. CASE i <= Len(events[m])
      <4>1. i \in 1..Len(events[m]) /\ events'[m][i] = events[m][i] /\ events[m][i] \in Snapshot
        BY <1>1, <3>1
      <4>2. Before(events[m][i], published) /\ Before(published, truth)
        BY <4>1 DEF OrderInv
      <4> QED
        BY <2>1, <4>1, <4>2, SnapshotFields DEF Before, FaceTypeOK
    <3>2. CASE i > Len(events[m])
      BY <1>1, <2>1, <3>2
    <3> QED
      BY <1>1, <3>1, <3>2
  <2> QED
    BY <2>1, <2>2, <2>3, <2>4 DEF OrderInv, Observe
<1>4. MountInv'
  BY <1>1 DEF Observe, MountInv
<1>5. FlowInv'
  <2> SUFFICES ASSUME NEW m \in Mounts, Current(m)'
               PROVE  /\ view'.status = "live" \/ sub'[m].seed # "unread" \/ events'[m] # <<>> =>
                            sub'[m].listener = "on"
                      /\ events'[m] # <<>> => events'[m][Len(events'[m])] = published'
                      /\ sub'[m].seed = "answered" /\ events'[m] = <<>> =>
                            view'.status = "live" \/ answer'[m].at >= published'.at
                      /\ view'.status = "live" /\ events'[m] = <<>> =>
                            view'.snapshot.at >= published'.at
                      /\ view'.status # "live" => view'.snapshot.generation = 0
    BY DEF FlowInv
  <2>1. Current(m)
    BY DEF Current, Observe
  <2>2. CASE sub[m].listener = "on"
    <3>1. events'[m] # <<>> /\ events'[m][Len(events'[m])] = published'
      BY <1>1, <2>2 DEF Observe
    <3> QED
      BY <2>1, <2>2, <3>1 DEF Observe, FlowInv
  <2>3. CASE sub[m].listener # "on"
    BY <1>1, <2>1, <2>3 DEF FlowInv, Observe
  <2> QED
    BY <2>2, <2>3
<1> QED
  BY <1>2, <1>3, <1>4, <1>5

\* Nothing but the subscriptions changes, and none of them loses anything.
LEMMA SubscriptionKeeps ==
    ASSUME FaceBounds, FaceInv, NEW m \in Mounts, NEW s \in Subscription,
           sub' = [sub EXCEPT ![m] = s],
           UNCHANGED <<truth, published, events, answer, view, mount>>,
           m <= mount,
           sub[m].cancelled => s.cancelled, sub[m].failed => s.failed,
           s.cancelled \/ s.failed \/ sub[m].listener # "on" \/ s.listener = "on",
           s.seed # "unread" => s.cancelled \/ s.failed \/ s.listener = "on",
           s.seed = "answered" => sub[m].seed = "answered",
           s.seed = "failing" => s.failed,
           m = mount \/ sub[m].listener # "none"
    PROVE  FaceInv'
<1> USE DEF FaceInv
<1>1. FaceTypeOK'
  BY DEF FaceTypeOK, Subscription
<1>2. OrderInv'
  BY DEF OrderInv, Before, Comparable
<1>3. MountInv'
  BY DEF MountInv, FaceTypeOK, Mounts
<1>4. FlowInv'
  BY DEF FlowInv, Current, FaceTypeOK
<1> QED
  BY <1>1, <1>2, <1>3, <1>4

LEMMA ReadTruthKeeps ==
    ASSUME FaceBounds, FaceInv, NEW m \in Mounts, ReadTruth(m) PROVE FaceInv'
<1> USE DEF FaceInv
<1>1. PICK seed \in {"answered", "unknown"} : sub' = [sub EXCEPT ![m].seed = seed]
  BY DEF ReadTruth
<1>2. FaceTypeOK'
  BY <1>1 DEF ReadTruth, FaceTypeOK
<1>3. OrderInv'
  BY SnapshotFields DEF ReadTruth, FaceTypeOK, OrderInv, Before, Comparable
<1>4. MountInv'
  BY <1>1 DEF ReadTruth, MountInv, FaceTypeOK
<1>5. FlowInv'
  BY <1>1, SnapshotFields DEF ReadTruth, FlowInv, Current, FaceTypeOK, OrderInv, Before
<1> QED
  BY <1>2, <1>3, <1>4, <1>5

LEMMA MountKeeps == ASSUME FaceBounds, FaceInv, Mount PROVE FaceInv'
<1> USE DEF FaceInv
<1>1. mount' \in Mounts /\ mount' = mount + 1 /\ mount \in Nat
  BY DEF Mount, FaceTypeOK, Mounts, FaceBounds
<1> DEFINE s == [sub[mount + 1] EXCEPT !.listener = "asked"]
<1>2. FaceTypeOK'
  <2>1. s \in Subscription
    <3>1. sub \in [Mounts -> Subscription] /\ mount + 1 \in Mounts
      BY <1>1 DEF FaceTypeOK, Subscription
    <3>2. sub[mount + 1] \in Subscription
      BY <3>1
    <3> QED
      BY <3>2 DEF Subscription
  <2>2. sub' = [sub EXCEPT ![mount + 1] = s]
    BY <1>1 DEF Mount, FaceTypeOK
  <2>3. sub' \in [Mounts -> Subscription]
    BY <1>1, <2>1, <2>2 DEF FaceTypeOK, Subscription
  <2>4. view' \in Views
    BY NowhereIsASnapshot DEF Mount, Pending, Views
  <2> QED
    BY <1>1, <2>3, <2>4 DEF Mount, FaceTypeOK, Subscription, Views, Mounts
<1>3. OrderInv'
  BY SnapshotFields DEF Mount, FaceTypeOK, OrderInv, Before, Comparable, Pending, Nowhere
<1>4. MountInv'
  BY <1>1 DEF Mount, MountInv, FaceTypeOK, Mounts
<1>5. FlowInv'
  <2>1. ASSUME NEW n \in Mounts, Current(n)'
        PROVE  /\ n = mount + 1 /\ events'[n] = <<>> /\ sub'[n].seed = "unread"
               /\ view'.status = "pending" /\ view'.snapshot.generation = 0
    <3>1. n = mount + 1
      BY <1>1, <2>1 DEF Current
    <3>2. sub[n].seed = "unread" /\ events[n] = <<>>
      BY <1>1, <2>1, <3>1 DEF MountInv
    <3>3. sub'[n].seed = sub[n].seed
      BY <1>1, <2>1, <3>1 DEF Mount, FaceTypeOK
    <3> QED
      BY <3>1, <3>2, <3>3 DEF Mount, Pending, Nowhere
  <2> QED
    BY <2>1 DEF FlowInv
<1> QED
  BY <1>2, <1>3, <1>4, <1>5

\* What is shown changes, to what is known of the host.
LEMMA ViewKeeps ==
    ASSUME FaceBounds, FaceInv, NEW shown \in Views, view' = shown,
           Before(shown.snapshot, truth), Comparable(shown.snapshot),
           UNCHANGED <<truth, published>>
    PROVE  /\ Before(view.snapshot, truth)' /\ Comparable(view.snapshot)'
           /\ Before(published, truth)' /\ (truth.generation <= truth.at)'
BY DEF FaceInv, OrderInv, Before, Comparable

LEMMA EventKeeps == ASSUME FaceBounds, FaceInv, NEW m \in Mounts, Event(m) PROVE FaceInv'
<1> USE DEF FaceInv
<1> DEFINE e == Head(events[m])
<1>1. /\ events[m] \in Seq(Snapshot) /\ events[m] # <<>> /\ e = events[m][1] /\ e \in Snapshot
      /\ Len(events[m]) \in Nat /\ Len(events[m]) >= 1
      /\ events'[m] = Tail(events[m]) /\ events'[m] \in Seq(Snapshot)
      /\ Len(events'[m]) = Len(events[m]) - 1
      /\ \A i \in 1..Len(events'[m]) : events'[m][i] = events[m][i + 1]
      /\ \A n \in Mounts \ {m} : events'[n] = events[n]
  BY DEF Event, FaceTypeOK
<1>2. Before(e, published) /\ Before(e, truth) /\ Comparable(e)
  <2>1. Before(e, published)
    BY <1>1 DEF OrderInv
  <2> QED
    BY <1>1, <2>1, SnapshotFields DEF OrderInv, FaceTypeOK, Before, Comparable
<1>3. view' = view \/ (~IsStale(e) /\ view' = [status |-> "live", snapshot |-> e])
  BY DEF Event, AppliedIfLive, AfterEvent
<1>4. view' \in Views /\ Before(view'.snapshot, truth) /\ Comparable(view'.snapshot)
  BY <1>1, <1>2, <1>3 DEF Views, FaceTypeOK, OrderInv
<1>5. FaceTypeOK'
  BY <1>1, <1>4 DEF Event, FaceTypeOK, Views
<1>6. OrderInv'
  <2>1. ASSUME NEW n \in Mounts, NEW i \in 1..Len(events'[n]) PROVE Before(events'[n][i], published')
    <3>1. CASE n = m
      <4>1. i + 1 \in 1..Len(events[m]) /\ events'[m][i] = events[m][i + 1]
        <5>1. i \in 1..Len(events'[m])
          BY <3>1
        <5> QED
          BY <1>1, <5>1
      <4> QED
        BY <3>1, <4>1 DEF OrderInv, Event
    <3>2. CASE n # m
      BY <1>1, <3>2 DEF OrderInv, Event
    <3> QED
      BY <3>1, <3>2
  <2> QED
    BY <1>4, <2>1, ViewKeeps DEF OrderInv, Event, Comparable
<1>7. MountInv'
  BY <1>1 DEF Event, MountInv, FaceTypeOK
<1>8. FlowInv'
  <2> SUFFICES ASSUME NEW n \in Mounts, Current(n)'
               PROVE  /\ view'.status = "live" \/ sub'[n].seed # "unread" \/ events'[n] # <<>> =>
                            sub'[n].listener = "on"
                      /\ events'[n] # <<>> => events'[n][Len(events'[n])] = published'
                      /\ sub'[n].seed = "answered" /\ events'[n] = <<>> =>
                            view'.status = "live" \/ answer'[n].at >= published'.at
                      /\ view'.status = "live" /\ events'[n] = <<>> =>
                            view'.snapshot.at >= published'.at
                      /\ view'.status # "live" => view'.snapshot.generation = 0
    BY DEF FlowInv
  <2>1. Current(n)
    BY DEF Current, Event
  <2>2. CASE n # m
    <3>1. sub[m].cancelled
      BY <1>1, <2>1, <2>2 DEF MountInv, Current, FaceTypeOK, Mounts, FaceBounds
    <3>2. view' = view
      BY <3>1 DEF Event, AppliedIfLive
    <3> QED
      BY <1>1, <2>1, <2>2, <3>2 DEF FlowInv, Event
  <2>3. CASE n = m
    <3>1. sub[m].listener = "on" /\ events[m][Len(events[m])] = published
      BY <1>1, <2>1, <2>3 DEF FlowInv
    <3>2. view'.status = "live"
      <4>1. view.status # "live" => ~IsStale(e)
        BY <1>1, <2>1, <2>3, SnapshotFields DEF IsStale, FlowInv
      <4>2. view' = AfterEvent(e)
        BY <2>1, <2>3 DEF Event, AppliedIfLive, Current
      <4> QED
        BY <4>1, <4>2 DEF AfterEvent
    <3>3. CASE events'[m] = <<>>
      <4>0. Len(events[m]) = 1
        <5>1. Len(events'[m]) = 0
          BY <3>3
        <5> QED
          BY <1>1, <5>1
      <4>1. e = published
        BY <1>1, <3>1, <4>0
      <4>2. view' = AfterEvent(published)
        BY <2>1, <2>3, <4>1 DEF Event, AppliedIfLive, Current
      <4>3. published.at \in Nat /\ published.generation \in Nat
            /\ view.snapshot.at \in Nat /\ view.snapshot.generation \in Nat
        BY SnapshotFields DEF FaceTypeOK
      <4>4. view'.snapshot.at >= published.at
        BY <4>2, <4>3 DEF AfterEvent, IsStale, OrderInv, Comparable, Before
      <4> QED
        BY <2>3, <3>1, <3>2, <3>3, <4>4 DEF Event
    <3>4. CASE events'[m] # <<>>
      <4>1. events'[m][Len(events'[m])] = published
        BY <1>1, <3>1, <3>4
      <4> QED
        BY <2>3, <3>1, <3>2, <3>4, <4>1 DEF Event
    <3> QED
      BY <3>3, <3>4
  <2> QED
    BY <2>2, <2>3
<1> QED
  BY <1>5, <1>6, <1>7, <1>8

\* A seed, its absence, or the failure behind it, reaches the view.
LEMMA SeedKeeps == ASSUME FaceBounds, FaceInv, NEW m \in Mounts, Seed(m) PROVE FaceInv'
<1> USE DEF FaceInv
<1> DEFINE shown == IF sub[m].seed = "answered" THEN AfterSeed(answer[m]) ELSE AfterUnsupported
<1>1. view' = view \/ (~sub[m].cancelled /\ view' = shown)
  BY DEF Seed, AppliedIfLive
<1>2. Before(Nowhere, truth) /\ Comparable(Nowhere) /\ Nowhere \in Snapshot
  BY NowhereIsASnapshot, SnapshotFields DEF FaceTypeOK, Before, Comparable, Nowhere
<1>3. shown \in Views /\ Before(shown.snapshot, truth) /\ Comparable(shown.snapshot)
  BY <1>2 DEF AfterSeed, AfterUnsupported, Views, FaceTypeOK, OrderInv
<1>4. view' \in Views /\ Before(view'.snapshot, truth) /\ Comparable(view'.snapshot)
  BY <1>1, <1>3 DEF Views, FaceTypeOK, OrderInv
<1>5. PICK seed \in {"failing", "done"} :
         sub' = [sub EXCEPT ![m].seed = seed] /\ (seed = "failing" => sub[m].failed)
  BY DEF Seed
<1>6. FaceTypeOK'
  <2>1. sub' \in [Mounts -> Subscription]
    <3>1. [sub[m] EXCEPT !.seed = seed] \in Subscription
      <4>1. sub[m] \in Subscription
        BY DEF FaceTypeOK, Subscription
      <4> QED
        BY <4>1 DEF Subscription
    <3> QED
      BY <1>5, <3>1 DEF FaceTypeOK, Subscription
  <2>2. answer' \in [Mounts -> Snapshot]
    BY <1>2 DEF Seed, FaceTypeOK
  <2> QED
    BY <1>4, <2>1, <2>2 DEF Seed, FaceTypeOK, Subscription, Views
<1>7. OrderInv'
  <2>1. ASSUME NEW n \in Mounts PROVE Before(answer'[n], truth') /\ Comparable(answer[n])'
    BY <1>2 DEF Seed, FaceTypeOK, OrderInv, Comparable
  <2> QED
    BY <1>4, <2>1, ViewKeeps DEF Seed, OrderInv
<1>8. MountInv'
  BY <1>5 DEF Seed, MountInv, FaceTypeOK
<1>9. FlowInv'
  <2> SUFFICES ASSUME NEW n \in Mounts, Current(n)'
               PROVE  /\ view'.status = "live" \/ sub'[n].seed # "unread" \/ events'[n] # <<>> =>
                            sub'[n].listener = "on"
                      /\ events'[n] # <<>> => events'[n][Len(events'[n])] = published'
                      /\ sub'[n].seed = "answered" /\ events'[n] = <<>> =>
                            view'.status = "live" \/ answer'[n].at >= published'.at
                      /\ view'.status = "live" /\ events'[n] = <<>> =>
                            view'.snapshot.at >= published'.at
                      /\ view'.status # "live" => view'.snapshot.generation = 0
    BY DEF FlowInv
  <2>1. Current(n)
    BY <1>5 DEF Current, Seed, FaceTypeOK
  <2>2. CASE n # m
    <3>1. sub[m].cancelled
      BY <2>1, <2>2 DEF Seed, MountInv, Current, FaceTypeOK, Mounts, FaceBounds
    <3>2. view' = view
      BY <3>1 DEF Seed, AppliedIfLive
    <3> QED
      BY <1>5, <2>1, <2>2, <3>2 DEF FlowInv, Seed, FaceTypeOK
  <2>3. CASE n = m
    <3>1. sub[m].listener = "on"
      BY <2>1, <2>3 DEF FlowInv, Seed
    <3>2. sub'[m].seed = seed /\ sub'[m].listener = "on"
      BY <1>5, <3>1 DEF FaceTypeOK
    <3>3. view' = shown
      BY <2>1, <2>3 DEF Seed, AppliedIfLive, Current
    <3>4. /\ view'.status = "live" /\ events[m] = <<>> => view'.snapshot.at >= published.at
          /\ view'.status # "live" => view'.snapshot.generation = 0
      BY <2>1, <2>3, <3>3 DEF FlowInv, AfterSeed, AfterUnsupported, IsStale, Nowhere
    <3> QED
      BY <2>1, <2>3, <3>2, <3>4 DEF FlowInv, Seed
  <2> QED
    BY <2>2, <2>3
<1> QED
  BY <1>6, <1>7, <1>8, <1>9

LEMMA FailingKeeps == ASSUME FaceBounds, FaceInv, NEW m \in Mounts, Failing(m) PROVE FaceInv'
<1> USE DEF FaceInv
<1>1. view' \in Views /\ view'.snapshot = view.snapshot
  BY DEF Failing, AppliedIfLive, AfterError, Views, FaceTypeOK
<1>2. FaceTypeOK'
  BY <1>1 DEF Failing, FaceTypeOK, Views
<1>3. OrderInv'
  BY <1>1 DEF Failing, OrderInv, Comparable
<1>4. MountInv'
  BY DEF Failing, MountInv, FaceTypeOK
<1>5. FlowInv'
  <2>1. ASSUME NEW n \in Mounts, Current(n)' PROVE n # m /\ Current(n) /\ view' = view
    <3>1. Current(n) /\ n # m
      BY <2>1 DEF Failing, Current, MountInv, FaceTypeOK
    <3>2. sub[m].cancelled
      BY <3>1 DEF Failing, MountInv, Current, FaceTypeOK, Mounts, FaceBounds
    <3> QED
      BY <3>1, <3>2 DEF Failing, AppliedIfLive
  <2> QED
    BY <2>1 DEF FlowInv, Failing, FaceTypeOK
<1> QED
  BY <1>2, <1>3, <1>4, <1>5

LEMMA PanelKeeps == ASSUME FaceBounds, FaceInv, [FaceNext]_faceVars PROVE FaceInv'
<1>0. ASSUME NEW m \in Mounts, sub[m].listener # "none" \/ sub[m].seed # "unread" PROVE m <= mount
  BY <1>0 DEF FaceInv, MountInv, FaceTypeOK, Mounts, FaceBounds
<1>1. CASE Change
  BY <1>1, ChangeKeeps
<1>2. CASE Observe
  BY <1>2, ObserveKeeps
<1>3. CASE Mount
  BY <1>3, MountKeeps
<1>4. CASE Unmount
  <2>1. mount \in Mounts
    BY <1>4 DEF Unmount, FaceInv, FaceTypeOK, Mounts, FaceBounds
  <2> DEFINE s == [sub[mount] EXCEPT !.cancelled = TRUE,
                      !.listener = IF sub[mount].settled /\ @ = "on" THEN "off" ELSE @]
  <2>2. s \in Subscription /\ s.cancelled /\ s.failed = sub[mount].failed
        /\ s.seed = sub[mount].seed
    BY <2>1 DEF FaceInv, FaceTypeOK, Subscription
  <2>3. sub' = [sub EXCEPT ![mount] = s]
    BY <1>4, <2>1 DEF Unmount, FaceInv, FaceTypeOK
  <2>4. sub[mount].seed = "failing" => sub[mount].failed
    BY <2>1 DEF FaceInv, MountInv
  <2>5. mount <= mount
    BY <2>1 DEF Mounts
  <2> HIDE DEF s
  <2> QED
    BY <1>4, <2>1, <2>2, <2>3, <2>4, <2>5, SubscriptionKeeps DEF Unmount
<1>5. ASSUME NEW m \in Mounts, Register(m) PROVE FaceInv'
  <2> DEFINE s == [sub[m] EXCEPT !.listener = "on"]
  <2>1. s \in Subscription /\ s.listener = "on" /\ s.cancelled = sub[m].cancelled
        /\ s.failed = sub[m].failed /\ s.seed = sub[m].seed
    BY <1>5 DEF FaceInv, FaceTypeOK, Subscription
  <2>2. sub' = [sub EXCEPT ![m] = s]
    BY <1>5 DEF Register, FaceInv, FaceTypeOK
  <2>3. m <= mount /\ sub[m].listener = "asked" /\ (sub[m].seed = "failing" => sub[m].failed)
    BY <1>0, <1>5 DEF Register, FaceInv, MountInv
  <2> HIDE DEF s
  <2> QED
    BY <1>5, <2>1, <2>2, <2>3, SubscriptionKeeps DEF Register
<1>6. ASSUME NEW m \in Mounts, ReadTruth(m) PROVE FaceInv'
  BY <1>6, ReadTruthKeeps
<1>7. ASSUME NEW m \in Mounts, Listening(m) PROVE FaceInv'
  <2> DEFINE s == AfterListen(m)
  <2>1. /\ s \in Subscription /\ s.cancelled = sub[m].cancelled /\ s.failed = sub[m].failed
        /\ s.cancelled \/ (s.listener = "on" /\ s.seed = "asked")
        /\ s.seed \in {"asked", sub[m].seed}
    BY <1>7 DEF Listening, AfterListen, FaceInv, FaceTypeOK, Subscription
  <2>2. sub' = [sub EXCEPT ![m] = s]
    BY <1>7 DEF Listening
  <2>3. m <= mount /\ sub[m].listener = "on" /\ (sub[m].seed = "failing" => sub[m].failed)
    BY <1>0, <1>7 DEF Listening, FaceInv, MountInv
  <2> HIDE DEF s
  <2> QED
    BY <1>7, <2>1, <2>2, <2>3, SubscriptionKeeps DEF Listening
<1>8. ASSUME NEW m \in Mounts, ListenFails(m) PROVE FaceInv'
  <2> DEFINE s == [sub[m] EXCEPT !.listener = "off", !.settled = TRUE, !.failed = TRUE,
                      !.seed = "asked"]
  <2>1. s \in Subscription /\ s.cancelled = sub[m].cancelled /\ s.failed /\ s.seed = "asked"
    BY <1>8 DEF FaceInv, FaceTypeOK, Subscription
  <2>2. sub' = [sub EXCEPT ![m] = s]
    BY <1>8 DEF ListenFails, FaceInv, FaceTypeOK
  <2>3. m <= mount /\ sub[m].listener = "asked"
    BY <1>0, <1>8 DEF ListenFails
  <2> HIDE DEF s
  <2> QED
    BY <1>8, <2>1, <2>2, <2>3, SubscriptionKeeps DEF ListenFails
<1>9. ASSUME NEW m \in Mounts, Event(m) PROVE FaceInv'
  BY <1>9, EventKeeps
<1>10. ASSUME NEW m \in Mounts, Seed(m) PROVE FaceInv'
  BY <1>10, SeedKeeps
<1>11. ASSUME NEW m \in Mounts, Failing(m) PROVE FaceInv'
  BY <1>11, FailingKeeps
<1>12. CASE UNCHANGED faceVars
  BY <1>12 DEF faceVars, FaceInv, FaceTypeOK, OrderInv, MountInv, FlowInv, Current, Before, Comparable
<1> QED
  BY <1>1, <1>2, <1>3, <1>4, <1>5, <1>6, <1>7, <1>8, <1>9, <1>10, <1>11, <1>12 DEF FaceNext

LEMMA PanelIsInductive == FaceSpec => []FaceInv
BY PanelInitHolds, PanelKeeps, FaceAssumption, PTL DEF FaceSpec

(* The lifecycle panel and its subscriptions are well formed.              *)
THEOREM PanelTypeCorrect == FaceSpec => []FaceTypeOK
BY PanelIsInductive, PTL DEF FaceInv

(* A panel that listens, and to which nothing more is under way, shows     *)
(* nothing older than the last snapshot that was published.                *)
THEOREM NewestIsShown == FaceSpec => []NothingPublishedIsMissed
<1>1. FaceInv => NothingPublishedIsMissed
  BY FaceAssumption DEF FaceInv, FlowInv, Current, FaceTypeOK, Mounts, FaceBounds,
         NothingPublishedIsMissed
<1> QED
  BY <1>1, PanelIsInductive, PTL

(* A listener is there, or gone, once listen has settled.                  *)
QuietInv ==
    \A m \in Mounts : sub[m].settled =>
        sub[m].listener = "off" \/ (sub[m].listener = "on" /\ ~sub[m].cancelled)

LEMMA QuietKeeps == ASSUME FaceBounds, FaceInv, QuietInv, [FaceNext]_faceVars PROVE QuietInv'
<1> USE DEF QuietInv, FaceInv, FaceTypeOK
<1>1. CASE Mount
  <2>1. mount + 1 \in Mounts /\ sub[mount + 1].listener = "none"
    BY <1>1 DEF Mount, Mounts, MountInv, FaceBounds
  <2> QED
    BY <1>1, <2>1 DEF Mount
<1>2. CASE Unmount
  <2>1. mount \in Mounts
    BY <1>2 DEF Unmount, Mounts, FaceBounds
  <2> QED
    BY <1>2, <2>1 DEF Unmount
<1>3. ASSUME NEW m \in Mounts, Register(m) PROVE QuietInv'
  BY <1>3 DEF Register
<1>4. ASSUME NEW m \in Mounts, ReadTruth(m) PROVE QuietInv'
  BY <1>4 DEF ReadTruth
<1>5. ASSUME NEW m \in Mounts, Listening(m) PROVE QuietInv'
  BY <1>5 DEF Listening, AfterListen
<1>6. ASSUME NEW m \in Mounts, ListenFails(m) PROVE QuietInv'
  BY <1>6 DEF ListenFails
<1>7. ASSUME NEW m \in Mounts, Seed(m) PROVE QuietInv'
  BY <1>7 DEF Seed
<1>8. ASSUME NEW m \in Mounts, Failing(m) PROVE QuietInv'
  BY <1>8 DEF Failing
<1>9. CASE UNCHANGED sub
  BY <1>9
<1> QED
  BY <1>1, <1>2, <1>3, <1>4, <1>5, <1>6, <1>7, <1>8, <1>9 DEF FaceNext, Change, Observe, Event, faceVars

(* A subscription that was cancelled leaves no listener behind, although   *)
(* it may be cancelled before listen has given it one.                     *)
THEOREM ListenersEnd == FaceSpec => []CancelledIsQuiet
<1>1. FaceInit => QuietInv
  BY DEF FaceInit, QuietInv
<1>2. QuietInv => CancelledIsQuiet
  BY DEF QuietInv, CancelledIsQuiet
<1>3. FaceInv /\ QuietInv /\ [FaceNext]_faceVars => QuietInv'
  BY QuietKeeps, FaceAssumption
<1> QED
  BY <1>1, <1>2, <1>3, PanelIsInductive, PTL DEF FaceSpec

-----------------------------------------------------------------------------
(* The main window.                                                        *)

Plans == {<<>>, <<"focus">>, <<"show", "focus">>, <<"unminimize", "focus">>,
          <<"show", "unminimize", "focus">>}

WindowType ==
    /\ window \in [visible : BOOLEAN, minimized : BOOLEAN, front : BOOLEAN]
    /\ surfacing \in [Threads -> [plan : Plans, outcome : {"none", "ok", "failed"}, raced : BOOLEAN]]

\* What is so, unless somebody else moved the window, with a plan still to do.
Prepared(t) ==
    ~surfacing[t].raced =>
        /\ surfacing[t].plan = <<"focus">> => window.visible /\ ~window.minimized
        /\ surfacing[t].plan = <<"show", "focus">> => ~window.minimized
        /\ surfacing[t].plan = <<"unminimize", "focus">> => window.visible
        /\ surfacing[t].outcome = "ok" => window.visible /\ ~window.minimized /\ window.front

WindowInv == WindowType /\ \A t \in Threads : Prepared(t)

\* An operation on the place of the window.
LEMMA AppliedType ==
    ASSUME WindowType, NEW op
    PROVE  Applied(op) \in [visible : BOOLEAN, minimized : BOOLEAN, front : BOOLEAN]
BY DEF WindowType, Applied

\* Whoever moves the window is noted as having raced.
LEMMA MovesKeeps ==
    ASSUME WindowInv, NEW op, Moves(op)
    PROVE  WindowInv'
<1>1. Applied(op) \in [visible : BOOLEAN, minimized : BOOLEAN, front : BOOLEAN]
  BY AppliedType DEF WindowInv
<1>2. CASE window' = window
  BY <1>2 DEF Moves, WindowInv, WindowType, Prepared
<1>3. CASE window' # window
  <2>1. surfacing' = Touched
    BY <1>3 DEF Moves
  <2>2. WindowType'
    <3>1. window' \in [visible : BOOLEAN, minimized : BOOLEAN, front : BOOLEAN]
      BY <1>1 DEF Moves
    <3>2. ASSUME NEW t \in Threads
          PROVE  [surfacing[t] EXCEPT !.raced = TRUE]
                    \in [plan : Plans, outcome : {"none", "ok", "failed"}, raced : BOOLEAN]
      BY DEF WindowInv, WindowType
    <3> QED
      BY <2>1, <3>1, <3>2 DEF WindowType, Touched
  <2>3. \A t \in Threads : surfacing'[t].raced
    BY <2>1 DEF WindowInv, WindowType, Touched
  <2> QED
    BY <2>2, <2>3 DEF WindowInv, Prepared
<1> QED
  BY <1>2, <1>3

\* A plan is made for the window as it is.
LEMMA ShowMainWindowKeeps ==
    ASSUME WindowInv, NEW t \in Threads, ShowMainWindow(t)
    PROVE  WindowInv'
<1>1. CASE surfacing' = [surfacing EXCEPT ![t] =
               [plan |-> FocusPlan(window.minimized), outcome |-> "none", raced |-> FALSE]]
  <2>1. FocusPlan(window.minimized) \in Plans
    BY DEF FocusPlan, Plans
  <2>2. WindowType'
    BY <1>1, <2>1 DEF ShowMainWindow, WindowInv, WindowType
  <2>3. ASSUME NEW u \in Threads PROVE Prepared(u)'
    <3>1. CASE u = t
      BY <1>1, <3>1 DEF ShowMainWindow, WindowInv, WindowType, Prepared, FocusPlan
    <3>2. CASE u # t
      BY <1>1, <3>2 DEF ShowMainWindow, WindowInv, WindowType, Prepared
    <3> QED
      BY <3>1, <3>2
  <2> QED
    BY <2>2, <2>3 DEF WindowInv
<1>2. CASE surfacing' = [surfacing EXCEPT ![t] = [NotSurfacing EXCEPT !.outcome = "failed"]]
  <2>1. WindowType'
    BY <1>2 DEF ShowMainWindow, WindowInv, WindowType, NotSurfacing, Plans
  <2>2. ASSUME NEW u \in Threads PROVE Prepared(u)'
    BY <1>2 DEF ShowMainWindow, WindowInv, WindowType, Prepared, NotSurfacing
  <2> QED
    BY <2>1, <2>2 DEF WindowInv
<1> QED
  BY <1>1, <1>2 DEF ShowMainWindow

\* An operation done for one thread never undoes what another has prepared.
LEMMA SurfaceStepKeeps ==
    ASSUME WindowInv, NEW t \in Threads, SurfaceStep(t)
    PROVE  WindowInv'
<1> DEFINE plan == surfacing[t].plan
<1>1. plan \in Plans /\ plan # <<>>
  BY DEF WindowInv, WindowType, SurfaceStep
<1>2. \/ plan = <<"focus">> /\ Head(plan) = "focus" /\ Tail(plan) = <<>>
      \/ plan = <<"show", "focus">> /\ Head(plan) = "show" /\ Tail(plan) = <<"focus">>
      \/ plan = <<"unminimize", "focus">> /\ Head(plan) = "unminimize" /\ Tail(plan) = <<"focus">>
      \/ /\ plan = <<"show", "unminimize", "focus">>
         /\ Head(plan) = "show" /\ Tail(plan) = <<"unminimize", "focus">>
  <2>1. CASE plan = <<"focus">>
    <3>1. Head(<<"focus">>) = "focus" /\ Tail(<<"focus">>) = <<>>
      OBVIOUS
    <3> QED BY <2>1, <3>1
  <2>2. CASE plan = <<"show", "focus">>
    <3>1. Head(<<"show", "focus">>) = "show" /\ Tail(<<"show", "focus">>) = <<"focus">>
      OBVIOUS
    <3> QED BY <2>2, <3>1
  <2>3. CASE plan = <<"unminimize", "focus">>
    <3>1. Head(<<"unminimize", "focus">>) = "unminimize" /\ Tail(<<"unminimize", "focus">>) = <<"focus">>
      OBVIOUS
    <3> QED BY <2>3, <3>1
  <2>4. CASE plan = <<"show", "unminimize", "focus">>
    <3>1. Head(<<"show", "unminimize", "focus">>) = "show"
      OBVIOUS
    <3>2. Tail(<<"show", "unminimize", "focus">>) = <<"unminimize", "focus">>
      OBVIOUS
    <3> QED BY <2>4, <3>1, <3>2
  <2> QED
    BY <1>1, <2>1, <2>2, <2>3, <2>4 DEF Plans
<1>3. CASE /\ window' = Applied(Head(plan))
           /\ surfacing' = [surfacing EXCEPT ![t].plan = Tail(plan),
                               ![t].outcome = IF Tail(plan) = <<>> THEN "ok" ELSE "none"]
  <2>1. WindowType'
    <3>1. Tail(plan) \in Plans
      BY <1>2 DEF Plans
    <3>2. Applied(Head(plan)) \in [visible : BOOLEAN, minimized : BOOLEAN, front : BOOLEAN]
      BY AppliedType DEF WindowInv
    <3>3. [surfacing[t] EXCEPT !.plan = Tail(plan), !.outcome = IF Tail(plan) = <<>> THEN "ok" ELSE "none"]
             \in [plan : Plans, outcome : {"none", "ok", "failed"}, raced : BOOLEAN]
      BY <3>1 DEF WindowInv, WindowType
    <3> QED
      BY <1>3, <3>2, <3>3 DEF WindowInv, WindowType
  <2>2. ASSUME NEW u \in Threads, u # t PROVE Prepared(u)'
    BY <1>2, <1>3, <2>2 DEF WindowInv, WindowType, Prepared, Applied
  <2>3. Prepared(t)'
    <3>1. surfacing'[t] = [surfacing[t] EXCEPT !.plan = Tail(plan),
                               !.outcome = IF Tail(plan) = <<>> THEN "ok" ELSE "none"]
      BY <1>3 DEF WindowInv, WindowType
    <3>2. Prepared(t)
      BY DEF WindowInv
    <3>3. CASE plan = <<"focus">>
      BY <1>2, <1>3, <3>1, <3>2, <3>3 DEF WindowInv, WindowType, Prepared, Applied
    <3>4. CASE plan # <<"focus">>
      BY <1>1, <1>2, <1>3, <3>1, <3>2, <3>4 DEF WindowInv, WindowType, Prepared, Applied
    <3> QED
      BY <3>3, <3>4
  <2> QED
    BY <2>1, <2>2, <2>3 DEF WindowInv
<1>4. CASE /\ surfacing' = [surfacing EXCEPT ![t].plan = <<>>, ![t].outcome = "failed"]
           /\ UNCHANGED window
  <2>1. WindowType'
    BY <1>4 DEF WindowInv, WindowType, Plans
  <2>2. ASSUME NEW u \in Threads PROVE Prepared(u)'
    BY <1>4 DEF WindowInv, WindowType, Prepared
  <2> QED
    BY <2>1, <2>2 DEF WindowInv
<1> QED
  BY <1>3, <1>4 DEF SurfaceStep

LEMMA StutterKeeps ==
    ASSUME WindowInv, UNCHANGED <<window, surfacing>>
    PROVE  WindowInv'
BY DEF WindowInv, WindowType, Prepared

LEMMA DispatchKeeps ==
    ASSUME WindowInv, NEW by, NEW id, NEW confirmed, DispatchMenuAction(by, id, confirmed)
    PROVE  WindowInv'
<1>1. ThreadOf(by) \in Threads
  BY DEF ThreadOf, Threads
<1>2. \/ UNCHANGED <<window, surfacing>>
      \/ ShowMainWindow(ThreadOf(by))
      \/ \E op \in {"hide", "none"} : Moves(op)
  BY DEF DispatchMenuAction, WindowOps
<1> QED
  BY <1>1, <1>2, StutterKeeps, ShowMainWindowKeeps, MovesKeeps

(* When show_main_window reports success, the window is visible, restored  *)
(* and in front, or somebody moved it meanwhile.                           *)
THEOREM WindowComes == WindowSpec => []AskedWindowIsShown
<1>1. WindowInit => WindowInv
  BY DEF WindowInit, WindowInv, WindowType, Prepared, NotSurfacing, Plans
<1>2. WindowInv /\ [WindowNext]_windowVars => WindowInv'
  <2> SUFFICES ASSUME WindowInv, [WindowNext]_windowVars PROVE WindowInv'
    OBVIOUS
  <2>1. ASSUME NEW t \in Threads, SurfaceStep(t) PROVE WindowInv'
    BY <2>1, SurfaceStepKeeps
  <2>2. ASSUME NEW id \in DOMAIN Actions, RouteMenuAction(id) PROVE WindowInv'
    BY <2>2, DispatchKeeps, StutterKeeps DEF RouteMenuAction
  <2>3. ASSUME NEW id \in DOMAIN Actions, PromptEnds(id) PROVE WindowInv'
    BY <2>3, DispatchKeeps, StutterKeeps DEF PromptEnds
  <2>4. ASSUME NEW id \in DOMAIN Actions, DispatchSmokeItem(id) PROVE WindowInv'
    BY <2>4, DispatchKeeps DEF DispatchSmokeItem
  <2>5. ASSUME NEW button, NEW edge, TrayIconEvent(button, edge) PROVE WindowInv'
    BY <2>5, ShowMainWindowKeeps, StutterKeeps DEF TrayIconEvent, Threads
  <2>6. CASE Refresh
    BY <2>6, StutterKeeps DEF Refresh
  <2>7. CASE SecondInstance
    BY <2>7, ShowMainWindowKeeps DEF SecondInstance, Threads
  <2>8. CASE CloseRequested
    BY <2>8, MovesKeeps DEF CloseRequested
  <2>9. CASE User
    BY <2>9, MovesKeeps DEF User
  <2>10. CASE HostAsks
    BY <2>10, MovesKeeps DEF HostAsks
  <2>11. CASE UNCHANGED windowVars
    BY <2>11, StutterKeeps DEF windowVars
  <2> QED
    BY <2>1, <2>2, <2>3, <2>4, <2>5, <2>6, <2>7, <2>8, <2>9, <2>10, <2>11 DEF WindowNext
<1>3. WindowInv => AskedWindowIsShown
  BY DEF WindowInv, Prepared, AskedWindowIsShown
<1> QED
  BY <1>1, <1>2, <1>3, PTL DEF WindowSpec

-----------------------------------------------------------------------------
\* What one dispatch may send.
LEMMA DispatchSends ==
    ASSUME NEW by, NEW id, NEW confirmed, DispatchMenuAction(by, id, confirmed)
    PROVE  \/ UNCHANGED sent
           \/ \E to \in {"app", "host"} : sent' =
                 [to |-> to, action |-> Actions[id], by |-> by, confirmed |-> confirmed]
BY DEF DispatchMenuAction, DispatchApp, DispatchHost

\* Of an item of the window nothing is sent.
LEMMA WindowItemsSendNothing ==
    ASSUME NEW by, NEW id, NEW confirmed, DispatchMenuAction(by, id, confirmed),
           Actions[id].target = "core",
           Actions[id].command \in {"window.show", "window.close", "webview.reload"}
    PROVE  UNCHANGED sent
BY DEF DispatchMenuAction, WindowOps

\* What the menu sends is meant if it needs no prompt or had one.
LEMMA MenuSends ==
    ASSUME CommandsAreMeant, NEW id, NEW confirmed,
           DispatchMenuAction("menu", id, confirmed), Actions[id].confirm => confirmed
    PROVE  CommandsAreMeant'
<1>1. CASE UNCHANGED sent
  BY <1>1 DEF CommandsAreMeant
<1>2. CASE ~UNCHANGED sent
  <2>1. PICK to \in {"app", "host"} : sent' =
           [to |-> to, action |-> Actions[id], by |-> "menu", confirmed |-> confirmed]
    BY <1>2, DispatchSends
  <2>2. sent'.by = "menu" /\ sent'.action = Actions[id] /\ sent'.confirmed = confirmed
    BY <2>1
  <2> QED
    BY <2>2 DEF CommandsAreMeant
<1> QED
  BY <1>1, <1>2

(* The developer's panel commands nobody, and an item that is to be        *)
(* confirmed commands nobody unless it was, whatever menu is shown.        *)
THEOREM NothingUnmeant == WindowSpec => []CommandsAreMeant
<1>1. WindowInit => CommandsAreMeant
  BY DEF WindowInit, CommandsAreMeant
<1>2. CommandsAreMeant /\ [WindowNext]_windowVars => CommandsAreMeant'
  <2> SUFFICES ASSUME CommandsAreMeant, [WindowNext]_windowVars PROVE CommandsAreMeant'
    OBVIOUS
  <2>1. ASSUME UNCHANGED sent PROVE CommandsAreMeant'
    BY <2>1 DEF CommandsAreMeant
  <2>2. ASSUME NEW id \in DOMAIN Actions, RouteMenuAction(id) PROVE CommandsAreMeant'
    <3>1. CASE Actions[id].confirm
      BY <2>1, <2>2, <3>1 DEF RouteMenuAction
    <3>2. CASE ~Actions[id].confirm
      <4>1. DispatchMenuAction("menu", id, FALSE)
        BY <2>2, <3>2 DEF RouteMenuAction
      <4> QED
        BY <3>2, <4>1, MenuSends
    <3> QED
      BY <3>1, <3>2
  <2>3. ASSUME NEW id \in DOMAIN Actions, PromptEnds(id) PROVE CommandsAreMeant'
    <3>1. DispatchMenuAction("menu", id, TRUE) \/ UNCHANGED sent
      BY <2>3 DEF PromptEnds
    <3> QED
      BY <2>1, <3>1, MenuSends
  <2>4. ASSUME NEW id \in DOMAIN Actions, DispatchSmokeItem(id) PROVE CommandsAreMeant'
    BY <2>1, <2>4, WindowItemsSendNothing, SafeItemsAreTheWindows DEF DispatchSmokeItem
  <2>5. CASE \/ \E t \in Threads : SurfaceStep(t)
             \/ \E button \in {"left", "right"}, edge \in {"up", "down"} : TrayIconEvent(button, edge)
             \/ Refresh \/ SecondInstance \/ CloseRequested \/ User \/ HostAsks
             \/ UNCHANGED windowVars
    BY <2>1, <2>5 DEF SurfaceStep, TrayIconEvent, Refresh, SecondInstance, CloseRequested,
                      User, HostAsks, windowVars
  <2> QED
    BY <2>2, <2>3, <2>4, <2>5 DEF WindowNext
<1> QED
  BY <1>1, <1>2, PTL DEF WindowSpec

(* Both together, which is what the window is checked for.                 *)
THEOREM WindowIsObedient == WindowSpec => []WindowObeys
<1>1. AskedWindowIsShown /\ CommandsAreMeant => WindowObeys
  BY DEF WindowObeys
<1> QED BY <1>1, WindowComes, NothingUnmeant, PTL

-----------------------------------------------------------------------------
(* The start of a host.                                                    *)

\* The wait is for a host that runs, and each check has ruled out what came before it.
BlameInv ==
    /\ wait.at \notin {"start", "over"} => launch.kind = "launch"
    /\ wait.at # "over" => wait.verdict = "none"
    /\ wait.at = "slot" /\ wait.heard => slot # None \/ refused
    /\ wait.at = "refused" /\ wait.heard => refused
    /\ wait.at \in {"exit", "deadline"} => ~wait.heard
    /\ wait.verdict = "ready" => slot # None

StartInv == StartTypeOK /\ BlameInv /\ BlameIsTrue

LEMMA KindsOfLaunch ==
    /\ None.kind = "none" /\ \A why : Error(why).kind = "error"
    /\ \A p, a, c : /\ Launched(p, a, c).kind = "launch" /\ Launched(p, a, c).program = p
                    /\ Launched(p, a, c).args = a /\ Launched(p, a, c).cwd = c
BY DEF None, Error, Launched

LEMMA AcceptedIsReachable ==
    ASSUME NEW step \in Accepted
    PROVE  step # None /\ CanBeReached(step.frame)
<1>1. step \in Frames /\ step.kind = "ready" /\ IsSupported(step.frame)
  BY DEF Accepted
<1>2. step.frame.port # 0 /\ step.frame.token = "64 hex"
  BY <1>1, Zenon DEF IsSupported
<1>3. step.frame.port \in 0..MaxPort
  BY <1>1, StartAssumption, Zenon DEF StartBounds
<1>4. step.frame.port \in 1..MaxPort
  <2>1. MaxPort \in Nat
    BY DEF MaxPort
  <2>2. \A n \in Nat : \A port \in 0..n : port # 0 => port \in 1..n
    OBVIOUS
  <2>. QED  BY <1>2, <1>3, <2>1, <2>2, Zenon
<1>5. step # None
  BY <1>1 DEF None
<1>. QED  BY <1>2, <1>4, <1>5, Zenon DEF CanBeReached

\* The wait goes to its next check, or is over.
LEMMA WaitMoves ==
    ASSUME wait \in WaitStates
    PROVE  /\ \A at \in {"current", "slot", "refused", "exit", "deadline"} :
                 Goto(at) => /\ wait' \in WaitStates /\ wait'.at = at
                             /\ wait'.verdict = wait.verdict /\ wait'.heard = wait.heard
           /\ \A v \in {"not launched", "stopped", "ready", "refused", "stdio lost", "exited",
                        "timeout"} :
                 Verdict(v) => /\ wait' \in WaitStates /\ wait'.at = "over"
                               /\ wait'.verdict = v /\ wait'.heard = wait.heard
BY DEF WaitStates, Goto, Verdict

LEMMA StartInitHolds ==
    ASSUME StartInit
    PROVE  StartInv
<1>1. host \in HostStates
  <2>1. host \in [script : Scripts, code : {"running"}] /\ Scripts \subseteq Seq(Steps)
    BY StartAssumption, Zenon DEF StartBounds, StartInit, Unstarted
  <2>. QED  BY <2>1 DEF HostStates
<1>2. pipe \in Seq(Frames)
  BY EmptySeq, Zenon DEF StartInit, Unstarted
<1>3. wait = [at |-> "start", verdict |-> "none", heard |-> FALSE] /\ wait \in WaitStates
  BY DEF StartInit, Unstarted, Waiting, WaitStates
<1>4. StartTypeOK
  BY <1>1, <1>2, <1>3 DEF StartInit, Unstarted, StartTypeOK
<1>5. BlameInv /\ BlameIsTrue
  BY <1>3 DEF BlameInv, BlameIsTrue
<1>. QED  BY <1>4, <1>5 DEF StartInv

LEMMA StartProcessKeeps ==
    ASSUME StartInv, StartHostProcess
    PROVE  StartInv'
<1>. DEFINE resolved == ResolveHostLaunch(machine)
            payload  == HelloPayload(machine, environment)
<1>1. UNCHANGED <<machine, environment, host, pipe, slot, refused, current, late>>
  BY DEF StartHostProcess
<1>2. resolved' = resolved /\ payload' = payload
  BY <1>1
<1>3. wait \in WaitStates /\ hello \in {NoHello, payload}
  BY DEF StartInv, StartTypeOK
<1>4. ASSUME launch' \in {None, resolved, Error("spawn")}, hello' \in {NoHello, payload},
             wait' \in WaitStates
      PROVE  StartTypeOK'
  BY <1>1, <1>2, <1>4 DEF StartInv, StartTypeOK
<1>5. CASE /\ resolved.kind = "launch" /\ launch' = resolved
           /\ SendHello(payload) /\ wait' = Waiting
  <2>1. hello' \in {NoHello, payload}
    BY <1>3, <1>5 DEF SendHello
  <2>2. wait' = [at |-> "current", verdict |-> "none", heard |-> FALSE] /\ wait' \in WaitStates
    BY <1>5 DEF Waiting, WaitStates
  <2>. HIDE DEF resolved, payload
  <2>3. StartTypeOK'
    BY <1>4, <1>5, <2>1, <2>2
  <2>4. BlameInv' /\ BlameIsTrue'
    BY <1>5, <2>2 DEF BlameInv, BlameIsTrue
  <2>. QED  BY <2>3, <2>4 DEF StartInv
<1>6. CASE /\ launch' = (IF resolved.kind = "launch" THEN Error("spawn") ELSE resolved)
           /\ Verdict("not launched") /\ UNCHANGED hello
  <2>1. wait' \in WaitStates /\ wait'.at = "over" /\ wait'.verdict = "not launched"
    BY <1>3, <1>6, WaitMoves
  <2>. HIDE DEF resolved, payload
  <2>2. launch' \in {None, resolved, Error("spawn")} /\ hello' \in {NoHello, payload}
    BY <1>3, <1>6
  <2>3. StartTypeOK'
    BY <1>4, <2>1, <2>2
  <2>4. BlameInv' /\ BlameIsTrue'
    BY <2>1 DEF BlameInv, BlameIsTrue
  <2>. QED  BY <2>3, <2>4 DEF StartInv
<1>. QED  BY <1>5, <1>6 DEF StartHostProcess

\* What no step but the start of the process changes.
LEMMA LaunchStays ==
    ASSUME StartTypeOK, UNCHANGED <<machine, environment, launch, hello>>,
           host' \in HostStates, pipe' \in Seq(Frames), slot' \in {None} \cup Accepted,
           refused' \in BOOLEAN, current' \in BOOLEAN, late' \in BOOLEAN, wait' \in WaitStates
    PROVE  StartTypeOK'
BY DEF StartTypeOK

LEMMA HostActsKeeps ==
    ASSUME StartInv, HostActs
    PROVE  StartInv'
<1>. DEFINE step == Head(host.script)
<1>1. /\ UNCHANGED <<machine, environment, launch, hello, slot, refused, current, late, wait>>
      /\ host.code = "running" /\ host.script # <<>>
  BY DEF HostActs, Alive
<1>2. host \in HostStates /\ pipe \in Seq(Frames)
  BY DEF StartInv, StartTypeOK
<1>3. host.script \in Seq(Steps)
  BY <1>2 DEF HostStates
<1>4. step \in Steps /\ Tail(host.script) \in Seq(Steps)
  BY <1>1, <1>3, HeadTailProperties
<1>. HIDE DEF step
<1>7. ASSUME host' \in HostStates, pipe' \in Seq(Frames)
      PROVE  StartInv'
  <2>1. StartTypeOK'
    BY <1>1, <1>7, LaunchStays DEF StartInv, StartTypeOK
  <2>2. BlameInv'
    BY <1>1 DEF StartInv, BlameInv
  <2>3. BlameIsTrue'
    BY <1>1 DEF StartInv, BlameIsTrue
  <2>. QED  BY <2>1, <2>2, <2>3 DEF StartInv
<1>5. CASE step.kind = "exit"
  <2>1. host' = [script |-> <<>>, code |-> step.code] /\ UNCHANGED pipe
    BY <1>5 DEF HostActs, step
  <2>2. <<>> \in Seq(Steps) /\ step.code \in {other.code : other \in Steps \ Frames}
    BY <1>4, <1>5, EmptySeq DEF Frames
  <2>3. host' \in HostStates
    BY <2>1, <2>2 DEF HostStates
  <2>. QED  BY <1>2, <1>7, <2>1, <2>3
<1>6. CASE step.kind # "exit"
  <2>1. host' = [host EXCEPT !.script = Tail(@)] /\ pipe' = Append(pipe, step)
    BY <1>6 DEF HostActs, step
  <2>2. host' \in HostStates
    BY <1>2, <1>4, <2>1 DEF HostStates
  <2>3. pipe' \in Seq(Frames)
    <3>1. step \in Frames
      BY <1>4, <1>6 DEF Frames
    <3>. QED  BY <1>2, <2>1, <3>1, AppendProperties
  <2>. QED  BY <1>7, <2>2, <2>3
<1>. QED  BY <1>5, <1>6

\* A frame is accepted, refused, or says nothing; what was accepted or refused stays so.
LEMMA HandledIs ==
    ASSUME NEW args \in Frames, Handled(args), slot \in {None} \cup Accepted, refused \in BOOLEAN
    PROVE  /\ slot' \in {None} \cup Accepted /\ refused' \in BOOLEAN
           /\ (refused => refused') /\ (slot # None => slot' # None)
<1>1. args.kind \in {"none", "malformed", "ready"}
  BY StartAssumption, Zenon DEF StartBounds
<1>2. CASE args.kind = "none"
  BY <1>2 DEF Handled
<1>3. CASE args.kind = "malformed"
  BY <1>3 DEF Handled
<1>4. CASE args.kind = "ready"
  <2>1. CASE Deserializes(args.frame.keys) /\ IsSupported(args.frame)
    <3>1. args \in Accepted
      BY <1>4, <2>1, Zenon DEF Accepted
    <3>2. slot' = args /\ UNCHANGED refused
      BY <1>4, <2>1 DEF Handled
    <3>. QED  BY <3>1, <3>2, AcceptedIsReachable
  <2>2. CASE ~(Deserializes(args.frame.keys) /\ IsSupported(args.frame))
    <3>1. refused' = TRUE /\ UNCHANGED slot
      BY <1>4, <2>2 DEF Handled
    <3>. QED  BY <3>1
  <2>. QED  BY <2>1, <2>2
<1>. QED  BY <1>1, <1>2, <1>3, <1>4

LEMMA ReadFrameKeeps ==
    ASSUME StartInv, ReadFrame
    PROVE  StartInv'
<1>. DEFINE args == Head(pipe)
<1>1. /\ UNCHANGED <<machine, environment, launch, hello, host, current, late, wait>>
      /\ pipe # <<>> /\ pipe' = Tail(pipe) /\ Handled(args)
  BY DEF ReadFrame
<1>2. /\ pipe \in Seq(Frames) /\ host \in HostStates /\ wait \in WaitStates
      /\ slot \in {None} \cup Accepted /\ refused \in BOOLEAN
      /\ current \in BOOLEAN /\ late \in BOOLEAN
  BY DEF StartInv, StartTypeOK
<1>3. args \in Frames /\ Tail(pipe) \in Seq(Frames)
  BY <1>1, <1>2, HeadTailProperties
<1>. HIDE DEF args
<1>4. /\ slot' \in {None} \cup Accepted /\ refused' \in BOOLEAN
      /\ (refused => refused') /\ (slot # None => slot' # None)
  BY <1>1, <1>2, <1>3, HandledIs
<1>5. StartTypeOK'
  BY <1>1, <1>2, <1>3, <1>4, LaunchStays DEF StartInv
<1>6. BlameInv'
  BY <1>1, <1>4 DEF StartInv, BlameInv
<1>7. wait.verdict = "ready" => CanBeReached(slot'.frame)
  BY <1>4, AcceptedIsReachable DEF StartInv, BlameInv
<1>8. BlameIsTrue'
  BY <1>1, <1>4, <1>7 DEF StartInv, BlameIsTrue
<1>. QED  BY <1>5, <1>6, <1>8 DEF StartInv

LEMMA StopKeeps ==
    ASSUME StartInv, Stop
    PROVE  StartInv'
<1>1. StartTypeOK'
  BY LaunchStays DEF Stop, StartInv, StartTypeOK
<1>2. BlameInv' /\ BlameIsTrue'
  BY DEF Stop, StartInv, BlameInv, BlameIsTrue
<1>. QED  BY <1>1, <1>2 DEF StartInv

LEMMA TimePassesKeeps ==
    ASSUME StartInv, TimePasses
    PROVE  StartInv'
<1>1. StartTypeOK'
  BY LaunchStays DEF TimePasses, StartInv, StartTypeOK
<1>2. BlameInv' /\ BlameIsTrue'
  BY DEF TimePasses, StartInv, BlameInv, BlameIsTrue
<1>. QED  BY <1>1, <1>2 DEF StartInv

\* A check of the wait changes nothing else.
LEMMA ChecksKeepTheRest ==
    ASSUME StartInv, wait' \in WaitStates, NEW at, Waits(at)
    PROVE  StartTypeOK' /\ wait.at = at
BY LaunchStays DEF Waits, StartInv, StartTypeOK

LEMMA CheckCurrentKeeps ==
    ASSUME StartInv, CheckCurrent
    PROVE  StartInv'
<1>1. wait \in WaitStates /\ wait.at = "current" /\ wait.verdict = "none"
  BY DEF CheckCurrent, Waits, StartInv, StartTypeOK, BlameInv
<1>2. UNCHANGED <<launch, host, slot, refused, current, late>> /\ launch.kind = "launch"
  BY <1>1 DEF CheckCurrent, Waits, StartInv, BlameInv
<1>3. CASE current
  <2>. DEFINE heard == slot # None \/ refused
  <2>1. wait' = [wait EXCEPT !.at = "slot", !.heard = heard]
    BY <1>3 DEF CheckCurrent
  <2>2. heard \in BOOLEAN
    OBVIOUS
  <2>3. /\ wait' \in WaitStates /\ wait'.at = "slot" /\ wait'.verdict = "none"
        /\ wait'.heard = heard
    <3>. HIDE DEF heard
    <3>. QED  BY <1>1, <2>1, <2>2 DEF WaitStates
  <2>4. StartTypeOK'
    BY <2>3, ChecksKeepTheRest DEF CheckCurrent
  <2>5. BlameInv' /\ BlameIsTrue'
    BY <1>2, <2>3 DEF BlameInv, BlameIsTrue
  <2>. QED  BY <2>4, <2>5 DEF StartInv
<1>4. CASE ~current
  <2>1. wait' \in WaitStates /\ wait'.at = "over" /\ wait'.verdict = "stopped"
    BY <1>1, <1>4, WaitMoves DEF CheckCurrent
  <2>2. StartTypeOK'
    BY <2>1, ChecksKeepTheRest DEF CheckCurrent
  <2>3. BlameInv' /\ BlameIsTrue'
    BY <1>2, <1>4, <2>1 DEF BlameInv, BlameIsTrue
  <2>. QED  BY <2>2, <2>3 DEF StartInv
<1>. QED  BY <1>3, <1>4

LEMMA CheckSlotKeeps ==
    ASSUME StartInv, CheckSlot
    PROVE  StartInv'
<1>1. wait \in WaitStates /\ wait.at = "slot" /\ wait.verdict = "none"
  BY DEF CheckSlot, Waits, StartInv, StartTypeOK, BlameInv
<1>2. UNCHANGED <<launch, host, slot, refused, current, late>> /\ launch.kind = "launch"
  BY <1>1 DEF CheckSlot, Waits, StartInv, BlameInv
<1>3. CASE slot # None
  <2>1. wait' \in WaitStates /\ wait'.at = "over" /\ wait'.verdict = "ready"
    BY <1>1, <1>3, WaitMoves DEF CheckSlot
  <2>2. StartTypeOK'
    BY <2>1, ChecksKeepTheRest DEF CheckSlot
  <2>3. CanBeReached(slot.frame)
    BY <1>3, AcceptedIsReachable DEF StartInv, StartTypeOK
  <2>4. BlameInv' /\ BlameIsTrue'
    BY <1>2, <1>3, <2>1, <2>3 DEF BlameInv, BlameIsTrue
  <2>. QED  BY <2>2, <2>4 DEF StartInv
<1>4. CASE slot = None
  <2>1. /\ wait' \in WaitStates /\ wait'.at = "refused" /\ wait'.verdict = "none"
        /\ wait'.heard = wait.heard
    BY <1>1, <1>4, WaitMoves DEF CheckSlot
  <2>2. StartTypeOK'
    BY <2>1, ChecksKeepTheRest DEF CheckSlot
  <2>3. wait.heard => refused
    BY <1>1, <1>4 DEF StartInv, BlameInv
  <2>4. BlameInv' /\ BlameIsTrue'
    BY <1>2, <2>1, <2>3 DEF BlameInv, BlameIsTrue
  <2>. QED  BY <2>2, <2>4 DEF StartInv
<1>. QED  BY <1>3, <1>4

LEMMA CheckRefusedKeeps ==
    ASSUME StartInv, CheckRefused
    PROVE  StartInv'
<1>1. wait \in WaitStates /\ wait.at = "refused" /\ wait.verdict = "none"
  BY DEF CheckRefused, Waits, StartInv, StartTypeOK, BlameInv
<1>2. UNCHANGED <<launch, host, slot, refused, current, late>> /\ launch.kind = "launch"
  BY <1>1 DEF CheckRefused, Waits, StartInv, BlameInv
<1>3. CASE refused
  <2>1. wait' \in WaitStates /\ wait'.at = "over" /\ wait'.verdict = "refused"
    BY <1>1, <1>3, WaitMoves DEF CheckRefused
  <2>2. StartTypeOK'
    BY <2>1, ChecksKeepTheRest DEF CheckRefused
  <2>3. BlameInv' /\ BlameIsTrue'
    BY <1>2, <1>3, <2>1 DEF BlameInv, BlameIsTrue
  <2>. QED  BY <2>2, <2>3 DEF StartInv
<1>4. CASE ~refused
  <2>1. /\ wait' \in WaitStates /\ wait'.at = "exit" /\ wait'.verdict = "none"
        /\ wait'.heard = wait.heard
    BY <1>1, <1>4, WaitMoves DEF CheckRefused
  <2>2. StartTypeOK'
    BY <2>1, ChecksKeepTheRest DEF CheckRefused
  <2>3. ~wait.heard
    BY <1>1, <1>4 DEF StartInv, BlameInv
  <2>4. BlameInv' /\ BlameIsTrue'
    BY <1>2, <2>1, <2>3 DEF BlameInv, BlameIsTrue
  <2>. QED  BY <2>2, <2>4 DEF StartInv
<1>. QED  BY <1>3, <1>4

LEMMA CheckExitKeeps ==
    ASSUME StartInv, CheckExit
    PROVE  StartInv'
<1>1. wait \in WaitStates /\ wait.at = "exit" /\ wait.verdict = "none" /\ ~wait.heard
  BY DEF CheckExit, Waits, StartInv, StartTypeOK, BlameInv
<1>2. UNCHANGED <<launch, host, slot, refused, current, late>> /\ launch.kind = "launch"
  BY <1>1 DEF CheckExit, Waits, StartInv, BlameInv
<1>3. CASE host.code = "running"
  <2>1. /\ wait' \in WaitStates /\ wait'.at = "deadline" /\ wait'.verdict = "none"
        /\ wait'.heard = wait.heard
    BY <1>1, <1>3, WaitMoves DEF CheckExit
  <2>2. StartTypeOK'
    BY <2>1, ChecksKeepTheRest DEF CheckExit
  <2>3. BlameInv' /\ BlameIsTrue'
    BY <1>1, <1>2, <2>1 DEF BlameInv, BlameIsTrue
  <2>. QED  BY <2>2, <2>3 DEF StartInv
<1>4. CASE host.code # "running"
  <2>1. PICK v \in {"stdio lost", "exited"} :
            Verdict(v) /\ (v = "stdio lost") = (host.code = "stdio lost")
    BY <1>4 DEF CheckExit
  <2>2. /\ wait' \in WaitStates /\ wait'.at = "over" /\ wait'.verdict = v
        /\ wait'.heard = wait.heard
    BY <1>1, <2>1, WaitMoves
  <2>3. StartTypeOK'
    BY <2>2, ChecksKeepTheRest DEF CheckExit
  <2>4. BlameInv' /\ BlameIsTrue'
    BY <1>1, <1>2, <1>4, <2>1, <2>2 DEF BlameInv, BlameIsTrue
  <2>. QED  BY <2>3, <2>4 DEF StartInv
<1>. QED  BY <1>3, <1>4

LEMMA CheckDeadlineKeeps ==
    ASSUME StartInv, CheckDeadline
    PROVE  StartInv'
<1>1. wait \in WaitStates /\ wait.at = "deadline" /\ wait.verdict = "none" /\ ~wait.heard
  BY DEF CheckDeadline, Waits, StartInv, StartTypeOK, BlameInv
<1>2. UNCHANGED <<launch, host, slot, refused, current, late>> /\ launch.kind = "launch"
  BY <1>1 DEF CheckDeadline, Waits, StartInv, BlameInv
<1>3. CASE late
  <2>1. /\ wait' \in WaitStates /\ wait'.at = "over" /\ wait'.verdict = "timeout"
        /\ wait'.heard = wait.heard
    BY <1>1, <1>3, WaitMoves DEF CheckDeadline
  <2>2. StartTypeOK'
    BY <2>1, ChecksKeepTheRest DEF CheckDeadline
  <2>3. BlameInv' /\ BlameIsTrue'
    BY <1>1, <1>2, <1>3, <2>1 DEF BlameInv, BlameIsTrue
  <2>. QED  BY <2>2, <2>3 DEF StartInv
<1>4. CASE ~late
  <2>1. wait' \in WaitStates /\ wait'.at = "current" /\ wait'.verdict = "none"
    BY <1>1, <1>4, WaitMoves DEF CheckDeadline
  <2>2. StartTypeOK'
    BY <2>1, ChecksKeepTheRest DEF CheckDeadline
  <2>3. BlameInv' /\ BlameIsTrue'
    BY <1>2, <2>1 DEF BlameInv, BlameIsTrue
  <2>. QED  BY <2>2, <2>3 DEF StartInv
<1>. QED  BY <1>3, <1>4

LEMMA StartKeeps ==
    ASSUME StartInv, [StartNext]_startVars
    PROVE  StartInv'
<1>1. CASE UNCHANGED startVars
  <2>1. StartTypeOK'
    BY <1>1, LaunchStays DEF startVars, StartInv, StartTypeOK
  <2>2. BlameInv' /\ BlameIsTrue'
    BY <1>1 DEF startVars, StartInv, BlameInv, BlameIsTrue
  <2>. QED  BY <2>1, <2>2 DEF StartInv
<1>. QED
  BY <1>1, StartProcessKeeps, HostActsKeeps, ReadFrameKeeps, StopKeeps, TimePassesKeeps,
     CheckCurrentKeeps, CheckSlotKeeps, CheckRefusedKeeps, CheckExitKeeps, CheckDeadlineKeeps
  DEF StartNext

LEMMA StartIsInductive == StartSpec => []StartInv
BY StartInitHolds, StartKeeps, PTL DEF StartSpec

-----------------------------------------------------------------------------
(* The launch.                                                             *)

\* What was launched is what was resolved.
LEMMA LaunchedIs ==
    ASSUME NEW program, NEW args, NEW cwd, launch = Launched(program, args, cwd)
    PROVE  launch.program = program /\ launch.args = args /\ launch.cwd = cwd
BY DEF Launched

\* A set of naturals that is not empty has a least member.
LEMMA LeastNatural ==
    ASSUME NEW S, S \subseteq Nat, S # {}
    PROVE  \E least \in S : \A other \in S : least <= other
<1>1. PICK least \in S : \A other \in S : <<other, least>> \notin OpToRel(<, Nat)
  BY NatLessThanWellFounded, WFMin, Zenon
<1>2. \A other \in S : ~(other < least)
  BY <1>1, Zenon DEF OpToRel
<1>3. \A m, n \in Nat : ~(n < m) => m <= n
  OBVIOUS
<1>. QED  BY <1>2, <1>3, Zenon

\* An entry that is found has the file, and one that is not found is nowhere.
LEMMA FoundOnPath ==
    ASSUME NEW m \in Machines, NEW name, FirstOnPath(m, name) = 0
    PROVE  \A i \in DOMAIN m.path : name \notin m.path[i]
<1>. DEFINE having == {i \in DOMAIN m.path : name \in m.path[i]}
<1>1. DOMAIN m.path = 1..Len(m.path) /\ Len(m.path) \in Nat
  <2>1. m.path \in Seq(SUBSET STRING)
    BY StartAssumption, Zenon DEF StartBounds
  <2>. QED  BY <2>1, LenProperties, Zenon
<1>2. SUFFICES ASSUME having # {} PROVE FALSE
  OBVIOUS
<1>3. having \subseteq Nat
  BY <1>1
<1>4. PICK least \in having : \A i \in having : least <= i
  BY <1>2, <1>3, LeastNatural, Zenon
<1>5. \A j \in 1..least - 1 : name \notin m.path[j]
  <2>. SUFFICES ASSUME NEW j \in 1..least - 1, name \in m.path[j] PROVE FALSE
    OBVIOUS
  <2>1. least \in 1..Len(m.path)
    BY <1>1, <1>4
  <2>2. j \in having /\ j < least
    BY <1>1, <2>1
  <2>. QED  BY <1>4, <2>1, <2>2
<1>6. \E i \in DOMAIN m.path : name \in m.path[i] /\ \A j \in 1..i - 1 : name \notin m.path[j]
  BY <1>4, <1>5
<1>7. FirstOnPath(m, name) \in DOMAIN m.path
  BY <1>6 DEF FirstOnPath
<1>. QED  BY <1>1, <1>7

LEMMA BareNameIsLast ==
    ASSUME NEW m \in Machines, FindBun(m) = "bare name"
    PROVE  \A i \in DOMAIN m.path : "bun" \notin m.path[i]
<1>1. FirstOnPath(m, "bun") = 0
  BY DEF FindBun
<1>. QED  BY <1>1, FoundOnPath

LEMMA ProgramIsBun ==
    ASSUME NEW m
    PROVE  FindBun(m) \in {"VRCXK_BUN", "home", "behind a shim", "on PATH", "bare name"}
BY DEF FindBun

\* What is launched runs: it is there, and no shim stands in front of it.
LEMMA LaunchesAreRunnable ==
    ASSUME StartTypeOK
    PROVE  LaunchIsRunnable
<1>. SUFFICES ASSUME launch.kind = "launch" PROVE LaunchIsRunnable
  BY DEF LaunchIsRunnable
<1>1. machine \in Machines /\ launch = ResolveHostLaunch(machine)
  BY KindsOfLaunch DEF StartTypeOK
<1>2. CASE machine.hostBin # "unset"
  <2>1. launch = Explicit(machine)
    BY <1>1, <1>2 DEF ResolveHostLaunch
  <2>2. PICK cwd \in {"override", "beside it"} : launch = Launched("VRCXK_HOST_BIN", "none", cwd)
    BY <2>1, KindsOfLaunch DEF Explicit
  <2>3. /\ launch.program = "VRCXK_HOST_BIN" /\ launch.args = "none" /\ launch.cwd = cwd
    BY <2>2, LaunchedIs
  <2>. QED  BY <1>2, <2>3, Zenon DEF LaunchIsRunnable
<1>3. CASE machine.hostBin = "unset" /\ ~machine.dev /\ Packaged(machine)
  <2>1. launch = Bundled(machine)
    BY <1>1, <1>3 DEF ResolveHostLaunch
  <2>2. PICK program \in {"host", "host-triple"} :
            launch = Launched(program, "none", "resources") /\ "cordis.yml" \in machine.resources
    BY <2>1, KindsOfLaunch DEF Bundled
  <2>3. launch.program = program /\ launch.args = "none" /\ launch.cwd = "resources"
    BY <2>2, LaunchedIs
  <2>4. program # "bare name"
    OBVIOUS
  <2>. QED  BY <1>3, <2>2, <2>3, <2>4 DEF LaunchIsRunnable
<1>4. CASE machine.hostBin = "unset" /\ ~(~machine.dev /\ Packaged(machine))
  <2>1. launch = Source(machine)
    BY <1>1, <1>4 DEF ResolveHostLaunch
  <2>2. /\ launch = Launched(FindBun(machine), "src/index.ts", HostDir(machine))
        /\ HostDir(machine) \in machine.entries
    BY <2>1, KindsOfLaunch DEF Source
  <2>3. HostDir(machine) # "resources"
    BY DEF HostDir
  <2>4. launch.program = FindBun(machine) /\ launch.cwd = HostDir(machine)
    BY <2>2, LaunchedIs
  <2>5. launch.program = "bare name" => \A i \in DOMAIN machine.path : "bun" \notin machine.path[i]
    BY <1>1, <2>4, BareNameIsLast, Zenon
  <2>. QED  BY <1>4, <2>2, <2>3, <2>4, <2>5 DEF LaunchIsRunnable
<1>. QED  BY <1>2, <1>3, <1>4

-----------------------------------------------------------------------------
(* The hello.  Ranks count the fragments that are kept, so what stands in  *)
(* the name with separators in between stands together without them.       *)

\* The places of the fragments that are no separators.
LEMMA KeptIsFinite ==
    ASSUME NEW name \in Seq(STRING)
    PROVE  /\ Len(name) \in Nat /\ DOMAIN name = 1..Len(name)
           /\ Kept(name) \subseteq 1..Len(name)
           /\ IsFiniteSet(Kept(name)) /\ Cardinality(Kept(name)) \in Nat
<1>1. Len(name) \in Nat /\ DOMAIN name = 1..Len(name)
  BY LenProperties
<1>2. Kept(name) \subseteq 1..Len(name)
  BY <1>1 DEF Kept
<1>3. IsFiniteSet(1..Len(name))
  <2>1. 1 \in Int /\ Len(name) \in Int
    BY <1>1
  <2>. QED  BY <2>1, FS_Interval, Zenon
<1>4. IsFiniteSet(Kept(name))
  BY <1>2, <1>3, FS_Subset, Zenon
<1>. QED  BY <1>1, <1>2, <1>4, FS_CardinalityType

LEMMA KeptIsNat ==
    ASSUME NEW name \in Seq(STRING)
    PROVE  \A i \in Kept(name) : i \in Nat
BY KeptIsFinite

\* The fragments that are kept up to one of them.
UpTo(name, i) == {j \in Kept(name) : j <= i}

LEMMA UpToIsFinite ==
    ASSUME NEW name \in Seq(STRING), NEW i \in Kept(name)
    PROVE  /\ IsFiniteSet(UpTo(name, i)) /\ Rank(name, i) = Cardinality(UpTo(name, i))
           /\ Rank(name, i) \in 1..Cardinality(Kept(name))
<1>1. UpTo(name, i) \in SUBSET Kept(name) /\ Rank(name, i) = Cardinality(UpTo(name, i))
  BY DEF UpTo, Rank
<1>2. /\ IsFiniteSet(Kept(name)) /\ Cardinality(Kept(name)) \in Nat
      /\ i \in 1..Len(name) /\ Len(name) \in Nat
  BY KeptIsFinite
<1>3. IsFiniteSet(UpTo(name, i)) /\ Cardinality(UpTo(name, i)) <= Cardinality(Kept(name))
  BY <1>1, <1>2, FS_Subset, Zenon
<1>4. Cardinality(UpTo(name, i)) \in Nat
  BY <1>3, FS_CardinalityType
<1>5. i \in UpTo(name, i)
  BY <1>2 DEF UpTo
<1>6. Cardinality(UpTo(name, i)) # 0
  BY <1>3, <1>5, FS_EmptySet
<1>. QED  BY <1>1, <1>2, <1>3, <1>4, <1>6

\* Fragments keep their order when the separators go.
LEMMA RankRises ==
    ASSUME NEW name \in Seq(STRING), NEW i \in Kept(name), NEW j \in Kept(name), i < j
    PROVE  Rank(name, i) < Rank(name, j)
<1>. DEFINE before == UpTo(name, j) \ {j}
<1>1. i \in 1..Len(name) /\ j \in 1..Len(name) /\ Len(name) \in Nat /\ Kept(name) \subseteq 1..Len(name)
  BY KeptIsFinite
<1>2. /\ IsFiniteSet(UpTo(name, j)) /\ Rank(name, i) = Cardinality(UpTo(name, i))
      /\ Rank(name, j) = Cardinality(UpTo(name, j))
      /\ Rank(name, i) \in Nat /\ Rank(name, j) \in Nat
  BY UpToIsFinite
<1>3. j \in UpTo(name, j) /\ UpTo(name, i) \in SUBSET before
  BY <1>1 DEF UpTo
<1>. HIDE DEF before
<1>4. IsFiniteSet(before) /\ Cardinality(before) = Cardinality(UpTo(name, j)) - 1
  BY <1>2, <1>3, FS_RemoveElement DEF before
<1>5. Cardinality(UpTo(name, i)) <= Cardinality(before)
  BY <1>3, <1>4, FS_Subset, Zenon
<1>. QED  BY <1>2, <1>4, <1>5

LEMMA UpToNext ==
    ASSUME NEW name \in Seq(STRING), NEW i \in Nat, NEW j \in Nat, i < j,
           j \in Kept(name), \A k \in i + 1..j - 1 : k \notin Kept(name)
    PROVE  UpTo(name, j) = UpTo(name, i) \cup {j} /\ j \notin UpTo(name, i)
<1>1. ASSUME NEW k \in Kept(name)
      PROVE  (k <= j) <=> (k <= i \/ k = j)
  <2>1. k \in Nat
    BY KeptIsFinite
  <2>2. k \notin i + 1..j - 1
    OBVIOUS
  <2>. QED  BY <2>1, <2>2
<1>2. ~(j <= i)
  OBVIOUS
<1>. QED  BY <1>1, <1>2 DEF UpTo

\* Two fragments with only separators in between become neighbours.
LEMMA RankOfNext ==
    ASSUME NEW name \in Seq(STRING), NEW i \in Kept(name), NEW j \in Kept(name), i < j,
           \A k \in i + 1..j - 1 : name[k] = "_"
    PROVE  Rank(name, j) = Rank(name, i) + 1
<1>1. i \in Nat /\ j \in Nat
  BY KeptIsNat, Zenon
<1>2. /\ IsFiniteSet(UpTo(name, i)) /\ Rank(name, i) = Cardinality(UpTo(name, i))
      /\ Rank(name, j) = Cardinality(UpTo(name, j))
  BY UpToIsFinite
<1>3. \A k \in i + 1..j - 1 : k \notin Kept(name)
  BY DEF Kept
<1>4. UpTo(name, j) = UpTo(name, i) \cup {j} /\ j \notin UpTo(name, i)
  BY <1>1, <1>3, UpToNext
<1>5. Cardinality(UpTo(name, i) \cup {j}) = Cardinality(UpTo(name, i)) + 1
  BY <1>2, <1>4, FS_AddElement
<1>. QED  BY <1>2, <1>4, <1>5

\* What stands in a name stands, at its rank, in the normalised name.
LEMMA NormalisedAt ==
    ASSUME NEW name \in Seq(STRING), NEW i \in Kept(name)
    PROVE  Normalised(name)[Rank(name, i)] = name[i]
<1>. DEFINE at == CHOOSE j \in Kept(name) : Rank(name, j) = Rank(name, i)
<1>1. at \in Kept(name) /\ Rank(name, at) = Rank(name, i)
  OBVIOUS
<1>. HIDE DEF at
<1>2. i \in Nat /\ at \in Nat
  BY <1>1, KeptIsFinite
<1>3. Rank(name, i) \in 1..Cardinality(Kept(name)) /\ Rank(name, i) \in Nat
  BY UpToIsFinite
<1>4. at = i
  <2>1. ~(at < i) /\ ~(i < at)
    BY <1>1, <1>3, RankRises
  <2>. QED  BY <1>2, <2>1
<1>5. Normalised(name)[Rank(name, i)] = name[at]
  BY <1>3 DEF Normalised, at
<1>. QED  BY <1>4, <1>5

LEMMA NormalisedLen ==
    ASSUME NEW name \in Seq(STRING)
    PROVE  Len(Normalised(name)) = Cardinality(Kept(name))
<1>. DEFINE count == Cardinality(Kept(name))
            values == {Normalised(name)[k] : k \in 1..count}
<1>1. count \in Nat
  BY KeptIsFinite
<1>2. Normalised(name) \in [1..count -> values]
  BY DEF Normalised
<1>3. Normalised(name) \in Seq(values)
  BY <1>1, <1>2, SeqDef
<1>. QED  BY <1>1, <1>2, <1>3, LenProperties

Words == {"TOKEN", "PRIVATE", "KEY", "API", "ACCESS"}

\* Markers have one or two words, none of them a separator.
LEMMA MarkerFacts ==
    ASSUME NEW marker \in LongMarkers
    PROVE  /\ marker \in Seq(Words) /\ Len(marker) \in {1, 2} /\ DOMAIN marker = 1..Len(marker)
           /\ \A k \in 1..Len(marker) : marker[k] # "_"
           /\ marker[1] \in {"TOKEN", "PRIVATE", "API", "ACCESS"}
<1>1. ASSUME NEW one \in Words
      PROVE  <<one>> \in Seq(Words) /\ Len(<<one>>) = 1 /\ <<one>>[1] = one
  OBVIOUS
<1>2. ASSUME NEW one \in Words, NEW other \in Words
      PROVE  /\ <<one, other>> \in Seq(Words) /\ Len(<<one, other>>) = 2
             /\ <<one, other>>[1] = one
  OBVIOUS
<1>3. marker \in Seq(Words) /\ Len(marker) \in {1, 2}
  BY <1>1, <1>2 DEF LongMarkers, Words
<1>4. marker[1] \in {"TOKEN", "PRIVATE", "API", "ACCESS"}
  BY <1>1, <1>2 DEF LongMarkers, Words
<1>5. DOMAIN marker = 1..Len(marker) /\ \A k \in 1..Len(marker) : marker[k] \in Words
  BY <1>3, LenProperties
<1>6. "_" \notin Words
  BY DEF Words
<1>. QED  BY <1>3, <1>4, <1>5, <1>6

LEMMA SubSeqIs ==
    ASSUME NEW S, NEW s, NEW m \in Int, NEW n \in Int, m <= n, \A i \in m..n : s[i] \in S
    PROVE  /\ SubSeq(s, m, n) \in Seq(S) /\ Len(SubSeq(s, m, n)) = n - m + 1
           /\ \A i \in 1..n - m + 1 : SubSeq(s, m, n)[i] = s[m + i - 1]
BY SubSeqProperties

\* A marker that a name spells, with whatever separators, is found in it.
LEMMA SpelledIsFound ==
    ASSUME NEW name \in Seq(STRING), NEW marker \in LongMarkers, Spells(name, marker)
    PROVE  Contains(Normalised(name), marker)
<1>. DEFINE norm == Normalised(name)
            n    == Len(marker)
<1>1. marker \in Seq(Words) /\ n \in {1, 2} /\ DOMAIN marker = 1..n /\ \A k \in 1..n : marker[k] # "_"
  BY MarkerFacts
<1>2. PICK at \in [1..n -> DOMAIN name] : \A k \in 1..n :
          /\ name[at[k]] = marker[k]
          /\ k > 1 => at[k - 1] < at[k] /\ \A j \in at[k - 1] + 1..at[k] - 1 : name[j] = "_"
  BY <1>1 DEF Spells
<1>3. \A k \in 1..n : at[k] \in Kept(name)
  BY <1>1, <1>2 DEF Kept
<1>. DEFINE r == Rank(name, at[1])
<1>. HIDE DEF norm, n, r
<1>12. n \in {1, 2}
  BY <1>1
<1>4. 1 \in 1..n /\ n \in Nat
  BY <1>12
<1>5. r \in 1..Cardinality(Kept(name)) /\ Cardinality(Kept(name)) \in Nat
  BY <1>3, <1>4, UpToIsFinite, KeptIsFinite DEF r
<1>6. \A k \in 1..n : r + k - 1 = Rank(name, at[k])
  <2>1. n = 2 => Rank(name, at[2]) = r + 1
    <3>. SUFFICES ASSUME n = 2 PROVE Rank(name, at[2]) = r + 1
      OBVIOUS
    <3>1. 2 \in 1..n /\ 2 > 1 /\ 2 - 1 = 1
      OBVIOUS
    <3>2. at[1] < at[2] /\ \A j \in at[1] + 1..at[2] - 1 : name[j] = "_"
      BY <1>2, <3>1
    <3>. QED  BY <1>3, <1>4, <3>1, <3>2, RankOfNext DEF r
  <2>2. r = Rank(name, at[1])
    BY DEF r
  <2>3. \A k \in 1..n : k = 1 \/ (n = 2 /\ k = 2)
    BY <1>12
  <2>. QED  BY <1>5, <2>1, <2>2, <2>3
<1>7. \A k \in 1..n : r + k - 1 \in 1..Cardinality(Kept(name)) /\ norm[r + k - 1] = marker[k]
  <2>. SUFFICES ASSUME NEW k \in 1..n
                PROVE  r + k - 1 \in 1..Cardinality(Kept(name)) /\ norm[r + k - 1] = marker[k]
    OBVIOUS
  <2>1. at[k] \in Kept(name) /\ name[at[k]] = marker[k] /\ r + k - 1 = Rank(name, at[k])
    BY <1>2, <1>3, <1>6
  <2>2. Rank(name, at[k]) \in 1..Cardinality(Kept(name))
    BY <2>1, UpToIsFinite
  <2>3. norm[Rank(name, at[k])] = name[at[k]]
    BY <2>1, NormalisedAt DEF norm
  <2>. QED  BY <2>1, <2>2, <2>3
<1>8. Len(norm) = Cardinality(Kept(name))
  BY NormalisedLen DEF norm
<1>9. r - 1 \in 0..Len(norm) - n
  <2>1. n \in 1..n /\ r + n - 1 <= Cardinality(Kept(name))
    BY <1>4, <1>7
  <2>. QED  BY <1>4, <1>5, <1>8, <2>1
<1>10. SubSeq(norm, r, r + n - 1) = marker
  <2>. DEFINE m == r + n - 1
  <2>1. r \in Int /\ m \in Int /\ m - r + 1 = n /\ r <= m
    BY <1>4, <1>5
  <2>2. \A i \in r..m : norm[i] \in Words
    <3>. SUFFICES ASSUME NEW i \in r..m PROVE norm[i] \in Words
      OBVIOUS
    <3>1. i - r + 1 \in 1..n /\ r + (i - r + 1) - 1 = i
      BY <1>4, <1>5
    <3>2. \A k \in 1..n : marker[k] \in Words
      BY <1>1, LenProperties DEF n
    <3>. QED  BY <1>7, <3>1, <3>2
  <2>. DEFINE part == SubSeq(norm, r, m)
  <2>. HIDE DEF m
  <2>3. /\ part \in Seq(Words) /\ Len(part) = m - r + 1
        /\ \A i \in 1..m - r + 1 : part[i] = norm[r + i - 1]
    BY <2>1, <2>2, SubSeqIs
  <2>4. Len(part) = n /\ \A i \in 1..n : part[i] = marker[i]
    BY <1>7, <2>1, <2>3
  <2>. HIDE DEF part
  <2>5. part = marker
    BY <1>1, <2>3, <2>4, SeqEqual DEF n
  <2>. QED  BY <2>5 DEF part, m
<1>11. (r - 1) + 1 = r /\ (r - 1) + n = r + n - 1
  BY <1>4, <1>5
<1>. QED  BY <1>9, <1>10, <1>11 DEF Contains, norm, n

\* The names a plugin needs have two fragments that are kept.
LEMMA TwoKept ==
    ASSUME NEW name \in Seq(STRING), NEW i \in Nat, NEW j \in Nat, i < j, Kept(name) = {i, j}
    PROVE  /\ Len(Normalised(name)) = 2
           /\ Normalised(name)[1] = name[i] /\ Normalised(name)[2] = name[j]
<1>1. i \in Kept(name) /\ j \in Kept(name)
  OBVIOUS
<1>2. ~(j <= i) /\ i <= i /\ i <= j /\ j <= j
  OBVIOUS
<1>3. UpTo(name, i) = {i} /\ UpTo(name, j) = Kept(name)
  BY <1>2 DEF UpTo
<1>4. Rank(name, i) = Cardinality(UpTo(name, i)) /\ Rank(name, j) = Cardinality(UpTo(name, j))
  BY <1>1, UpToIsFinite
<1>5. Cardinality({i}) = 1 /\ IsFiniteSet({i})
  BY FS_Singleton
<1>6. Cardinality({i} \cup {j}) = 2
  <2>1. j \notin {i}
    OBVIOUS
  <2>2. Cardinality({i} \cup {j}) = Cardinality({i}) + 1
    BY <1>5, <2>1, FS_AddElement, Zenon
  <2>3. 1 + 1 = 2
    OBVIOUS
  <2>. QED  BY <1>5, <2>2, <2>3, Zenon
<1>7. Kept(name) = {i} \cup {j}
  OBVIOUS
<1>8. Rank(name, i) = 1 /\ Rank(name, j) = 2 /\ Cardinality(Kept(name)) = 2
  BY <1>3, <1>4, <1>5, <1>6, <1>7
<1>. QED  BY <1>1, <1>8, NormalisedAt, NormalisedLen

\* Neither of the names a plugin needs has a credential word at a marker's start.
LEMMA NoLongMarker ==
    ASSUME NEW norm, Len(norm) = 2,
           \A k \in 1..2 : norm[k] \in {"PAT", "H", "PUBLIC", "KEY"},
           NEW marker \in LongMarkers
    PROVE  ~Contains(norm, marker)
<1>. SUFFICES ASSUME Contains(norm, marker) PROVE FALSE
  OBVIOUS
<1>1. Len(marker) \in {1, 2} /\ marker[1] \in {"TOKEN", "PRIVATE", "API", "ACCESS"}
  BY MarkerFacts
<1>2. PICK p \in 0..2 - Len(marker) : SubSeq(norm, p + 1, p + Len(marker)) = marker
  BY DEF Contains
<1>3. PICK n \in {1, 2} : Len(marker) = n
  BY <1>1
<1>4. p \in Int /\ p + 1 \in 1..2 /\ p + n <= 2 /\ p + 1 <= p + n
  BY <1>2, <1>3
<1>5. \A k \in p + 1..p + n : norm[k] \in {"PAT", "H", "PUBLIC", "KEY"}
  <2>1. \A k \in p + 1..p + n : k \in 1..2
    BY <1>3, <1>4
  <2>. QED  BY <2>1
<1>6. \A k \in 1..n : SubSeq(norm, p + 1, p + n)[k] = norm[p + k]
  <2>. DEFINE first == p + 1
              last  == p + n
  <2>1. first \in Int /\ last \in Int /\ first <= last /\ last - first + 1 = n
        /\ \A k \in 1..n : first + k - 1 = p + k
    BY <1>3, <1>4
  <2>2. \A k \in first..last : norm[k] \in {"PAT", "H", "PUBLIC", "KEY"}
    BY <1>5
  <2>. HIDE DEF first, last
  <2>3. \A k \in 1..n : SubSeq(norm, first, last)[k] = norm[p + k]
    BY <2>1, <2>2, SubSeqIs
  <2>. QED  BY <2>3 DEF first, last
<1>7. marker[1] = norm[p + 1]
  <2>1. 1 \in 1..n
    BY <1>3
  <2>. QED  BY <1>2, <1>3, <1>6, <2>1
<1>. QED  BY <1>1, <1>4, <1>7

LEMMA OneIs ==
    ASSUME NEW S, NEW x \in S
    PROVE  <<x>> \in Seq(S) /\ Len(<<x>>) = 1 /\ <<x>>[1] = x
OBVIOUS

LEMMA TwoIs ==
    ASSUME NEW a, NEW b, NEW name, name = <<a, b>>
    PROVE  /\ name[1] = a /\ name[2] = b /\ DOMAIN name = 1..2 /\ Len(name) = 2
           /\ \A S : a \in S /\ b \in S => name \in Seq(S)
OBVIOUS

LEMMA ThreeAre ==
    ASSUME NEW a, NEW b, NEW c, NEW name, name = <<a, b, c>>
    PROVE  /\ name[1] = a /\ name[2] = b /\ name[3] = c /\ DOMAIN name = 1..3 /\ Len(name) = 3
           /\ \A S : a \in S /\ b \in S /\ c \in S => name \in Seq(S)
OBVIOUS

LEMMA ThreeIs ==
    \A a, b, c : LET name == <<a, b, c>> IN
        /\ name[1] = a /\ name[2] = b /\ name[3] = c /\ DOMAIN name = 1..3 /\ Len(name) = 3
        /\ \A S : a \in S /\ b \in S /\ c \in S => name \in Seq(S)
BY ThreeAre, Zenon

LEMMA FrontIs ==
    ASSUME NEW S, NEW f \in Seq(S), NEW name \in Seq(S), Len(f) = 1
    PROVE  /\ f \o name \in Seq(S) /\ Len(f \o name) = Len(name) + 1
           /\ (f \o name)[1] = f[1]
           /\ \A k \in 1..Len(name) : (f \o name)[k + 1] = name[k]
<1>1. Len(name) \in Nat
  BY LenProperties
<1>2. /\ f \o name \in Seq(S) /\ Len(f \o name) = Len(f) + Len(name)
      /\ \A i \in 1..Len(f) + Len(name) :
            (f \o name)[i] = IF i <= Len(f) THEN f[i] ELSE name[i - Len(f)]
  BY ConcatProperties
<1>3. (f \o name)[1] = f[1]
  <2>1. 1 \in 1..Len(f) + Len(name) /\ 1 <= Len(f)
    BY <1>1
  <2>. QED  BY <1>2, <2>1
<1>4. ASSUME NEW k \in 1..Len(name) PROVE (f \o name)[k + 1] = name[k]
  <2>1. k + 1 \in 1..Len(f) + Len(name) /\ ~(k + 1 <= Len(f)) /\ k + 1 - Len(f) = k
    BY <1>1
  <2>. QED  BY <1>2, <2>1
<1>. QED  BY <1>1, <1>2, <1>3, <1>4

LEMMA BackIs ==
    ASSUME NEW S, NEW f \in Seq(S), NEW name \in Seq(S), Len(f) = 1
    PROVE  /\ name \o f \in Seq(S) /\ Len(name \o f) = Len(name) + 1
           /\ (name \o f)[Len(name) + 1] = f[1]
           /\ \A k \in 1..Len(name) : (name \o f)[k] = name[k]
<1>1. Len(name) \in Nat
  BY LenProperties
<1>2. /\ name \o f \in Seq(S) /\ Len(name \o f) = Len(name) + Len(f)
      /\ \A i \in 1..Len(name) + Len(f) :
            (name \o f)[i] = IF i <= Len(name) THEN name[i] ELSE f[i - Len(name)]
  BY ConcatProperties
<1>3. (name \o f)[Len(name) + 1] = f[1]
  <2>1. /\ Len(name) + 1 \in 1..Len(name) + Len(f) /\ ~(Len(name) + 1 <= Len(name))
        /\ Len(name) + 1 - Len(name) = 1
    BY <1>1
  <2>. QED  BY <1>2, <2>1
<1>4. ASSUME NEW k \in 1..Len(name) PROVE (name \o f)[k] = name[k]
  <2>1. k \in 1..Len(f) + Len(name) /\ k <= Len(name)
    BY <1>1
  <2>. QED  BY <1>2, <2>1
<1>. QED  BY <1>1, <1>2, <1>3, <1>4

\* A name between two separators, as the search for whole tokens builds it.
LEMMA FencedIs ==
    ASSUME NEW S, NEW name \in Seq(S), NEW bar \in S
    PROVE  /\ <<bar>> \o name \o <<bar>> \in Seq(S)
           /\ Len(<<bar>> \o name \o <<bar>>) = Len(name) + 2
           /\ (<<bar>> \o name \o <<bar>>)[1] = bar
           /\ (<<bar>> \o name \o <<bar>>)[Len(name) + 2] = bar
           /\ \A k \in 1..Len(name) : (<<bar>> \o name \o <<bar>>)[k + 1] = name[k]
<1>. DEFINE f == <<bar>>
            g == f \o name
<1>1. f \in Seq(S) /\ Len(f) = 1 /\ f[1] = bar
  BY OneIs
<1>2. Len(name) \in Nat
  BY LenProperties
<1>. HIDE DEF f
<1>3. /\ g \in Seq(S) /\ Len(g) = Len(name) + 1 /\ g[1] = bar
      /\ \A k \in 1..Len(name) : g[k + 1] = name[k]
  BY <1>1, FrontIs
<1>. HIDE DEF g
<1>4. /\ g \o f \in Seq(S) /\ Len(g \o f) = Len(g) + 1 /\ (g \o f)[Len(g) + 1] = bar
      /\ \A k \in 1..Len(g) : (g \o f)[k] = g[k]
  BY <1>1, <1>3, BackIs
<1>5. Len(g) + 1 = Len(name) + 2 /\ 1 \in 1..Len(g) /\ \A k \in 1..Len(name) : k + 1 \in 1..Len(g)
  BY <1>2, <1>3
<1>6. /\ g \o f \in Seq(S) /\ Len(g \o f) = Len(name) + 2
      /\ (g \o f)[1] = bar /\ (g \o f)[Len(name) + 2] = bar
      /\ \A k \in 1..Len(name) : (g \o f)[k + 1] = name[k]
  BY <1>3, <1>4, <1>5
<1>. QED  BY <1>6, Zenon DEF f, g

LEMMA FencedOne ==
    ASSUME NEW S, NEW name \in Seq(S), NEW bar \in S, Len(name) = 1
    PROVE  /\ Len(<<bar>> \o name \o <<bar>>) = 3
           /\ (<<bar>> \o name \o <<bar>>)[1] = bar
           /\ (<<bar>> \o name \o <<bar>>)[2] = name[1]
           /\ (<<bar>> \o name \o <<bar>>)[3] = bar
<1>. DEFINE f == <<bar>> \o name \o <<bar>>
<1>1. /\ f \in Seq(S) /\ Len(f) = Len(name) + 2 /\ f[1] = bar /\ f[Len(name) + 2] = bar
      /\ \A k \in 1..Len(name) : f[k + 1] = name[k]
  BY FencedIs
<1>. HIDE DEF f
<1>2. Len(f) = 3 /\ f[1] = bar /\ f[2] = name[1] /\ f[3] = bar
  BY <1>1
<1>. QED  BY <1>2 DEF f

LEMMA FencedIsThree ==
    \A S : \A name \in Seq(S), bar \in S : Len(name) = 1 =>
        /\ Len(<<bar>> \o name \o <<bar>>) = 3
        /\ (<<bar>> \o name \o <<bar>>)[1] = bar
        /\ (<<bar>> \o name \o <<bar>>)[2] = name[1]
        /\ (<<bar>> \o name \o <<bar>>)[3] = bar
BY FencedOne, Zenon

LEMMA FencedToken ==
    ASSUME NEW bar, NEW token
    PROVE  /\ Len(<<bar>> \o <<token>> \o <<bar>>) = 3
           /\ (<<bar>> \o <<token>> \o <<bar>>)[1] = bar
           /\ (<<bar>> \o <<token>> \o <<bar>>)[2] = token
           /\ (<<bar>> \o <<token>> \o <<bar>>)[3] = bar
<1>. DEFINE T    == {bar, token}
            name == <<token>>
<1>1. bar \in T /\ token \in T
  OBVIOUS
<1>. HIDE DEF T
<1>2. name \in Seq(T) /\ Len(name) = 1 /\ name[1] = token
  BY <1>1, OneIs, Zenon
<1>. HIDE DEF name
<1>3. /\ Len(<<bar>> \o name \o <<bar>>) = 3
      /\ (<<bar>> \o name \o <<bar>>)[1] = bar
      /\ (<<bar>> \o name \o <<bar>>)[2] = name[1]
      /\ (<<bar>> \o name \o <<bar>>)[3] = bar
  BY <1>1, <1>2, FencedIsThree, Zenon
<1>. QED  BY <1>2, <1>3, Zenon DEF name

\* A token in a name has a separator, or an end, on each side.
LEMMA TokenIsThere ==
    ASSUME NEW S, NEW sequence \in Seq(S), NEW found, Len(found) = 3, Contains(sequence, found)
    PROVE  \E p \in 0..Len(sequence) - 3 : \A k \in 1..3 : sequence[p + k] = found[k]
<1>. DEFINE n == Len(sequence)
<1>1. n \in Nat
  BY LenProperties
<1>2. PICK p \in 0..n - 3 : SubSeq(sequence, p + 1, p + 3) = found
  BY Zenon DEF Contains
<1>3. \A k \in p + 1..p + 3 : k \in 1..n
  BY <1>1
<1>4. \A k \in p + 1..p + 3 : sequence[k] \in S
  BY <1>3, LenProperties
<1>5. \A k \in 1..3 : found[k] = sequence[p + k]
  <2>. DEFINE first == p + 1
              last  == p + 3
  <2>1. first \in Int /\ last \in Int /\ first <= last /\ last - first + 1 = 3
        /\ \A k \in 1..3 : first + k - 1 = p + k
    OBVIOUS
  <2>2. \A k \in first..last : sequence[k] \in S
    BY <1>4
  <2>3. SubSeq(sequence, first, last) = found
    BY <1>2
  <2>. HIDE DEF first, last
  <2>. QED  BY <2>1, <2>2, <2>3, SubSeqIs
<1>. QED  BY <1>2, <1>5

LEMMA TokenHasSeparators ==
    \A S, found : \A sequence \in Seq(S) : Len(found) = 3 /\ Contains(sequence, found) =>
        \E p \in 0..Len(sequence) - 3 : \A k \in 1..3 : sequence[p + k] = found[k]
BY TokenIsThere

\* Between separators only, a token is one of the fragments.
LEMMA TokenIsAt ==
    ASSUME NEW S, NEW name \in Seq(S), NEW bar \in S, NEW token
    PROVE  Contains(<<bar>> \o name \o <<bar>>, <<bar>> \o <<token>> \o <<bar>>) =>
               \E k \in 1..Len(name) : name[k] = token
<1>. DEFINE ends  == <<bar>> \o name \o <<bar>>
            found == <<bar>> \o <<token>> \o <<bar>>
            n     == Len(name)
<1>1. n \in Nat
  BY LenProperties
<1>2. ends \in Seq(S) /\ Len(ends) = n + 2 /\ \A k \in 1..n : ends[k + 1] = name[k]
  BY FencedIs
<1>3. Len(found) = 3 /\ found[2] = token
  BY FencedToken
<1>. HIDE DEF ends, found, n
<1>4. SUFFICES ASSUME Contains(ends, found) PROVE \E k \in 1..Len(name) : name[k] = token
  BY Zenon DEF ends, found
<1>5. ends \in Seq(S) /\ Len(found) = 3
  BY <1>2, <1>3
<1>6. PICK p \in 0..Len(ends) - 3 : \A k \in 1..3 : ends[p + k] = found[k]
  BY <1>4, <1>5, TokenHasSeparators
<1>7. p + 1 \in 1..n /\ p + 2 = (p + 1) + 1 /\ 2 \in 1..3
  BY <1>1, <1>2, <1>6
<1>8. ends[p + 2] = token /\ ends[p + 2] = name[p + 1]
  BY <1>2, <1>3, <1>6, <1>7
<1>. QED  BY <1>7, <1>8 DEF n

LEMMA TokenIsFragment ==
    ASSUME NEW S, NEW name \in Seq(S), NEW bar \in S, NEW token,
           \A k \in 1..Len(name) : name[k] # token
    PROVE  ~Contains(<<bar>> \o name \o <<bar>>, <<bar>> \o <<token>> \o <<bar>>)
BY TokenIsAt

\* Two fragments with nothing between them are no tokens of a name.
LEMMA TwoHaveNoToken ==
    ASSUME NEW S, NEW name \in Seq(S), NEW bar \in S, NEW token,
           Len(name) = 2, name[1] # bar, name[2] # bar
    PROVE  ~Contains(<<bar>> \o name \o <<bar>>, <<bar>> \o <<token>> \o <<bar>>)
<1>. DEFINE ends  == <<bar>> \o name \o <<bar>>
            found == <<bar>> \o <<token>> \o <<bar>>
<1>1. ends \in Seq(S) /\ Len(ends) = 4 /\ ends[2] = name[1] /\ ends[3] = name[2]
  <2>1. /\ ends \in Seq(S) /\ Len(ends) = Len(name) + 2
        /\ \A k \in 1..Len(name) : ends[k + 1] = name[k]
    BY FencedIs
  <2>. HIDE DEF ends
  <2>. QED  BY <2>1
<1>2. Len(found) = 3 /\ found[1] = bar /\ found[3] = bar
  BY FencedToken
<1>. HIDE DEF ends, found
<1>3. SUFFICES ASSUME Contains(ends, found) PROVE FALSE
  BY Zenon DEF ends, found
<1>4. PICK p \in 0..Len(ends) - 3 : \A k \in 1..3 : ends[p + k] = found[k]
  BY <1>1, <1>2, <1>3, TokenHasSeparators
<1>5. p = 0 \/ p = 1
  BY <1>1
<1>6. ends[p + 1] = bar /\ ends[p + 3] = bar
  BY <1>2, <1>4
<1>. QED  BY <1>1, <1>5, <1>6

LEMMA SmallRanges ==
    /\ 1..2 = {1, 2} /\ 1..3 = {1, 2, 3}
    /\ 1 \in Nat /\ 2 \in Nat /\ 3 \in Nat /\ 1 < 2 /\ 1 < 3
OBVIOUS

LEMMA WordsDiffer ==
    /\ "PAT" # "_" /\ "H" # "_" /\ "PUBLIC" # "_" /\ "KEY" # "_"
    /\ \A token \in {"PAT", "AUTH"} : token # "_" /\ token # "PUBLIC" /\ token # "KEY"
OBVIOUS

LEMMA KeptOfTwo ==
    ASSUME NEW name, DOMAIN name = {1, 2}, name[1] # "_", name[2] # "_"
    PROVE  Kept(name) = {1, 2}
BY Zenon DEF Kept

LEMMA KeptOfThree ==
    ASSUME NEW name, DOMAIN name = {1, 2, 3}, name[1] # "_", name[2] = "_", name[3] # "_"
    PROVE  Kept(name) = {1, 3}
BY Zenon DEF Kept

LEMMA ShortNormHasNoMarker ==
    ASSUME NEW norm, NEW a \in {"PAT", "H", "PUBLIC", "KEY"}, NEW b \in {"PAT", "H", "PUBLIC", "KEY"},
           Len(norm) = 2, norm[1] = a, norm[2] = b
    PROVE  \A marker \in LongMarkers : ~Contains(norm, marker)
<1>1. \A k \in 1..2 : norm[k] \in {"PAT", "H", "PUBLIC", "KEY"}
  BY SmallRanges, Zenon
<1>. QED  BY <1>1, NoLongMarker, Zenon

\* PAT is no token of PATH.
LEMMA PathIsPlain ==
    ASSUME NEW name \in Seq(STRING), name = <<"PAT", "H">>
    PROVE  ~LooksSecret(name)
<1>. DEFINE S == {"_", "PAT", "H"}
<1>1. "_" \in S /\ "PAT" \in S /\ "H" \in S
  BY Zenon
<1>. HIDE DEF S
<1>2. name[1] = "PAT" /\ name[2] = "H" /\ DOMAIN name = 1..2 /\ Len(name) = 2 /\ name \in Seq(S)
  BY <1>1, TwoIs, Zenon
<1>3. Kept(name) = {1, 2}
  BY <1>2, SmallRanges, WordsDiffer, KeptOfTwo, Zenon
<1>4. /\ Len(Normalised(name)) = 2
      /\ Normalised(name)[1] = "PAT" /\ Normalised(name)[2] = "H"
  BY <1>2, <1>3, SmallRanges, TwoKept, Zenon
<1>5. \A marker \in LongMarkers : ~Contains(Normalised(name), marker)
  BY <1>4, ShortNormHasNoMarker, Zenon
<1>6. \A token : ~HasToken(name, <<token>>)
  BY <1>1, <1>2, WordsDiffer, TwoHaveNoToken, Zenon DEF HasToken
<1>. QED  BY <1>5, <1>6, Zenon DEF LooksSecret, ShortMarkers

\* PUBLIC_KEY has no marker: neither word starts one.
LEMMA PublicKeyIsPlain ==
    ASSUME NEW name \in Seq(STRING), name = <<"PUBLIC", "_", "KEY">>
    PROVE  ~LooksSecret(name)
<1>. DEFINE S == {"_", "PUBLIC", "KEY"}
<1>1. "_" \in S /\ "PUBLIC" \in S /\ "KEY" \in S
  BY Zenon
<1>. HIDE DEF S
<1>2. /\ name[1] = "PUBLIC" /\ name[2] = "_" /\ name[3] = "KEY"
      /\ DOMAIN name = 1..3 /\ Len(name) = 3
      /\ name \in Seq(S)
  BY <1>1, ThreeIs, Zenon
<1>3. Kept(name) = {1, 3}
  BY <1>2, SmallRanges, WordsDiffer, KeptOfThree, Zenon
<1>4. /\ Len(Normalised(name)) = 2
      /\ Normalised(name)[1] = "PUBLIC" /\ Normalised(name)[2] = "KEY"
  BY <1>2, <1>3, SmallRanges, TwoKept, Zenon
<1>5. \A marker \in LongMarkers : ~Contains(Normalised(name), marker)
  BY <1>4, ShortNormHasNoMarker, Zenon
<1>6. ASSUME NEW token \in {"PAT", "AUTH"}
      PROVE  ~HasToken(name, <<token>>)
  <2>1. \A k \in 1..Len(name) : name[k] # token
    BY <1>2, SmallRanges, WordsDiffer, Zenon
  <2>. QED  BY <1>1, <1>2, <2>1, TokenIsFragment, Zenon DEF HasToken
<1>. QED  BY <1>5, <1>6, Zenon DEF LooksSecret, ShortMarkers

\* The hello redacts what spells a credential, and nothing a plugin needs.
LEMMA HelloHides ==
    ASSUME StartTypeOK
    PROVE  HelloHidesSecrets
<1>1. environment \in Environments
  BY DEF StartTypeOK
<1>2. CASE hello = NoHello
  <2>1. hello.env = <<>>
    BY <1>2 DEF NoHello
  <2>2. DOMAIN hello.env = {}
    BY <2>1
  <2>. QED  BY <2>2 DEF HelloHidesSecrets
<1>3. CASE hello = HelloPayload(machine, environment)
  <2>. SUFFICES ASSUME NEW name \in DOMAIN hello.env
                PROVE  /\ hello.env[name] # "redacted" =>
                             \A marker \in LongMarkers : ~Spells(name, marker)
                       /\ name \in {<<"PAT", "H">>, <<"PUBLIC", "_", "KEY">>} =>
                             hello.env[name] = environment[name]
    BY DEF HelloHidesSecrets
  <2>1. hello.env = Environment(environment)
    BY <1>3 DEF HelloPayload
  <2>2. name \in DOMAIN environment
    BY <2>1 DEF Environment
  <2>3. name \in Seq(STRING)
    BY <1>1, <2>2, StartAssumption, Zenon DEF StartBounds
  <2>4. hello.env[name] = IF LooksSecret(name) THEN "redacted" ELSE environment[name]
    BY <2>1 DEF Environment
  <2>5. hello.env[name] # "redacted" => \A marker \in LongMarkers : ~Spells(name, marker)
    BY <2>3, <2>4, SpelledIsFound DEF LooksSecret
  <2>6. name \in {<<"PAT", "H">>, <<"PUBLIC", "_", "KEY">>} => hello.env[name] = environment[name]
    <3>1. CASE name = <<"PAT", "H">>
      BY <2>3, <2>4, <3>1, PathIsPlain, Zenon
    <3>2. CASE name = <<"PUBLIC", "_", "KEY">>
      BY <2>3, <2>4, <3>2, PublicKeyIsPlain, Zenon
    <3>. QED  BY <3>1, <3>2
  <2>. QED  BY <2>5, <2>6
<1>. QED  BY <1>2, <1>3 DEF StartTypeOK

-----------------------------------------------------------------------------
(* The start's variables keep their types: what is launched and announced  *)
(* is what was resolved for this machine and read from this environment,   *)
(* and a frame in the slot is one that was accepted (host.rs:1283-1414).   *)
THEOREM StartTypeCorrect == StartSpec => []StartTypeOK
<1>1. StartInv => StartTypeOK
  BY DEF StartInv
<1>. QED  BY <1>1, StartIsInductive, PTL

(* A host is launched as it can run, is blamed only for what it did, and   *)
(* is told no credential by name, on every machine, in every environment,  *)
(* and whatever the host does (host.rs:1366-1372, 1441-1493, 1510-1759,    *)
(* hands_hello.rs:97-206).                                                 *)
THEOREM StartsAreHonest == StartSpec => []StartIsHonest
<1>1. StartInv => StartIsHonest
  BY LaunchesAreRunnable, HelloHides DEF StartInv, StartIsHonest
<1>. QED  BY <1>1, StartIsInductive, PTL

-----------------------------------------------------------------------------
(* The services of the shell.                                              *)

\* Whoever waits for the user has a dialog that was shown.
DialogInv ==
    /\ reader # NoRequest => ~NeverShown(reader)
    /\ panel # NoRequest => ~NeverShown(panel)

ServicesInv == ShellTypeOK /\ DialogInv /\ VerdictsAreTrue

\* What answering a request leaves as it was, besides being true.
Served(request) ==
    /\ system' \in Systems
    /\ system'.desktop = system.desktop
    /\ system'.schemes \intersect SchemesOfOthers = {}
    /\ reply' # NoRequest
    /\ TrueVerdict(reply)'

\* Records of different kinds are different answers.
LEMMA KindsDiffer ==
    /\ Ok # Refused /\ Null # Ok /\ Null # Refused
    /\ Ok.kind # "report" /\ Refused.kind # "report" /\ Null.kind # "report"
    /\ \A response : response.kind \notin {"verdict", "null"} =>
          response # Ok /\ response # Refused /\ response # Null
BY DEF Ok, Refused, Null

LEMMA SystemFields ==
    ASSUME system \in Systems
    PROVE  /\ system.autostart \in BOOLEAN /\ system.desktop \in BOOLEAN /\ system.exiting \in BOOLEAN
           /\ system.schemes \in SUBSET {scheme.lowered : scheme \in ArgsOf("deepLink.register")}
           /\ system.clipboard \in {Null} \cup [kind : {"text"}, is : {""} \cup ArgsOf("clipboard.writeText")]
BY DEF Systems

LEMMA ReplyIs ==
    ASSUME NEW request, NEW verdict, NEW chose, Reply(request, verdict, chose)
    PROVE  /\ reply' # NoRequest
           /\ reply'.to = request /\ reply'.verdict = verdict /\ reply'.chose = chose
           /\ reply'.before = system /\ reply'.after = system'
<1>. DEFINE given == [to |-> request, verdict |-> verdict, chose |-> chose,
                      before |-> system, after |-> system']
<1>1. reply' = given
  BY DEF Reply
<1>2. DOMAIN given # DOMAIN NoRequest
  <2>1. "to" \in DOMAIN given /\ "to" \notin DOMAIN NoRequest
    BY DEF NoRequest
  <2>. QED  BY <2>1
<1>. QED  BY <1>1, <1>2

\* An response that is neither a verdict nor a report nor nothing, and changes nothing.
LEMMA PlainReply ==
    ASSUME ServicesInv, UNCHANGED system, NEW request, NEW verdict,
           verdict.kind \notin {"verdict", "null", "report"}, Replies(request, verdict)
    PROVE  Served(request)
<1>1. reply'.verdict = verdict /\ reply' # NoRequest
  BY ReplyIs DEF Replies
<1>2. verdict # Ok /\ verdict # Refused /\ verdict # Null
  BY KindsDiffer
<1>3. TrueVerdict(reply)'
  BY <1>1, <1>2 DEF TrueVerdict, Ok, Refused, Null
<1>. QED  BY <1>1, <1>3 DEF Served, ServicesInv, ShellTypeOK, VerdictsAreTrue

LEMMA RefusedReply ==
    ASSUME ServicesInv, UNCHANGED system, NEW request, Replies(request, Refused)
    PROVE  Served(request)
<1>1. /\ reply'.verdict = Refused /\ reply' # NoRequest
      /\ reply'.before = system /\ reply'.after = system'
  BY ReplyIs DEF Replies
<1>2. TrueVerdict(reply)'
  BY <1>1, KindsDiffer DEF TrueVerdict, Ok, Refused, Null
<1>. QED  BY <1>1, <1>2 DEF Served, ServicesInv, ShellTypeOK, VerdictsAreTrue

\* Nothing is what a pick says that nobody was shown.
LEMMA NothingReply ==
    ASSUME ServicesInv, UNCHANGED system, NEW request, Replies(request, Null),
           request.op = "dialog.pickFile" => NeverShown(request)
    PROVE  Served(request)
<1>1. /\ reply'.verdict = Null /\ reply' # NoRequest /\ reply'.to = request
      /\ reply'.before = system /\ reply'.after = system'
  BY ReplyIs DEF Replies
<1>2. reply'.to.op = "dialog.pickFile" => NeverShown(reply.to)'
  BY <1>1 DEF NeverShown
<1>3. TrueVerdict(reply)'
  BY <1>1, <1>2, KindsDiffer DEF TrueVerdict, Ok, Refused, Null
<1>. QED  BY <1>1, <1>3 DEF Served, ServicesInv, ShellTypeOK, VerdictsAreTrue

LEMMA SetEnabledKeeps ==
    ASSUME ServicesInv, NEW request \in Requests, request.op = "autostart.setEnabled",
           SetEnabled(request)
    PROVE  Served(request)
<1>. DEFINE wanted == AutostartFlag(request.arg)
<1>1. ASSUME wanted # NoRequest, system' = [system EXCEPT !.autostart = wanted.bool],
             Replies(request, Ok)
      PROVE  Served(request)
  <2>1. /\ reply'.verdict = Ok /\ reply' # NoRequest /\ reply'.to = request
        /\ reply'.after = system'
    BY <1>1, ReplyIs DEF Replies
  <2>2. request.arg.is = "bool" /\ wanted.bool = request.arg.bool
    BY <1>1 DEF AutostartFlag
  <2>3. wanted.bool \in BOOLEAN
    BY <2>2, ShellAssumption DEF ShellBounds
  <2>4. system \in Systems
    BY DEF ServicesInv, ShellTypeOK
  <2>5. /\ system' \in Systems /\ system'.desktop = system.desktop
        /\ system'.schemes = system.schemes /\ system'.autostart = request.arg.bool
    BY <1>1, <2>2, <2>3, <2>4 DEF Systems
  <2>6. TrueVerdict(reply)'
    BY <2>1, <2>2, <2>5, KindsDiffer DEF TrueVerdict
  <2>. QED  BY <2>1, <2>5, <2>6 DEF Served, ServicesInv, VerdictsAreTrue
<1>2. CASE UNCHANGED system /\ Replies(request, Refused)
  BY <1>2, RefusedReply
<1>. QED  BY <1>1, <1>2 DEF SetEnabled

\* A scheme that is valid is nobody else's.
LEMMA ValidIsOwn ==
    ASSUME NEW request \in Requests, request.op = "deepLink.register", ValidScheme(request.arg)
    PROVE  request.arg.lowered \notin SchemesOfOthers
BY ShellAssumption DEF ShellBounds, ValidScheme, ReservedSchemes, RegistryClasses, SchemesOfOthers

LEMMA RegisterKeeps ==
    ASSUME ServicesInv, NEW request \in Requests, request.op = "deepLink.register",
           RegisterScheme(request)
    PROVE  Served(request)
<1>1. ASSUME ValidScheme(request.arg), Replies(request, Ok),
             system' = [system EXCEPT !.schemes = @ \union {request.arg.lowered}]
      PROVE  Served(request)
  <2>1. /\ reply'.verdict = Ok /\ reply' # NoRequest /\ reply'.to = request
        /\ reply'.after = system'
    BY <1>1, ReplyIs DEF Replies
  <2>2. system \in Systems
    BY DEF ServicesInv, ShellTypeOK
  <2>3. system'.schemes = system.schemes \cup {request.arg.lowered}
    BY <1>1, <2>2 DEF Systems
  <2>4. request.arg \in ArgsOf("deepLink.register")
    BY DEF ArgsOf
  <2>5. system'.schemes \in SUBSET {scheme.lowered : scheme \in ArgsOf("deepLink.register")}
    BY <2>2, <2>3, <2>4, SystemFields
  <2>6. /\ system' \in Systems /\ system'.desktop = system.desktop
    BY <1>1, <2>2, <2>3, <2>5 DEF Systems
  <2>7. TrueVerdict(reply)'
    BY <2>1, <2>3, KindsDiffer DEF TrueVerdict
  <2>8. system'.schemes \intersect SchemesOfOthers = {}
    BY <1>1, <2>3, ValidIsOwn DEF ServicesInv, VerdictsAreTrue
  <2>. QED  BY <2>1, <2>6, <2>7, <2>8 DEF Served
<1>2. CASE UNCHANGED system /\ Replies(request, Refused)
  BY <1>2, RefusedReply
<1>. QED  BY <1>1, <1>2 DEF RegisterScheme

LEMMA WriteTextKeeps ==
    ASSUME ServicesInv, NEW request \in Requests, request.op = "clipboard.writeText",
           WriteText(request)
    PROVE  Served(request)
<1>1. ASSUME system' = [system EXCEPT !.clipboard = [kind |-> "text", is |-> request.arg]],
             Replies(request, Ok)
      PROVE  Served(request)
  <2>1. reply'.verdict = Ok /\ reply' # NoRequest /\ reply'.to = request
    BY <1>1, ReplyIs DEF Replies
  <2>2. system \in Systems
    BY DEF ServicesInv, ShellTypeOK
  <2>3. request.arg \in ArgsOf("clipboard.writeText")
    BY DEF ArgsOf
  <2>4. /\ system' \in Systems /\ system'.desktop = system.desktop
        /\ system'.schemes = system.schemes
    BY <1>1, <2>2, <2>3 DEF Systems
  <2>5. TrueVerdict(reply)'
    BY <2>1, KindsDiffer DEF TrueVerdict
  <2>. QED  BY <2>1, <2>4, <2>5 DEF Served, ServicesInv, VerdictsAreTrue
<1>2. CASE UNCHANGED system /\ Replies(request, Refused)
  BY <1>2, RefusedReply
<1>. QED  BY <1>1, <1>2 DEF WriteText

LEMMA ReadTextKeeps ==
    ASSUME ServicesInv, NEW request \in Requests, request.op = "clipboard.readText",
           ReadText(request)
    PROVE  Served(request)
<1>1. system.clipboard = Null \/ system.clipboard.kind = "text"
  BY SystemFields DEF ServicesInv, ShellTypeOK
<1>2. CASE Replies(request, Null)
  BY <1>2, NothingReply DEF ReadText
<1>3. CASE Replies(request, system.clipboard) /\ system.clipboard.kind = "text"
  BY <1>3, PlainReply DEF ReadText
<1>. QED  BY <1>1, <1>2, <1>3 DEF ReadText

LEMMA AppExitKeeps ==
    ASSUME ServicesInv, NEW request, AppExit(request)
    PROVE  Served(request)
<1>. DEFINE done == [kind |-> "bool", is |-> TRUE]
<1>1. reply'.verdict = done /\ reply' # NoRequest
  BY ReplyIs DEF Replies, AppExit
<1>2. done # Ok /\ done # Refused /\ done # Null /\ done.kind # "report"
  BY KindsDiffer
<1>3. TrueVerdict(reply)'
  BY <1>1, <1>2 DEF TrueVerdict
<1>4. system \in Systems
  BY DEF ServicesInv, ShellTypeOK
<1>5. /\ system' \in Systems /\ system'.desktop = system.desktop
      /\ system'.schemes = system.schemes
  BY <1>4 DEF AppExit, Systems
<1>. QED  BY <1>1, <1>3, <1>5 DEF Served, ServicesInv, VerdictsAreTrue

LEMMA HandleKeeps ==
    ASSUME ServicesInv, NEW request \in Requests, Handle(request),
           request.op \in Dialogs => NeverShown(request)
    PROVE  Served(request)
<1>1. CASE ~system.desktop /\ DesktopOnly(request)
  <2>. DEFINE unknown == [kind |-> "unknown method"]
  <2>1. UNCHANGED system /\ Replies(request, unknown)
    BY <1>1 DEF Handle
  <2>2. unknown.kind \notin {"verdict", "null", "report"}
    OBVIOUS
  <2>. QED  BY <2>1, <2>2, PlainReply
<1>2. ASSUME UNCHANGED system, NEW is, Replies(request, [kind |-> "bool", is |-> is])
      PROVE  Served(request)
  <2>1. [kind |-> "bool", is |-> is].kind \notin {"verdict", "null", "report"}
    OBVIOUS
  <2>. QED  BY <1>2, <2>1, PlainReply
<1>3. CASE ~(~system.desktop /\ DesktopOnly(request))
  <2>1. CASE request.op = "autostart.setEnabled"
    BY <1>3, <2>1, SetEnabledKeeps DEF Handle
  <2>2. CASE request.op = "autostart.isEnabled"
    <3>1. IsEnabled(request)
      BY <1>3, <2>2 DEF Handle
    <3>. QED  BY <1>2, <3>1 DEF IsEnabled
  <2>3. CASE request.op = "deepLink.register"
    BY <1>3, <2>3, RegisterKeeps DEF Handle
  <2>4. CASE request.op = "deepLink.isRegistered"
    <3>1. IsRegistered(request)
      BY <1>3, <2>4 DEF Handle
    <3>. QED  BY <1>2, <3>1 DEF IsRegistered
  <2>5. CASE request.op = "clipboard.writeText"
    BY <1>3, <2>5, WriteTextKeeps DEF Handle
  <2>6. CASE request.op = "clipboard.readText"
    BY <1>3, <2>6, ReadTextKeeps DEF Handle
  <2>7. CASE request.op \in {"pass", "window"}
    <3>1. PassOn(request)
      BY <1>3, <2>7 DEF Handle, WindowAction
    <3>. QED  BY <1>2, <3>1 DEF PassOn
  <2>8. CASE request.op = "facts"
    <3>1. Facts(request)
      BY <1>3, <2>8 DEF Handle
    <3>2. [kind |-> "facts"].kind \notin {"verdict", "null", "report"}
      OBVIOUS
    <3>. QED  BY <3>1, <3>2, PlainReply DEF Facts
  <2>9. CASE request.op = "app.exit"
    BY <1>3, <2>9, AppExitKeeps DEF Handle
  <2>10. CASE request.op \notin {"autostart.setEnabled", "autostart.isEnabled",
                 "deepLink.register", "deepLink.isRegistered", "clipboard.writeText",
                 "clipboard.readText", "pass", "window", "facts", "app.exit"}
    <3>1. UNCHANGED system /\ Replies(request, Null)
      BY <1>3, <2>10 DEF Handle
    <3>2. request.op = "dialog.pickFile" => NeverShown(request)
      BY DEF Dialogs
    <3>. QED  BY <3>1, <3>2, NothingReply
  <2>. QED  BY <2>1, <2>2, <2>3, <2>4, <2>5, <2>6, <2>7, <2>8, <2>9, <2>10
<1>. QED  BY <1>1, <1>3

LEMMA ShellInitHolds ==
    ASSUME ShellInit
    PROVE  ServicesInv
<1>1. line \in Seq(Requests)
  BY EmptySeq, Zenon DEF ShellInit
<1>2. asked \in [host : 0..MaxRequests, panel : 0..MaxPanel] /\ outside \in 0..MaxOutside
  BY ShellAssumption DEF ShellBounds, ShellInit
<1>3. system \in Systems
  BY DEF ShellInit, Systems
<1>4. system.schemes = {}
  BY DEF ShellInit
<1>. QED  BY <1>1, <1>2, <1>3, <1>4 DEF ShellInit, ServicesInv, ShellTypeOK, DialogInv, VerdictsAreTrue

\* An answer stays true while the desktop and the schemes stay.
LEMMA TruthStays ==
    ASSUME VerdictsAreTrue, UNCHANGED reply, system'.desktop = system.desktop,
           system'.schemes = system.schemes
    PROVE  VerdictsAreTrue'
BY DEF VerdictsAreTrue, TrueVerdict, NeverShown

LEMMA AskKeeps ==
    ASSUME ServicesInv, Ask
    PROVE  ServicesInv'
<1>1. PICK request \in Requests :
          /\ line' = Append(line, request)
          /\ asked' = [asked EXCEPT !.host = @ + 1]
  BY DEF Ask
<1>2. line' \in Seq(Requests)
  BY <1>1, AppendProperties DEF ServicesInv, ShellTypeOK
<1>3. asked' \in [host : 0..MaxRequests, panel : 0..MaxPanel]
  <2>1. MaxRequests \in Nat /\ asked.host \in 0..MaxRequests /\ asked.host < MaxRequests
    BY ShellAssumption DEF ShellBounds, Ask, ServicesInv, ShellTypeOK
  <2>2. asked.host + 1 \in 0..MaxRequests
    BY <2>1
  <2>. QED  BY <1>1, <2>2 DEF ServicesInv, ShellTypeOK
<1>4. ShellTypeOK'
  BY <1>2, <1>3 DEF Ask, ServicesInv, ShellTypeOK, Systems
<1>5. DialogInv' /\ VerdictsAreTrue'
  BY TruthStays DEF Ask, ServicesInv, DialogInv, NeverShown
<1>. QED  BY <1>4, <1>5 DEF ServicesInv

\* The dialogs that wait stay dialogs that are shown while the build stays what it is.
LEMMA DialogsStay ==
    ASSUME ServicesInv, system'.desktop = system.desktop
    PROVE  /\ UNCHANGED reader => (reader # NoRequest => ~NeverShown(reader))'
           /\ UNCHANGED panel => (panel # NoRequest => ~NeverShown(panel))'
BY DEF ServicesInv, DialogInv, NeverShown

\* A request is served whole: refused, answered at once, or left to a dialog.
LEMMA ServeKeeps ==
    ASSUME ServicesInv, ServeNext
    PROVE  ServicesInv'
<1>. DEFINE request == Head(line)
<1>1. line \in Seq(Requests) /\ line # <<>>
  BY DEF ServeNext, ServicesInv, ShellTypeOK
<1>2. request \in Requests /\ line' \in Seq(Requests)
  BY <1>1, HeadTailProperties DEF ServeNext
<1>. HIDE DEF request
<1>3. CASE request.op \in Dialogs /\ ~NeverShown(request)
  <2>1. reader' = request /\ UNCHANGED <<system, reply, asked, panel, outside>>
    BY <1>3 DEF ServeNext, request
  <2>2. reader' \in ShownOf(Requests)
    BY <1>2, <1>3, <2>1 DEF ShownOf
  <2>3. ShellTypeOK'
    BY <1>2, <2>1, <2>2 DEF ServicesInv, ShellTypeOK, Systems
  <2>4. DialogInv'
    BY <1>3, <2>1, DialogsStay DEF DialogInv, NeverShown
  <2>5. VerdictsAreTrue'
    BY <2>1, TruthStays DEF ServicesInv
  <2>. QED  BY <2>3, <2>4, <2>5 DEF ServicesInv
<1>4. CASE ~(request.op \in Dialogs /\ ~NeverShown(request))
  <2>1. Handle(request) /\ UNCHANGED <<reader, asked, panel, outside>>
    BY <1>4 DEF ServeNext, request
  <2>2. Served(request)
    BY <1>2, <1>4, <2>1, HandleKeeps
  <2>3. ShellTypeOK'
    BY <1>2, <2>1, <2>2 DEF ServicesInv, ShellTypeOK, Served, Systems
  <2>4. DialogInv'
    BY <2>1, <2>2, DialogsStay DEF DialogInv, Served
  <2>. QED  BY <2>2, <2>3, <2>4 DEF ServicesInv, VerdictsAreTrue, Served
<1>. QED  BY <1>3, <1>4

\* A dialog says nothing only when its user closed it, and never that something was done.
LEMMA DialogSays ==
    ASSUME NEW request, request.op \in Dialogs, NEW outcome
    PROVE  LET response == DialogAnswer(request, outcome)
           IN  /\ response.kind \notin {"verdict", "report"}
               /\ request.op = "dialog.pickFile" => (response = Null) = (outcome = "cancel")
BY DEF Dialogs, DialogAnswer, Null

LEMMA ReaderEndsKeeps ==
    ASSUME ServicesInv, ReaderDialogEnds
    PROVE  ServicesInv'
<1>1. PICK outcome \in Outcomes(reader) : Reply(reader, DialogAnswer(reader, outcome), outcome)
  BY DEF ReaderDialogEnds
<1>. DEFINE response == DialogAnswer(reader, outcome)
<1>2. reader.op \in Dialogs
  BY DEF ReaderDialogEnds, ServicesInv, ShellTypeOK, ShownOf
<1>3. /\ response.kind \notin {"verdict", "report"}
      /\ reader.op = "dialog.pickFile" => (response = Null) = (outcome = "cancel")
  BY <1>2, DialogSays
<1>4. /\ reply'.to = reader /\ reply'.verdict = response /\ reply'.chose = outcome
      /\ reply'.before = system /\ reply'.after = system'
  BY <1>1, ReplyIs
<1>. HIDE DEF response
<1>5. response # Ok /\ response # Refused
  BY <1>3 DEF Ok, Refused
<1>6. TrueVerdict(reply)'
  BY <1>3, <1>4, <1>5 DEF TrueVerdict, Ok, Refused, Null
<1>. QED
  BY <1>6
  DEF ReaderDialogEnds, ServicesInv, ShellTypeOK, DialogInv, VerdictsAreTrue, NeverShown, Systems

\* A report that is the panel's own, of nobody's choice.
LEMMA ReportIsTrue ==
    ASSUME UNCHANGED system, NEW request, NEW ok \in BOOLEAN, NEW value,
           Replies(request, SmokeReport(request, ok, value)), ~ParseAction(request) => ~ok
    PROVE  TrueVerdict(reply)'
<1>. DEFINE report == SmokeReport(request, ok, value)
<1>1. report.kind = "report" /\ report.ok = ok
  BY DEF SmokeReport
<1>2. /\ reply'.to = request /\ reply'.verdict = report /\ reply'.chose = "nothing"
      /\ reply'.before = system /\ reply'.after = system'
  BY ReplyIs DEF Replies
<1>. HIDE DEF report
<1>3. report # Ok /\ report # Refused /\ report # Null
  BY <1>1 DEF Ok, Refused, Null
<1>4. ~ParseAction(reply.to)' => ~ok
  BY <1>2 DEF ParseAction
<1>. QED  BY <1>1, <1>2, <1>3, <1>4 DEF TrueVerdict, Ok, Refused, Null, ParseAction

LEMMA PanelRunsKeeps ==
    ASSUME ServicesInv, PanelRuns
    PROVE  ServicesInv'
<1>1. PICK request \in PanelRequests :
          CASE request.op \in Dialogs /\ ~NeverShown(request) ->
                  panel' = request /\ UNCHANGED reply
            [] request.op \in Dialogs /\ NeverShown(request) ->
                  Replies(request, SmokeReport(request, TRUE, Null)) /\ UNCHANGED panel
            [] request.op \in {"notify", "secondInstance"} ->
                  AsksAtOnce(request) /\ UNCHANGED panel
            [] ~ParseAction(request) ->
                  Replies(request, Failed(request)) /\ UNCHANGED panel
  BY DEF PanelRuns
<1>2. UNCHANGED <<system, line, reader, outside>>
  BY DEF PanelRuns
<1>3. asked' \in [host : 0..MaxRequests, panel : 0..MaxPanel]
  <2>1. MaxPanel \in Nat /\ asked.panel \in 0..MaxPanel /\ asked.panel < MaxPanel
    BY ShellAssumption DEF ShellBounds, PanelRuns, ServicesInv, ShellTypeOK
  <2>2. asked.panel + 1 \in 0..MaxPanel
    BY <2>1
  <2>. QED  BY <2>2 DEF PanelRuns, ServicesInv, ShellTypeOK
<1>4. CASE request.op \in Dialogs /\ ~NeverShown(request)
  <2>1. panel' = request /\ UNCHANGED reply
    BY <1>1, <1>4 DEF Dialogs, ParseAction
  <2>2. panel' \in ShownOf(PanelRequests)
    BY <1>4, <2>1 DEF ShownOf
  <2>3. ShellTypeOK'
    BY <1>2, <1>3, <2>2 DEF ServicesInv, ShellTypeOK, Systems
  <2>4. DialogInv'
    BY <1>2, <1>4, <2>1, DialogsStay DEF DialogInv, NeverShown
  <2>5. VerdictsAreTrue'
    BY <1>2, <2>1, TruthStays DEF ServicesInv
  <2>. QED  BY <2>3, <2>4, <2>5 DEF ServicesInv
<1>5. ASSUME TrueVerdict(reply)', UNCHANGED panel
      PROVE  ServicesInv'
  <2>1. ShellTypeOK'
    BY <1>2, <1>3, <1>5 DEF ServicesInv, ShellTypeOK, Systems
  <2>2. DialogInv'
    BY <1>2, <1>5, DialogsStay DEF DialogInv
  <2>3. VerdictsAreTrue'
    BY <1>2, <1>5 DEF ServicesInv, VerdictsAreTrue
  <2>. QED  BY <2>1, <2>2, <2>3 DEF ServicesInv
<1>6. CASE request.op \in Dialogs /\ NeverShown(request)
  <2>1. Replies(request, SmokeReport(request, TRUE, Null)) /\ UNCHANGED panel
    BY <1>1, <1>6 DEF Dialogs, ParseAction
  <2>2. ParseAction(request)
    BY <1>6 DEF ParseAction
  <2>. QED  BY <1>2, <1>5, <2>1, <2>2, ReportIsTrue
<1>7. CASE request.op \in {"notify", "secondInstance"}
  <2>1. AsksAtOnce(request) /\ UNCHANGED panel
    BY <1>1, <1>7 DEF Dialogs, ParseAction
  <2>2. ParseAction(request)
    BY <1>7 DEF ParseAction
  <2>3. PICK ok \in BOOLEAN : \E value : Replies(request, SmokeReport(request, ok, value))
    BY <2>1 DEF AsksAtOnce, Failed
  <2>. QED  BY <1>2, <1>5, <2>1, <2>2, <2>3, ReportIsTrue
<1>8. CASE ~ParseAction(request)
  <2>1. Replies(request, SmokeReport(request, FALSE, NoRequest)) /\ UNCHANGED panel
    BY <1>1, <1>8 DEF Dialogs, ParseAction, Failed
  <2>. QED  BY <1>2, <1>5, <2>1, ReportIsTrue
<1>. QED  BY <1>4, <1>6, <1>7, <1>8 DEF ParseAction

LEMMA PanelEndsKeeps ==
    ASSUME ServicesInv, PanelDialogEnds
    PROVE  ServicesInv'
<1>1. panel.op \in Dialogs
  BY DEF PanelDialogEnds, ServicesInv, ShellTypeOK, ShownOf
<1>2. ParseAction(panel)
  BY <1>1 DEF ParseAction
<1>3. ASSUME NEW outcome \in Outcomes(panel),
             Reply(panel, SmokeReport(panel, TRUE, DialogAnswer(panel, outcome)), outcome)
      PROVE  TrueVerdict(reply)'
  <2>. DEFINE response == DialogAnswer(panel, outcome)
              report == SmokeReport(panel, TRUE, response)
  <2>1. panel.op = "dialog.pickFile" => (response = Null) = (outcome = "cancel")
    BY <1>1, DialogSays
  <2>2. report.kind = "report" /\ report.ok /\ report.value = response
    BY DEF SmokeReport
  <2>3. /\ reply'.to = panel /\ reply'.verdict = report /\ reply'.chose = outcome
        /\ reply'.before = system /\ reply'.after = system'
    BY <1>3, ReplyIs
  <2>. HIDE DEF response, report
  <2>4. report # Ok /\ report # Refused /\ report # Null
    BY <2>2 DEF Ok, Refused, Null
  <2>5. ParseAction(reply.to)' /\ system' = system
    BY <1>2, <2>3 DEF ParseAction, PanelDialogEnds
  <2>. QED  BY <2>1, <2>2, <2>3, <2>4, <2>5 DEF TrueVerdict, Ok, Refused, Null, ParseAction
<1>4. ASSUME Replies(panel, Failed(panel))
      PROVE  TrueVerdict(reply)'
  BY <1>2, <1>4, ReportIsTrue DEF Failed, PanelDialogEnds
<1>5. TrueVerdict(reply)'
  BY <1>3, <1>4 DEF PanelDialogEnds
<1>. QED
  BY <1>5
  DEF PanelDialogEnds, ServicesInv, ShellTypeOK, DialogInv, VerdictsAreTrue, NeverShown, Systems

LEMMA OutsideKeeps ==
    ASSUME ServicesInv, Outside
    PROVE  ServicesInv'
<1>1. system \in Systems
  BY DEF ServicesInv, ShellTypeOK
<1>2. system.autostart \in BOOLEAN
  BY <1>1 DEF Systems
<1>3. system' \in Systems /\ system'.desktop = system.desktop /\ system'.schemes = system.schemes
  <2>1. CASE system' = [system EXCEPT !.autostart = ~@]
    <3>. DEFINE flag == ~system.autostart
    <3>1. flag \in BOOLEAN /\ system' = [system EXCEPT !.autostart = flag]
      BY <2>1
    <3>. HIDE DEF flag
    <3>. QED  BY <1>1, <3>1 DEF Systems
  <2>2. ASSUME NEW text \in {Null, [kind |-> "text", is |-> ""]},
               system' = [system EXCEPT !.clipboard = text]
        PROVE  system' \in Systems /\ system'.desktop = system.desktop
               /\ system'.schemes = system.schemes
    <3>. DEFINE texts == {""} \cup ArgsOf("clipboard.writeText")
    <3>1. "" \in texts /\ (text = Null \/ text = [kind |-> "text", is |-> ""])
      OBVIOUS
    <3>. HIDE DEF texts
    <3>2. [kind |-> "text", is |-> ""] \in [kind : {"text"}, is : texts]
      BY <3>1
    <3>3. text \in {Null} \cup [kind : {"text"}, is : texts]
      BY <3>1, <3>2, Zenon
    <3>. USE DEF texts
    <3>. QED  BY <1>1, <2>2, <3>3 DEF Systems
  <2>. QED  BY <2>1, <2>2 DEF Outside
<1>4. outside' \in 0..MaxOutside
  <2>1. MaxOutside \in Nat /\ outside \in 0..MaxOutside /\ outside < MaxOutside
    BY ShellAssumption DEF ShellBounds, Outside, ServicesInv, ShellTypeOK
  <2>2. outside + 1 \in 0..MaxOutside
    BY <2>1
  <2>. QED  BY <2>2 DEF Outside
<1>5. ShellTypeOK'
  BY <1>3, <1>4 DEF Outside, ServicesInv, ShellTypeOK
<1>6. DialogInv'
  BY <1>3, DialogsStay DEF DialogInv, Outside
<1>7. VerdictsAreTrue'
  BY <1>3, TruthStays DEF Outside, ServicesInv
<1>. QED  BY <1>5, <1>6, <1>7 DEF ServicesInv

\* Every step of the services keeps what is known of them.
LEMMA ServicesKeep ==
    ASSUME ServicesInv, [ShellNext]_shellVars
    PROVE  ServicesInv'
<1>1. CASE UNCHANGED shellVars
  <2>1. ShellTypeOK'
    BY <1>1 DEF shellVars, ServicesInv, ShellTypeOK, Systems
  <2>2. DialogInv' /\ VerdictsAreTrue'
    BY <1>1, TruthStays DEF shellVars, ServicesInv, DialogInv, NeverShown
  <2>. QED  BY <2>1, <2>2 DEF ServicesInv
<1>. QED
  BY <1>1, AskKeeps, ServeKeeps, ReaderEndsKeeps, PanelRunsKeeps, PanelEndsKeeps, OutsideKeeps
  DEF ShellNext

LEMMA ServicesAreInductive == ShellSpec => []ServicesInv
BY ShellInitHolds, ServicesKeep, PTL DEF ShellSpec

(* The services' variables keep their types, and whoever waits for the     *)
(* user has a dialog that was opened (shell_sys.rs:618-720,                *)
(* dialog_opts.rs:76-92, smoke.rs:311-313).                                *)
THEOREM ServicesTypeCorrect == ShellSpec => [](ShellTypeOK /\ DialogInv)
<1>1. ServicesInv => ShellTypeOK /\ DialogInv
  BY DEF ServicesInv
<1>. QED  BY <1>1, ServicesAreInductive, PTL

(* Every verdict the host or the panel is given is what the system holds,  *)
(* and no scheme of somebody else's is ever taken, whatever is asked, in   *)
(* whatever order, and whoever else changes the system                     *)
(* (shell_sys.rs:61-90, 266-287, 302-312, dialog_opts.rs:76-92,            *)
(* smoke.rs:311-313, 500-511).                                             *)
THEOREM AnswersAreTrue == ShellSpec => []VerdictsAreTrue
<1>1. ServicesInv => VerdictsAreTrue
  BY DEF ServicesInv
<1>. QED  BY <1>1, ServicesAreInductive, PTL
=============================================================================
