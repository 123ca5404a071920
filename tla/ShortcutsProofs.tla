--------------------------- MODULE ShortcutsProofs ---------------------------
(***************************************************************************)
(* Theorems about the global shortcuts, for any chords, any number of      *)
(* calls, of hosts, of interventions of the panel and of presses.          *)
(*                                                                         *)
(* For a chord that two workers were never at work on together, the mirror *)
(* is right whenever nobody is at work on it.  What is bound in the host   *)
(* trails what the operating system holds by the answers that are under    *)
(* way: a chord that is not held is one whose binding is already undone,   *)
(* by the reader at work or by an answer on the link, or was overtaken by  *)
(* a release that timed out.  What is under way is in the order of the     *)
(* calls, and later than what is bound.                                    *)
(***************************************************************************)
EXTENDS Shortcuts, SequenceTheorems, TLAPS

Task ==
    [at : {"idle", "asked", "read"}, op : Ops, chord : Chords \cup {NoChord},
     id : Calls \cup {0}, ok : BOOLEAN, seen : BOOLEAN]
CallState ==
    [op : Ops, chord : Chords \cup {NoChord},
     is : {"uncalled", "waiting", "registered", "rejected", "no-shell", "expired", "lost"}]
RequestFrame == [op : Ops, chord : Chords, id : Calls]
HostFrame    == [press : Chords \cup {NoChord}, id : Calls \cup {0}, ok : BOOLEAN]

-----------------------------------------------------------------------------
(* Type correctness.                                                       *)

Types ==
    /\ os \subseteq Chords /\ mirror \subseteq Chords
    /\ foreign \subseteq Chords /\ raced \subseteq Chords
    /\ work \in [Workers -> Task]
    /\ generation \in Generations \cup {0} /\ running \in BOOLEAN /\ closed \in BOOLEAN
    /\ bindings \in [Chords -> Calls \cup {0}]
    /\ call \in [Calls -> CallState]
    /\ requests \in [Generations -> Seq(RequestFrame)]
    /\ frames \in Seq(HostFrame)
    /\ routed \in Chords \cup {NoChord}
    /\ edges \in 0..MaxPresses
    /\ meddling \in 0..MaxMeddling

LEMMA TypesAreTypeOK == Types <=> TypeOK
BY DEF Types, TypeOK, Task, CallState, RequestFrame, HostFrame

\* A worker is idle, or at work on a chord.
WorkInv ==
    \A w \in Workers : IF work[w].at = "idle" THEN work[w] = Idle ELSE work[w].chord \in Chords

LEMMA IdleIsATask == ASSUME ShortcutBounds PROVE Idle \in Task
BY DEF Idle, Task, Ops

\* What the operating system answers, and what it holds then.
LEMMA AnswersAre ==
    ASSUME NEW op \in Ops, NEW chord \in Chords, NEW answer \in Answers(op, chord)
    PROVE  /\ answer[1] \in BOOLEAN
           /\ answer[1] => (answer[2] <=> op = "register")
           /\ ~answer[1] => (answer[2] <=> chord \in os)
<1>1. ASSUME NEW held \in BOOLEAN PROVE <<FALSE, held>>[1] = FALSE /\ <<FALSE, held>>[2] = held
  OBVIOUS
<1>2. <<TRUE, TRUE>>[1] = TRUE /\ <<TRUE, TRUE>>[2] = TRUE
      /\ <<TRUE, FALSE>>[1] = TRUE /\ <<TRUE, FALSE>>[2] = FALSE
  OBVIOUS
<1>3. CASE answer = <<FALSE, chord \in os>>
  BY <1>1, <1>3, Zenon
<1>4. CASE op = "register" /\ answer = <<TRUE, TRUE>>
  BY <1>2, <1>4
<1>5. CASE op # "register" /\ answer = <<TRUE, FALSE>>
  BY <1>2, <1>5
<1> QED
  BY <1>3, <1>4, <1>5, Zenon DEF Answers

\* A worker asks the operating system.
LEMMA AskOsDoes ==
    ASSUME ShortcutBounds, Types, NEW w \in Workers, NEW op \in Ops, NEW chord \in Chords,
           NEW id \in Calls \cup {0}, AskOs(w, op, chord, id)
    PROVE  \E task \in Task :
              /\ work' = [work EXCEPT ![w] = task]
              /\ task.at = "asked" /\ task.op = op /\ task.chord = chord /\ task.id = id
              /\ os' \subseteq Chords
              /\ \A c \in Chords \ {chord} : c \in os' <=> c \in os
              /\ task.ok => (chord \in os' <=> op = "register")
              /\ ~task.ok => (chord \in os' <=> chord \in os)
<1>1. PICK answer \in Answers(op, chord) :
         /\ os' = With(os, chord, answer[2])
         /\ work' = [work EXCEPT ![w] = [at |-> "asked", op |-> op, chord |-> chord,
                                         id |-> id, ok |-> answer[1], seen |-> FALSE]]
  BY DEF AskOs
<1>2. /\ answer[1] \in BOOLEAN
      /\ answer[1] => (answer[2] <=> op = "register")
      /\ ~answer[1] => (answer[2] <=> chord \in os)
  BY AnswersAre
<1> DEFINE task == [at |-> "asked", op |-> op, chord |-> chord, id |-> id, ok |-> answer[1],
                    seen |-> FALSE]
<1>3. task \in Task /\ task.at = "asked" /\ task.op = op /\ task.chord = chord
      /\ task.id = id /\ task.ok = answer[1]
  BY <1>2 DEF Task
<1>4. /\ os' \subseteq Chords
      /\ \A c \in Chords \ {chord} : c \in os' <=> c \in os
      /\ chord \in os' <=> answer[2]
  BY <1>1 DEF With, Types
<1> QED
  BY <1>1, <1>2, <1>3, <1>4

LEMMA AskOsTypes ==
    ASSUME ShortcutBounds, Types, WorkInv, NEW w \in Workers, NEW op \in Ops, NEW chord \in Chords,
           NEW id \in Calls \cup {0}, AskOs(w, op, chord, id)
    PROVE  /\ os' \subseteq Chords /\ foreign' \subseteq Chords /\ raced' \subseteq Chords
           /\ work' \in [Workers -> Task] /\ WorkInv'
<1>1. PICK task \in Task :
         /\ work' = [work EXCEPT ![w] = task] /\ task.at = "asked" /\ task.chord = chord
         /\ os' \subseteq Chords
  BY AskOsDoes
<1>2. foreign' \subseteq Chords /\ raced' \subseteq Chords
  BY DEF AskOs, Types
<1>3. work' \in [Workers -> Task] /\ WorkInv'
  BY <1>1 DEF Types, WorkInv
<1> QED
  BY <1>1, <1>2, <1>3

\* What a request asks for.
LEMMA ServeDoes ==
    ASSUME Types, NEW g \in Generations, Serve(g)
    PROVE  /\ g \in Workers /\ Head(requests[g]) \in RequestFrame
           /\ Head(requests[g]).op \in Ops /\ Head(requests[g]).chord \in Chords
           /\ Head(requests[g]).id \in Calls
           /\ requests' \in [Generations -> Seq(RequestFrame)]
<1>1. requests[g] \in Seq(RequestFrame) /\ requests[g] # <<>>
  BY DEF Serve, Types
<1>2. Head(requests[g]) \in RequestFrame /\ Tail(requests[g]) \in Seq(RequestFrame)
  BY <1>1
<1>3. requests' \in [Generations -> Seq(RequestFrame)]
  BY <1>2 DEF Serve, Types
<1>4. Head(requests[g]).op \in Ops /\ Head(requests[g]).chord \in Chords
      /\ Head(requests[g]).id \in Calls
  BY <1>2 DEF RequestFrame
<1> QED
  BY <1>2, <1>3, <1>4 DEF Workers

LEMMA TypesKeep ==
    ASSUME ShortcutBounds, Types, WorkInv, [Next]_vars PROVE Types' /\ WorkInv'
<1> USE DEF osVars, hostVars, pressVars
<1>1. CASE Launch
  <2>1. generation' \in Generations
    BY <1>1 DEF Launch, Types, Generations, ShortcutBounds
  <2> QED
    BY <1>1, <2>1 DEF Launch, Types, WorkInv
<1>2. CASE Die
  <2>1. ASSUME NEW i \in Calls PROVE call'[i] \in CallState
    BY <1>2 DEF Die, Types, CallState
  <2>2. call' \in [Calls -> CallState]
    BY <1>2, <2>1 DEF Die
  <2>3. frames' \in Seq(HostFrame) /\ bindings' \in [Chords -> Calls \cup {0}]
    BY <1>2 DEF Die
  <2> QED
    BY <1>2, <2>2, <2>3 DEF Die, Types, WorkInv
<1>3. CASE Close
  BY <1>3 DEF Close, Types, WorkInv
<1>4. CASE Answer
  <2> DEFINE i == Head(frames).id
  <2>1. Head(frames) \in HostFrame /\ Tail(frames) \in Seq(HostFrame)
    BY <1>4 DEF Answer, Types
  <2>2. i \in Calls \cup {0} /\ Head(frames).ok \in BOOLEAN
    BY <2>1 DEF HostFrame
  <2>0. CASE call[i].is # "waiting"
    BY <1>4, <2>0, <2>1 DEF Answer, Types, WorkInv
  <2> SUFFICES ASSUME call[i].is = "waiting" PROVE Types' /\ WorkInv'
    BY <2>0
  <2>3. PICK is \in {"registered", "rejected"} : call' = [call EXCEPT ![i].is = is]
    BY <1>4 DEF Answer
  <2>4. i \in Calls => [call[i] EXCEPT !.is = is] \in CallState
    BY DEF Types, CallState
  <2>5. call' \in [Calls -> CallState]
    BY <2>3, <2>4 DEF Types
  <2>6. bindings' = [bindings EXCEPT ![call[i].chord] = Bound(i, Head(frames).ok)]
    BY <1>4 DEF Answer
  <2>7. call[i].chord \in Chords => Bound(i, Head(frames).ok) \in Calls \cup {0}
    BY <2>2 DEF Types, Bound
  <2>8. bindings' \in [Chords -> Calls \cup {0}]
    BY <2>6, <2>7 DEF Types
  <2>9. frames' \in Seq(HostFrame)
    BY <1>4, <2>1 DEF Answer
  <2> QED
    BY <1>4, <2>5, <2>8, <2>9 DEF Answer, Types, WorkInv
<1>5. CASE Dispatch
  <2>1. frames' \in Seq(HostFrame)
    BY <1>5 DEF Dispatch, Types
  <2> QED
    BY <1>5, <2>1 DEF Dispatch, Types, WorkInv
<1>6. ASSUME NEW i \in Calls, Call(i) PROVE Types' /\ WorkInv'
  <2>1. PICK op \in Ops, chord \in Chords, is \in {"no-shell", "waiting"} :
           call' = [call EXCEPT ![i] = [op |-> op, chord |-> chord, is |-> is]]
    BY <1>6 DEF Call
  <2>2. [op |-> op, chord |-> chord, is |-> is] \in CallState
    BY DEF CallState
  <2>3. call' \in [Calls -> CallState]
    BY <2>1, <2>2 DEF Types
  <2>4. requests' \in [Generations -> Seq(RequestFrame)]
    <3>1. CASE closed
      BY <1>6, <3>1 DEF Call, Types
    <3>2. CASE ~closed
      <4>1. PICK o \in Ops, c \in Chords :
               requests' = [requests EXCEPT ![generation] =
                               Append(requests[generation], [op |-> o, chord |-> c, id |-> i])]
        BY <1>6, <3>2 DEF Call
      <4>2. [op |-> o, chord |-> c, id |-> i] \in RequestFrame
        BY DEF RequestFrame
      <4>3. generation \in Generations =>
               Append(requests[generation], [op |-> o, chord |-> c, id |-> i]) \in Seq(RequestFrame)
        BY <4>2 DEF Types
      <4> QED
        BY <4>1, <4>3 DEF Types
    <3> QED
      BY <3>1, <3>2
  <2> QED
    BY <1>6, <2>3, <2>4 DEF Call, Types, WorkInv
<1>7. ASSUME NEW g \in Generations, Serve(g) PROVE Types' /\ WorkInv'
  <2> DEFINE request == Head(requests[g])
  <2>1. AskOs(g, request.op, request.chord, request.id)
    BY <1>7 DEF Serve
  <2>2. /\ os' \subseteq Chords /\ foreign' \subseteq Chords /\ raced' \subseteq Chords
        /\ work' \in [Workers -> Task] /\ WorkInv'
    BY <1>7, <2>1, ServeDoes, AskOsTypes
  <2>3. requests' \in [Generations -> Seq(RequestFrame)]
    BY <1>7, ServeDoes
  <2> QED
    BY <1>7, <2>2, <2>3 DEF Serve, Types
<1>8. ASSUME NEW w \in Workers, ReadBack(w) PROVE Types' /\ WorkInv'
  <2> DEFINE seen == work[w].chord \in os
  <2>0. seen \in BOOLEAN
    BY SMT
  <2>1. PICK b \in BOOLEAN : b = seen
    <3> HIDE DEF seen
    <3> QED
      BY <2>0
  <2>2. [work[w] EXCEPT !.at = "read", !.seen = b] \in Task
    BY DEF Types, Task
  <2>3. work' = [work EXCEPT ![w] = [work[w] EXCEPT !.at = "read", !.seen = b]]
    BY <1>8, <2>1 DEF ReadBack, Types
  <2>4. work' \in [Workers -> Task]
    BY <2>2, <2>3 DEF Types
  <2>5. WorkInv'
    BY <1>8, <2>3 DEF ReadBack, WorkInv, Types, Task
  <2> QED
    BY <1>8, <2>4, <2>5 DEF ReadBack, Types
<1>9. ASSUME NEW w \in Workers, Mirror(w) PROVE Types' /\ WorkInv'
  <2>0. work[w] \in Task /\ work[w].chord \in Chords
    BY <1>9 DEF Mirror, Types, WorkInv
  <2>1. work' \in [Workers -> Task] /\ WorkInv'
    BY <1>9, IdleIsATask DEF Mirror, Types, WorkInv, Idle
  <2>2. [press |-> NoChord, id |-> work[w].id, ok |-> work[w].ok] \in HostFrame
    BY <2>0 DEF Task, HostFrame
  <2>3. frames' \in Seq(HostFrame)
    BY <1>9, <2>2 DEF Mirror, Types
  <2>4. mirror' \subseteq Chords
    BY <1>9, <2>0 DEF Mirror, Mirrored, With, Types
  <2> QED
    BY <1>9, <2>1, <2>3, <2>4 DEF Mirror, Types
<1>10. CASE PanelAsks
  <2>1. PICK op \in Ops, chord \in Chords : AskOs(Panel, op, chord, 0)
    BY <1>10 DEF PanelAsks
  <2>2. Panel \in Workers
    BY DEF Workers
  <2>3. /\ os' \subseteq Chords /\ foreign' \subseteq Chords /\ raced' \subseteq Chords
        /\ work' \in [Workers -> Task] /\ WorkInv'
    BY <2>1, <2>2, AskOsTypes
  <2>4. meddling' \in 0..MaxMeddling
    BY <1>10 DEF PanelAsks, Types, ShortcutBounds
  <2> QED
    BY <1>10, <2>3, <2>4 DEF PanelAsks, Types
<1>11. CASE Edge
  <2>1. edges' \in 0..MaxPresses
    BY <1>11 DEF Edge, Types, ShortcutBounds
  <2>2. routed' \in Chords \cup {NoChord}
    BY <1>11 DEF Edge, Types
  <2> QED
    BY <1>11, <2>1, <2>2 DEF Edge, Types, WorkInv
<1>12. CASE Notify
  <2>1. [press |-> routed, id |-> 0, ok |-> TRUE] \in HostFrame
    BY DEF Types, HostFrame
  <2>2. frames' \in Seq(HostFrame)
    BY <1>12, <2>1 DEF Notify, Types
  <2> QED
    BY <1>12, <2>2 DEF Notify, Types, WorkInv
<1>13. CASE UNCHANGED vars
  BY <1>13 DEF vars, Types, WorkInv
<1>14. ASSUME NEW i \in Calls, Expire(i) PROVE Types' /\ WorkInv'
  <2>1. [call[i] EXCEPT !.is = "expired"] \in CallState
    BY DEF Types, CallState
  <2>2. call' \in [Calls -> CallState]
    BY <1>14, <2>1 DEF Expire, Types
  <2> QED
    BY <1>14, <2>2 DEF Expire, Types, WorkInv
<1> QED
  BY <1>1, <1>2, <1>3, <1>4, <1>5, <1>6, <1>7, <1>8, <1>9, <1>10, <1>11, <1>12, <1>13, <1>14
     DEF Next

-----------------------------------------------------------------------------
(* The mirror.                                                             *)

MirrorInv ==
    \A c \in Chords \ raced :
        /\ \A v, w \in Workers : work[v].chord = c /\ work[w].chord = c => v = w
        /\ (\A w \in Workers : work[w].chord # c) => (c \in mirror <=> c \in os)
        /\ \A w \in Workers : work[w].chord = c /\ work[w].at = "read" =>
                                 (work[w].seen <=> c \in os)

LEMMA IdleHasNoChord ==
    ASSUME ShortcutBounds, WorkInv, NEW w \in Workers
    PROVE  work[w].at = "idle" => work[w].chord \notin Chords
BY DEF WorkInv, Idle, ShortcutBounds

LEMMA AskOsMirrors ==
    ASSUME ShortcutBounds, Types, WorkInv, MirrorInv, NEW w \in Workers, work[w].at = "idle",
           NEW op \in Ops, NEW chord \in Chords, NEW id \in Calls \cup {0},
           AskOs(w, op, chord, id), UNCHANGED mirror
    PROVE  MirrorInv'
<1>1. PICK task \in Task :
         /\ work' = [work EXCEPT ![w] = task] /\ task.at = "asked" /\ task.chord = chord
         /\ \A c \in Chords \ {chord} : c \in os' <=> c \in os
  BY AskOsDoes
<1>2. /\ work'[w] = task
      /\ \A v \in Workers \ {w} : work'[v] = work[v]
  BY <1>1 DEF Types
<1>3. work[w].chord \notin Chords
  BY IdleHasNoChord
<1>4. /\ raced \subseteq raced'
      /\ chord \notin raced' => \A v \in Workers \ {w} : work[v].chord # chord
  BY DEF AskOs
<1>5. ASSUME NEW c \in Chords \ raced', NEW v \in Workers, NEW u \in Workers,
             work'[v].chord = c, work'[u].chord = c
      PROVE  v = u
  BY <1>1, <1>2, <1>4, <1>5 DEF MirrorInv
<1>6. ASSUME NEW c \in Chords \ raced', \A v \in Workers : work'[v].chord # c
      PROVE  c \in mirror' <=> c \in os'
  <2>1. c # chord
    BY <1>1, <1>2, <1>6
  <2>2. \A v \in Workers : work[v].chord # c
    BY <1>2, <1>3, <1>6
  <2> QED
    BY <1>1, <1>4, <2>1, <2>2 DEF MirrorInv
<1>7. ASSUME NEW c \in Chords \ raced', NEW v \in Workers,
             work'[v].chord = c, work'[v].at = "read"
      PROVE  work'[v].seen <=> c \in os'
  <2>1. v # w
    BY <1>1, <1>2, <1>7
  <2>2. c # chord
    BY <1>2, <1>4, <1>7, <2>1
  <2> QED
    BY <1>1, <1>2, <1>4, <1>7, <2>1, <2>2 DEF MirrorInv
<1> QED
  BY <1>5, <1>6, <1>7 DEF MirrorInv

LEMMA MirrorKeeps ==
    ASSUME ShortcutBounds, Types, WorkInv, MirrorInv, [Next]_vars PROVE MirrorInv'
<1>1. ASSUME NEW g \in Generations, Serve(g) PROVE MirrorInv'
  <2> DEFINE request == Head(requests[g])
  <2>1. AskOs(g, request.op, request.chord, request.id) /\ work[g].at = "idle"
    BY <1>1 DEF Serve
  <2> QED
    BY <1>1, <2>1, ServeDoes, AskOsMirrors DEF Serve
<1>2. CASE PanelAsks
  <2>1. PICK op \in Ops, chord \in Chords : AskOs(Panel, op, chord, 0)
    BY <1>2 DEF PanelAsks
  <2>2. Panel \in Workers
    BY DEF Workers
  <2> QED
    BY <1>2, <2>1, <2>2, AskOsMirrors DEF PanelAsks
<1>3. ASSUME NEW w \in Workers, ReadBack(w) PROVE MirrorInv'
  <2>1. /\ work'[w].at = "read" /\ work'[w].chord = work[w].chord
        /\ work'[w].seen <=> work[w].chord \in os
        /\ \A v \in Workers \ {w} : work'[v] = work[v]
    BY <1>3 DEF ReadBack, Types, Task
  <2>2. UNCHANGED <<os, mirror, raced>>
    BY <1>3 DEF ReadBack
  <2> QED
    BY <2>1, <2>2 DEF MirrorInv
<1>4. ASSUME NEW w \in Workers, Mirror(w) PROVE MirrorInv'
  <2>1. work[w].at = "read" /\ work[w].chord \in Chords /\ UNCHANGED <<os, raced>>
    BY <1>4 DEF Mirror, WorkInv
  <2>2. /\ work'[w] = Idle
        /\ \A v \in Workers \ {w} : work'[v] = work[v]
    BY <1>4 DEF Mirror, Types
  <2>3. work'[w].chord \notin Chords
    BY <2>2 DEF Idle, ShortcutBounds
  <2>4. /\ \A c \in Chords \ {work[w].chord} : c \in mirror' <=> c \in mirror
        /\ work[w].chord \in mirror' <=> work[w].seen
    BY <1>4, <2>1 DEF Mirror, Mirrored, With
  <2>5. ASSUME NEW c \in Chords \ raced', \A v \in Workers : work'[v].chord # c
        PROVE  c \in mirror' <=> c \in os'
    <3>1. CASE c = work[w].chord
      BY <2>1, <2>4, <3>1 DEF MirrorInv
    <3>2. CASE c # work[w].chord
      <4>1. \A v \in Workers : work[v].chord # c
        BY <2>2, <2>5, <3>2
      <4> QED
        BY <2>1, <2>4, <3>2, <4>1 DEF MirrorInv
    <3> QED
      BY <3>1, <3>2
  <2>6. ASSUME NEW c \in Chords \ raced', NEW v \in Workers, work'[v].chord = c PROVE v # w
    BY <2>3, <2>6
  <2> QED
    BY <2>1, <2>2, <2>5, <2>6 DEF MirrorInv
<1>5. CASE UNCHANGED <<os, mirror, work, raced>>
  BY <1>5 DEF MirrorInv
<1> QED
  BY <1>1, <1>2, <1>3, <1>4, <1>5
     DEF Next, Launch, Die, Close, Answer, Dispatch, Call, Expire, Edge, Notify, vars, osVars

-----------------------------------------------------------------------------
(* The link between the host that runs and the shell.                      *)

Busy    == work[generation].at # "idle"
Queued  == 1..Len(requests[generation])
Replies == {k \in 1..Len(frames) : frames[k].press = NoChord}

\* Hosts to come have nothing under way, and nobody talks to none.
LinkInv ==
    /\ ~running => frames = <<>> /\ \A c \in Chords : bindings[c] = 0
    /\ running => generation \in Generations
    /\ \A n \in Generations : n > generation => requests[n] = <<>> /\ work[n] = Idle

\* No answer to the call was read, and none was given up by a host that died.
Open(state) == state.is \in {"waiting", "expired"}

Asks(state, op, chord) == Open(state) /\ state.op = op /\ state.chord = chord

\* What was called is under way in the order of the calls.
PipeInv ==
    running =>
        /\ \A k \in Replies : /\ frames[k].id \in Calls
                               /\ Open(call[frames[k].id])
                               /\ call[frames[k].id].chord \in Chords
        /\ \A j, k \in Replies : j < k => frames[j].id < frames[k].id
        /\ Busy => /\ work[generation].id \in Calls
                   /\ Asks(call[work[generation].id], work[generation].op, work[generation].chord)
                   /\ \A k \in Replies : frames[k].id < work[generation].id
                   /\ \A j \in Queued : work[generation].id < requests[generation][j].id
        /\ \A j \in Queued : Asks(call[requests[generation][j].id], requests[generation][j].op,
                                  requests[generation][j].chord)
        /\ \A i, j \in Queued : i < j => requests[generation][i].id < requests[generation][j].id
        /\ \A j \in Queued, k \in Replies : frames[k].id < requests[generation][j].id

\* It was called later than what is bound, and what is called next is later.
LaterInv ==
    /\ \A i, j \in Calls : i < j /\ call[j].is # "uncalled" => call[i].is # "uncalled"
    /\ running => \A c \in Chords :
          /\ bindings[c] # 0 => call[bindings[c]].is # "uncalled"
          /\ \A k \in Replies : bindings[c] < frames[k].id
          /\ Busy => bindings[c] < work[generation].id
          /\ \A j \in Queued : bindings[c] < requests[generation][j].id

\* An answer that binds a chord, or undoes its binding.
Grants(k, c) ==
    /\ k \in Replies /\ frames[k].ok
    /\ call[frames[k].id].chord = c /\ call[frames[k].id].op = "register"
Revokes(k, c) ==
    /\ k \in Replies /\ frames[k].ok
    /\ call[frames[k].id].chord = c /\ call[frames[k].id].op = "unregister"

WorksOn(op, c) ==
    work[generation].chord = c /\ work[generation].ok /\ work[generation].op = op

\* Once everything under way has arrived, the chord is not bound, or a release
\* of it has timed out.
Lapsed(c) ==
    \/ WorksOn("unregister", c)
    \/ /\ \A k \in Replies : Grants(k, c) => \E j \in Replies : j > k /\ Revokes(j, c)
       /\ bindings[c] = 0 \/ MaybeReleased(c) \/ \E j \in Replies : Revokes(j, c)

Undone(c) == ~WorksOn("register", c) /\ Lapsed(c)

Touched(c) ==
    \/ bindings[c] # 0 \/ work[generation].chord = c
    \/ \E k \in Replies : call[frames[k].id].chord = c

HeldInv ==
    running => \A c \in Chords \ (foreign \cup raced) :
        /\ Touched(c) => \A v \in Workers \ {generation} : work[v].chord # c
        /\ c \in os \/ Undone(c)
        /\ c \in mirror \/ Lapsed(c)

ShortcutInv ==
    Types /\ WorkInv /\ MirrorInv /\ LinkInv /\ PipeInv /\ LaterInv /\ HeldInv
LinkHolds == LinkInv /\ PipeInv /\ LaterInv /\ HeldInv

LEMMA LaunchKeeps == ASSUME ShortcutBounds, ShortcutInv, Launch PROVE LinkHolds'
<1> USE DEF ShortcutInv, LinkHolds
<1>1. /\ generation' = generation + 1 /\ generation' \in Generations
      /\ UNCHANGED <<os, mirror, raced, work, requests, frames, call, bindings>>
      /\ \A c \in Chords : bindings[c] = 0
  BY DEF Launch, Types, Generations, ShortcutBounds, LinkInv
<1>2. frames' = <<>> /\ requests'[generation'] = <<>> /\ work'[generation'] = Idle
  BY <1>1 DEF LinkInv, Launch, Types, Generations, ShortcutBounds
<1>3. Replies' = {} /\ Queued' = {} /\ ~Busy'
  BY <1>2 DEF Replies, Queued, Busy, Idle
<1>4. LinkInv'
  BY <1>1 DEF LinkInv, Launch, Types, Generations, ShortcutBounds
<1>5. PipeInv'
  BY <1>3 DEF PipeInv
<1>6. LaterInv'
  BY <1>1, <1>3 DEF LaterInv
<1>7. ASSUME NEW c \in Chords PROVE ~Touched(c)' /\ Undone(c)' /\ Lapsed(c)'
  BY <1>1, <1>2, <1>3 DEF Touched, Undone, Lapsed, WorksOn, Idle, ShortcutBounds
<1> QED
  BY <1>4, <1>5, <1>6, <1>7 DEF HeldInv

\* The identifiers of what is under way.
LEMMA IdsAreCalls ==
    ASSUME ShortcutBounds, ShortcutInv, running
    PROVE  /\ generation \in Generations /\ generation \in Workers
           /\ \A i \in Calls : i \in Nat /\ i # 0
           /\ \A c \in Chords : bindings[c] \in Nat /\ (bindings[c] # 0 => bindings[c] \in Calls)
           /\ \A k \in Replies : k \in Nat /\ frames[k].id \in Calls
           /\ \A j \in Queued : j \in Nat /\ requests[generation][j].id \in Calls
           /\ Busy => work[generation].id \in Calls
<1> USE DEF ShortcutInv
<1>1. generation \in Generations /\ generation \in Workers
  BY DEF LinkInv, Workers
<1>2. \A i \in Calls : i \in Nat /\ i # 0
  BY DEF Calls, ShortcutBounds
<1>3. \A c \in Chords : bindings[c] \in Nat /\ (bindings[c] # 0 => bindings[c] \in Calls)
  BY <1>2 DEF Types
<1>4. \A k \in Replies : k \in Nat /\ frames[k].id \in Calls
  BY DEF PipeInv, Replies
<1>5. ASSUME NEW j \in Queued PROVE j \in Nat /\ requests[generation][j].id \in Calls
  <2>1. requests[generation] \in Seq(RequestFrame)
    BY <1>1 DEF Types
  <2>2. j \in Nat /\ requests[generation][j] \in RequestFrame
    BY <2>1 DEF Queued
  <2> QED
    BY <2>2 DEF RequestFrame
<1>6. Busy => work[generation].id \in Calls
  BY DEF PipeInv
<1> QED
  BY <1>1, <1>2, <1>3, <1>4, <1>5, <1>6

\* The first frame of the link is read.  What follows moves up.
LEMMA FirstFrameIsRead ==
    ASSUME Types, frames # <<>>, frames' = Tail(frames)
    PROVE  /\ Len(frames) \in Nat /\ Len(frames) >= 1 /\ Head(frames) = frames[1]
           /\ frames[1] \in HostFrame
           /\ \A k \in Replies' : k \in Nat /\ k >= 1 /\ k + 1 \in Replies /\ frames'[k] = frames[k + 1]
           /\ \A k \in Replies : k \in Nat /\ (k = 1 \/ (k - 1 \in Replies' /\ frames'[k - 1] = frames[k]))
<1>1. frames \in Seq(HostFrame)
  BY DEF Types
<1>2. /\ Len(frames) \in Nat /\ Len(frames) >= 1 /\ Head(frames) = frames[1] /\ frames[1] \in HostFrame
      /\ Len(frames') = Len(frames) - 1
      /\ \A k \in 1..(Len(frames) - 1) : frames'[k] = frames[k + 1]
  BY <1>1
<1>3. ASSUME NEW k \in Replies'
      PROVE  k \in Nat /\ k >= 1 /\ k + 1 \in Replies /\ frames'[k] = frames[k + 1]
  BY <1>2, <1>3 DEF Replies
<1>4. ASSUME NEW k \in Replies, k # 1 PROVE k - 1 \in Replies' /\ frames'[k - 1] = frames[k]
  <2>1. k \in 1..Len(frames) /\ k - 1 \in 1..(Len(frames) - 1) /\ (k - 1) + 1 = k
    BY <1>2, <1>4 DEF Replies
  <2>2. frames'[k - 1] = frames[k]
    BY <1>2, <2>1
  <2> QED
    BY <1>2, <2>1, <2>2 DEF Replies
<1> QED
  BY <1>2, <1>3, <1>4 DEF Replies

\* The first frame is read: what is left is under way as before, and the claims
\* on a chord stand if the frame that is read takes none of them away.
ReadsFirst ==
    /\ running /\ frames # <<>> /\ frames' = Tail(frames)
    /\ UNCHANGED <<os, mirror, work, foreign, raced, generation, running, requests>>
    /\ \A n \in Calls : /\ call'[n].op = call[n].op /\ call'[n].chord = call[n].chord
                        /\ call'[n].is = "uncalled" <=> call[n].is = "uncalled"
                        /\ call'[n] = call[n] \/ (1 \in Replies /\ n = frames[1].id)
    /\ \A c \in Chords : \/ bindings'[c] = bindings[c] \/ bindings'[c] = 0
                         \/ 1 \in Replies /\ call[frames[1].id].chord = c
                            /\ bindings'[c] = frames[1].id
    /\ \A c \in Chords : Lapsed(c) => Lapsed(c)'

LEMMA ReadKeeps ==
    ASSUME ShortcutBounds, ShortcutInv, ReadsFirst
    PROVE  LinkHolds'
<1> USE DEF ShortcutInv, LinkHolds
<1>0. /\ running
      /\ UNCHANGED <<os, mirror, work, foreign, raced, generation, running, requests>>
  BY DEF ReadsFirst
<1>1. /\ frames[1] \in HostFrame
      /\ \A k \in Replies' : k \in Nat /\ 1 < k + 1 /\ k + 1 \in Replies /\ frames'[k] = frames[k + 1]
  <2>1. /\ frames[1] \in HostFrame
        /\ \A k \in Replies' : k \in Nat /\ k >= 1 /\ k + 1 \in Replies /\ frames'[k] = frames[k + 1]
    BY FirstFrameIsRead DEF ReadsFirst
  <2>2. \A k \in Nat : k >= 1 => 1 < k + 1
    OBVIOUS
  <2> QED
    BY <2>1, <2>2
<1>2. Busy' = Busy /\ Queued' = Queued
  BY <1>0 DEF Busy, Queued
<1>3. LinkInv'
  BY <1>0 DEF LinkInv
<1>4. /\ \A i \in Calls : i \in Nat /\ i # 0
      /\ \A c \in Chords : bindings[c] \in Nat /\ (bindings[c] # 0 => bindings[c] \in Calls)
      /\ \A k \in Replies : k \in Nat /\ frames[k].id \in Calls
      /\ \A j \in Queued : j \in Nat /\ requests[generation][j].id \in Calls
      /\ Busy => work[generation].id \in Calls
  BY <1>0, IdsAreCalls
<1>5. ASSUME NEW k \in Replies'
      PROVE  /\ frames'[k].id = frames[k + 1].id /\ frames'[k].id \in Calls
             /\ call'[frames'[k].id] = call[frames[k + 1].id]
  <2> DEFINE n == frames[k + 1].id
  <2>1. k + 1 \in Replies /\ frames'[k] = frames[k + 1] /\ 1 < k + 1
    BY <1>1
  <2>2. 1 \in Replies => frames[1].id < n
    BY <1>0, <2>1 DEF PipeInv
  <2>3. n \in Calls /\ n \in Nat /\ (1 \in Replies => frames[1].id \in Nat)
    BY <1>4, <2>1
  <2>4. frames'[k].id = n
    BY <2>1
  <2> HIDE DEF n
  <2>5. 1 \in Replies => n # frames[1].id
    BY <2>2, <2>3
  <2>6. call'[n] = call[n]
    BY <2>3, <2>5 DEF ReadsFirst
  <2> QED
    BY <2>3, <2>4, <2>6 DEF n
<1>6. \A j \in Queued : call'[requests[generation][j].id] = call[requests[generation][j].id]
  <2>1. \A j \in Queued : 1 \in Replies => frames[1].id < requests[generation][j].id
    BY <1>0 DEF PipeInv
  <2> QED
    BY <1>4, <2>1 DEF ReadsFirst
<1>7. Busy => call'[work[generation].id] = call[work[generation].id]
  <2>1. Busy /\ 1 \in Replies => frames[1].id < work[generation].id
    BY <1>0 DEF PipeInv
  <2> QED
    BY <1>4, <2>1 DEF ReadsFirst
<1>8. PipeInv'
  <2>1. ASSUME NEW j \in Replies', NEW k \in Replies', j < k PROVE frames'[j].id < frames'[k].id
    <3>1. j + 1 \in Replies /\ k + 1 \in Replies /\ j + 1 < k + 1
      BY <1>1, <2>1
    <3> QED
      BY <1>0, <1>5, <3>1 DEF PipeInv
  <2>2. ASSUME NEW k \in Replies'
        PROVE  /\ frames'[k].id \in Calls /\ Open(call'[frames'[k].id])
               /\ call'[frames'[k].id].chord \in Chords
               /\ Busy => frames'[k].id < work[generation].id
               /\ \A j \in Queued : frames'[k].id < requests[generation][j].id
    <3>1. k + 1 \in Replies
      BY <1>1
    <3> QED
      BY <1>0, <1>5, <3>1 DEF PipeInv, Open
  <2>3. Busy => Asks(call'[work[generation].id], work[generation].op, work[generation].chord)
    BY <1>0, <1>7 DEF PipeInv, Asks, Open
  <2>4. \A j \in Queued : Asks(call'[requests[generation][j].id], requests[generation][j].op,
                               requests[generation][j].chord)
    BY <1>0, <1>6 DEF PipeInv, Asks, Open
  <2> QED
    BY <1>0, <1>2, <2>1, <2>2, <2>3, <2>4 DEF PipeInv
<1>9. LaterInv'
  <2>1. \A i, j \in Calls : i < j /\ call'[j].is # "uncalled" => call'[i].is # "uncalled"
    BY DEF LaterInv, ReadsFirst
  <2>2. ASSUME NEW c \in Chords
        PROVE  /\ bindings'[c] # 0 => call'[bindings'[c]].is # "uncalled"
               /\ \A k \in Replies' : bindings'[c] < frames'[k].id
               /\ Busy => bindings'[c] < work[generation].id
               /\ \A j \in Queued : bindings'[c] < requests[generation][j].id
    <3>1. CASE bindings'[c] = bindings[c]
      <4>1. bindings[c] # 0 => call'[bindings[c]].is # "uncalled"
        BY <1>0, <1>4 DEF LaterInv, ReadsFirst
      <4>2. \A k \in Replies' : bindings[c] < frames'[k].id
        BY <1>0, <1>1, <1>5 DEF LaterInv
      <4> QED
        BY <1>0, <3>1, <4>1, <4>2 DEF LaterInv
    <3>2. CASE bindings'[c] = 0
      <4>1. \A n \in Calls : 0 < n
        BY <1>4
      <4> QED
        BY <1>4, <1>5, <3>2, <4>1
    <3>3. CASE 1 \in Replies /\ bindings'[c] = frames[1].id
      <4>1. call'[frames[1].id].is # "uncalled"
        <5>1. frames[1].id \in Calls /\ call[frames[1].id].is # "uncalled"
          BY <1>0, <3>3 DEF PipeInv, Open
        <5> QED
          BY <5>1 DEF ReadsFirst
      <4>2. ASSUME NEW k \in Replies' PROVE frames[1].id < frames'[k].id
        <5>1. k + 1 \in Replies /\ 1 < k + 1
          BY <1>1
        <5> QED
          BY <1>0, <1>5, <3>3, <5>1 DEF PipeInv
      <4> QED
        BY <1>0, <3>3, <4>1, <4>2 DEF PipeInv
    <3> QED
      BY <3>1, <3>2, <3>3 DEF ReadsFirst
  <2> QED
    BY <1>0, <1>2, <2>1, <2>2 DEF LaterInv
<1>10. HeldInv'
  <2>1. ASSUME NEW c \in Chords, Touched(c)' PROVE Touched(c)
    <3>1. CASE bindings'[c] # 0
      <4>1. CASE bindings'[c] = bindings[c]
        BY <3>1, <4>1 DEF Touched
      <4>2. CASE 1 \in Replies /\ call[frames[1].id].chord = c
        BY <4>2 DEF Touched
      <4> QED
        BY <3>1, <4>1, <4>2 DEF ReadsFirst
    <3>2. CASE work'[generation'].chord = c
      BY <1>0, <3>2 DEF Touched
    <3>3. ASSUME NEW k \in Replies', call'[frames'[k].id].chord = c PROVE Touched(c)
      <4>1. k + 1 \in Replies /\ call[frames[k + 1].id].chord = c
        BY <1>1, <1>5, <3>3
      <4> QED
        BY <4>1 DEF Touched
    <3> QED
      BY <2>1, <3>1, <3>2, <3>3 DEF Touched
  <2>2. ASSUME NEW c \in Chords PROVE (Undone(c) => Undone(c)') /\ (Lapsed(c) => Lapsed(c)')
    BY <1>0 DEF Undone, WorksOn, ReadsFirst
  <2> QED
    BY <1>0, <2>1, <2>2 DEF HeldInv
<1> QED
  BY <1>3, <1>8, <1>9, <1>10

\* What is left under way claims what it claimed.
LEMMA ClaimsMoveUp ==
    ASSUME ShortcutBounds, ShortcutInv, running, frames # <<>>, frames' = Tail(frames),
           \A n \in Calls : call'[n].op = call[n].op /\ call'[n].chord = call[n].chord,
           NEW c \in Chords,
           \A k \in Replies : Grants(k, c) => \E j \in Replies : j > k /\ Revokes(j, c)
    PROVE  /\ \A k \in Replies' : Grants(k, c)' => \E j \in Replies' : j > k /\ Revokes(j, c)'
           /\ \A k \in Replies \ {1} : Revokes(k, c) => \E j \in Replies' : Revokes(j, c)'
<1>1. /\ \A k \in Replies' : k \in Nat /\ k >= 1 /\ k + 1 \in Replies /\ frames'[k] = frames[k + 1]
      /\ \A k \in Replies : k \in Nat /\ (k = 1 \/ (k - 1 \in Replies' /\ frames'[k - 1] = frames[k]))
  BY FirstFrameIsRead DEF ShortcutInv
<1>2. \A k \in Replies : frames[k].id \in Calls
  BY IdsAreCalls
<1>3. ASSUME NEW k \in Replies'
      PROVE  (Grants(k, c)' <=> Grants(k + 1, c)) /\ (Revokes(k, c)' <=> Revokes(k + 1, c))
  <2>1. k + 1 \in Replies /\ frames'[k] = frames[k + 1]
    BY <1>1
  <2>2. /\ call'[frames'[k].id].op = call[frames[k + 1].id].op
        /\ call'[frames'[k].id].chord = call[frames[k + 1].id].chord
    BY <1>2, <2>1
  <2> QED
    BY <2>1, <2>2 DEF Grants, Revokes
<1>4. ASSUME NEW k \in Replies, k # 1, Revokes(k, c)
      PROVE  k - 1 \in Replies' /\ Revokes(k - 1, c)'
  <2>1. k - 1 \in Replies' /\ (k - 1) + 1 = k
    BY <1>1, <1>4
  <2> QED
    BY <1>3, <1>4, <2>1
<1>5. ASSUME NEW k \in Replies', Grants(k, c)'
      PROVE  \E j \in Replies' : j > k /\ Revokes(j, c)'
  <2>1. k \in Nat /\ k + 1 \in Replies /\ Grants(k + 1, c)
    BY <1>1, <1>3, <1>5
  <2>2. PICK j \in Replies : j > k + 1 /\ Revokes(j, c)
    BY <2>1
  <2>3. j \in Nat /\ j # 1
    BY <1>1, <2>1, <2>2
  <2>4. j - 1 \in Replies' /\ Revokes(j - 1, c)' /\ j - 1 > k
    BY <1>4, <2>1, <2>2, <2>3
  <2> QED
    BY <2>4
<1> QED
  BY <1>4, <1>5

LEMMA AnswerKeeps == ASSUME ShortcutBounds, ShortcutInv, Answer PROVE LinkHolds'
<1> USE DEF ShortcutInv
<1> DEFINE i == frames[1].id
<1>1. /\ frames' = Tail(frames) /\ frames # <<>> /\ running
      /\ UNCHANGED <<os, mirror, work, foreign, raced, generation, running, requests>>
  BY DEF Answer, osVars
<1>2. Head(frames) = frames[1] /\ frames[1] \in HostFrame
  BY <1>1, FirstFrameIsRead
<1>3. 1 \in Replies
  <2>1. Len(frames) \in Nat /\ Len(frames) >= 1
    BY <1>1, FirstFrameIsRead
  <2> QED
    BY <1>2, <2>1 DEF Answer, Replies
<1>4. i \in Calls /\ call[i].chord \in Chords /\ Open(call[i])
  BY <1>1, <1>3 DEF PipeInv
<1>5. CASE call[i].is = "waiting"
  <2>1. \A n \in Calls : /\ call'[n].op = call[n].op /\ call'[n].chord = call[n].chord
                         /\ call'[n].is = "uncalled" <=> call[n].is = "uncalled"
                         /\ call'[n] = call[n] \/ n = i
                         /\ call[n].is = "expired" => call'[n] = call[n]
    <3>1. PICK is \in {"registered", "rejected"} : call' = [call EXCEPT ![i].is = is]
      BY <1>2, <1>5 DEF Answer
    <3>2. \A n \in Calls : n # i => call'[n] = call[n]
      BY <1>4, <3>1 DEF Types
    <3>3. call'[i].op = call[i].op /\ call'[i].chord = call[i].chord /\ call'[i].is = is
      BY <1>4, <3>1 DEF Types, CallState
    <3> QED
      BY <1>5, <3>2, <3>3
  <2>2. bindings' = [bindings EXCEPT ![call[i].chord] = Bound(i, frames[1].ok)]
    BY <1>2, <1>5 DEF Answer
  <2>3. /\ \A c \in Chords \ {call[i].chord} : bindings'[c] = bindings[c]
        /\ bindings'[call[i].chord] = Bound(i, frames[1].ok)
    BY <1>4, <2>2 DEF Types
  <2>4. ASSUME NEW c \in Chords
        PROVE  \/ bindings'[c] = bindings[c] \/ bindings'[c] = 0
               \/ call[i].chord = c /\ bindings'[c] = i
    BY <2>3 DEF Bound
  <2>5. ASSUME NEW c \in Chords, Lapsed(c) PROVE Lapsed(c)'
    <3>1. CASE WorksOn("unregister", c)
      BY <1>1, <3>1 DEF Lapsed, WorksOn
    <3>2. CASE ~WorksOn("unregister", c)
      <4>1. /\ \A k \in Replies : Grants(k, c) => \E j \in Replies : j > k /\ Revokes(j, c)
            /\ bindings[c] = 0 \/ MaybeReleased(c) \/ \E j \in Replies : Revokes(j, c)
        BY <2>5, <3>2 DEF Lapsed
      <4>2. /\ \A k \in Replies' : Grants(k, c)' => \E j \in Replies' : j > k /\ Revokes(j, c)'
            /\ \A k \in Replies \ {1} : Revokes(k, c) => \E j \in Replies' : Revokes(j, c)'
        BY <1>1, <2>1, <4>1, ClaimsMoveUp
      <4>3. bindings'[c] = 0 \/ MaybeReleased(c)' \/ \E j \in Replies' : Revokes(j, c)'
        <5>1. CASE c = call[i].chord /\ frames[1].ok /\ call[i].op = "register"
          <6>1. Grants(1, c)
            BY <1>3, <5>1 DEF Grants
          <6>2. PICK j \in Replies : j > 1 /\ Revokes(j, c)
            BY <1>3, <4>1, <6>1
          <6> QED
            BY <4>2, <6>2
        <5>2. CASE c = call[i].chord /\ frames[1].ok /\ call[i].op # "register"
          BY <2>3, <5>2 DEF Bound
        <5>3. CASE ~(c = call[i].chord /\ frames[1].ok)
          <6>1. bindings'[c] = bindings[c]
            BY <2>3, <5>3 DEF Bound
          <6>2. ~Revokes(1, c)
            BY <5>3 DEF Revokes
          <6>3. MaybeReleased(c) => MaybeReleased(c)'
            BY <2>1, <6>1 DEF MaybeReleased
          <6> QED
            BY <4>1, <4>2, <6>1, <6>2, <6>3
        <5> QED
          BY <5>1, <5>2, <5>3
      <4> QED
        BY <4>2, <4>3 DEF Lapsed
    <3> QED
      BY <3>1, <3>2
  <2> HIDE DEF i
  <2>6. \A n \in Calls : /\ call'[n].op = call[n].op /\ call'[n].chord = call[n].chord
                         /\ call'[n].is = "uncalled" <=> call[n].is = "uncalled"
                         /\ call'[n] = call[n] \/ (1 \in Replies /\ n = frames[1].id)
    BY <1>3, <2>1 DEF i
  <2>7. \A c \in Chords : \/ bindings'[c] = bindings[c] \/ bindings'[c] = 0
                          \/ 1 \in Replies /\ call[frames[1].id].chord = c
                             /\ bindings'[c] = frames[1].id
    BY <1>3, <2>4 DEF i
  <2> QED
    BY <1>1, <2>5, <2>6, <2>7, ReadKeeps DEF ReadsFirst
<1>6. CASE call[i].is # "waiting"
  <2>1. UNCHANGED <<bindings, call>> /\ call[i].is = "expired"
    BY <1>2, <1>4, <1>6 DEF Answer, Open
  <2>2. ASSUME NEW c \in Chords, Lapsed(c) PROVE Lapsed(c)'
    <3>1. CASE WorksOn("unregister", c)
      BY <1>1, <3>1 DEF Lapsed, WorksOn
    <3>2. CASE ~WorksOn("unregister", c)
      <4>1. /\ \A k \in Replies : Grants(k, c) => \E j \in Replies : j > k /\ Revokes(j, c)
            /\ bindings[c] = 0 \/ MaybeReleased(c) \/ \E j \in Replies : Revokes(j, c)
        BY <2>2, <3>2 DEF Lapsed
      <4>2. /\ \A k \in Replies' : Grants(k, c)' => \E j \in Replies' : j > k /\ Revokes(j, c)'
            /\ \A k \in Replies \ {1} : Revokes(k, c) => \E j \in Replies' : Revokes(j, c)'
        BY <1>1, <2>1, <4>1, ClaimsMoveUp
      <4>3. Revokes(1, c) => MaybeReleased(c)
        <5>1. bindings[c] < i /\ bindings[c] \in Nat /\ i \in Nat
          BY <1>1, <1>3, <1>4, IdsAreCalls DEF LaterInv
        <5> QED
          BY <1>4, <2>1, <5>1 DEF Revokes, MaybeReleased
      <4>4. MaybeReleased(c) => MaybeReleased(c)'
        BY <2>1 DEF MaybeReleased
      <4> QED
        BY <2>1, <4>1, <4>2, <4>3, <4>4 DEF Lapsed
    <3> QED
      BY <3>1, <3>2
  <2> QED
    BY <1>1, <2>1, <2>2, ReadKeeps DEF ReadsFirst
<1> QED
  BY <1>5, <1>6

\* A press is read: none of the answers is lost or gained.
LEMMA DispatchKeeps == ASSUME ShortcutBounds, ShortcutInv, Dispatch PROVE LinkHolds'
<1>1. /\ frames' = Tail(frames) /\ frames # <<>> /\ running
      /\ UNCHANGED <<os, mirror, work, foreign, raced, generation, running, requests, call, bindings>>
  BY DEF Dispatch, osVars, hostVars
<1>2. 1 \notin Replies
  BY <1>1, FirstFrameIsRead DEF ShortcutInv, Dispatch, Replies
<1>3. ASSUME NEW c \in Chords, Lapsed(c) PROVE Lapsed(c)'
  <2>1. CASE WorksOn("unregister", c)
    BY <1>1, <2>1 DEF Lapsed, WorksOn
  <2>2. CASE ~WorksOn("unregister", c)
    <3>1. /\ \A k \in Replies : Grants(k, c) => \E j \in Replies : j > k /\ Revokes(j, c)
          /\ bindings[c] = 0 \/ MaybeReleased(c) \/ \E j \in Replies : Revokes(j, c)
      BY <1>3, <2>2 DEF Lapsed
    <3>2. /\ \A k \in Replies' : Grants(k, c)' => \E j \in Replies' : j > k /\ Revokes(j, c)'
          /\ \A k \in Replies \ {1} : Revokes(k, c) => \E j \in Replies' : Revokes(j, c)'
      BY <1>1, <3>1, ClaimsMoveUp
    <3>3. MaybeReleased(c) => MaybeReleased(c)'
      BY <1>1 DEF MaybeReleased
    <3> QED
      BY <1>1, <1>2, <3>1, <3>2, <3>3 DEF Lapsed
  <2> QED
    BY <2>1, <2>2
<1> QED
  BY <1>1, <1>3, ReadKeeps DEF ReadsFirst

\* A call times out: it is under way as before.
LEMMA ExpireKeeps ==
    ASSUME ShortcutBounds, ShortcutInv, NEW i \in Calls, Expire(i) PROVE LinkHolds'
<1> USE DEF ShortcutInv, LinkHolds
<1>1. /\ running /\ call[i].is = "waiting"
      /\ UNCHANGED <<os, mirror, work, foreign, raced, generation, running, frames, bindings, requests>>
  BY DEF Expire, osVars
<1>2. \A n \in Calls : /\ call'[n].op = call[n].op /\ call'[n].chord = call[n].chord
                       /\ Open(call'[n]) <=> Open(call[n])
                       /\ call'[n].is = "uncalled" <=> call[n].is = "uncalled"
                       /\ call[n].is = "expired" => call'[n].is = "expired"
  BY <1>1 DEF Expire, Types, CallState, Open
<1>3. /\ \A c \in Chords : bindings[c] # 0 => bindings[c] \in Calls
      /\ \A k \in Replies : frames[k].id \in Calls
      /\ \A j \in Queued : requests[generation][j].id \in Calls
      /\ Busy => work[generation].id \in Calls
  BY <1>1, IdsAreCalls
<1>4. Busy' = Busy /\ Queued' = Queued /\ Replies' = Replies
  BY <1>1 DEF Busy, Queued, Replies
<1>5. LinkInv'
  BY <1>1 DEF LinkInv
<1>6. PipeInv'
  BY <1>1, <1>2, <1>3, <1>4 DEF PipeInv, Asks
<1>7. LaterInv'
  BY <1>1, <1>2, <1>3, <1>4 DEF LaterInv
<1>8. ASSUME NEW c \in Chords
      PROVE  (Touched(c)' => Touched(c)) /\ (Undone(c) => Undone(c)') /\ (Lapsed(c) => Lapsed(c)')
  <2>1. Touched(c)' => Touched(c)
    BY <1>1, <1>2, <1>3, <1>4 DEF Touched
  <2>2. \A k \in Replies : (Grants(k, c)' <=> Grants(k, c)) /\ (Revokes(k, c)' <=> Revokes(k, c))
    BY <1>1, <1>2, <1>3, <1>4 DEF Grants, Revokes
  <2>3. MaybeReleased(c) => MaybeReleased(c)'
    BY <1>1, <1>2 DEF MaybeReleased
  <2>4. \A op \in Ops : WorksOn(op, c)' <=> WorksOn(op, c)
    BY <1>1 DEF WorksOn
  <2>5. Lapsed(c) => Lapsed(c)'
    BY <1>1, <1>4, <2>2, <2>3, <2>4 DEF Lapsed, Ops
  <2> QED
    BY <2>1, <2>4, <2>5 DEF Undone, Ops
<1>9. HeldInv'
  BY <1>1, <1>8 DEF HeldInv
<1> QED
  BY <1>5, <1>6, <1>7, <1>9

\* A call waits, behind those that wait already; or it is told at once.
LEMMA CallKeeps ==
    ASSUME ShortcutBounds, ShortcutInv, NEW i \in Calls, Call(i) PROVE LinkHolds'
<1> USE DEF ShortcutInv, LinkHolds
<1>1. /\ running /\ call[i].is = "uncalled" /\ generation \in Generations
      /\ \A j \in Calls : j < i => call[j].is # "uncalled"
      /\ UNCHANGED <<os, mirror, work, foreign, raced, generation, running, frames, bindings>>
  BY DEF Call, osVars, LinkInv
<1>2. /\ \A n \in Calls \ {i} : call'[n] = call[n]
      /\ call'[i].is \in {"waiting", "no-shell"}
  BY DEF Call, Types
<1>3. /\ \A n \in Calls : n \in Nat /\ n # 0
      /\ \A c \in Chords : bindings[c] \in Nat /\ (bindings[c] # 0 => bindings[c] \in Calls)
      /\ \A k \in Replies : k \in Nat /\ frames[k].id \in Calls
      /\ \A j \in Queued : j \in Nat /\ requests[generation][j].id \in Calls
      /\ Busy => work[generation].id \in Calls
  BY <1>1, IdsAreCalls
<1>4. \A n \in Calls : call[n].is # "uncalled" => n < i
  BY <1>1, <1>3 DEF LaterInv
<1>5. /\ \A k \in Replies : frames[k].id < i /\ frames[k].id # i
      /\ Busy => work[generation].id < i /\ work[generation].id # i
      /\ \A j \in Queued : requests[generation][j].id < i /\ requests[generation][j].id # i
      /\ \A c \in Chords : bindings[c] < i /\ bindings[c] # i
  <2>1. \A n \in Calls : Open(call[n]) => n < i /\ n # i
    BY <1>1, <1>4 DEF Open
  <2>2. \A j \in Queued : Open(call[requests[generation][j].id])
    BY <1>1 DEF PipeInv, Asks
  <2>3. \A k \in Replies : Open(call[frames[k].id])
    BY <1>1 DEF PipeInv
  <2>4. Busy => Open(call[work[generation].id])
    BY <1>1 DEF PipeInv, Asks
  <2>5. \A c \in Chords : bindings[c] < i /\ bindings[c] # i
    BY <1>1, <1>3, <1>4 DEF LaterInv
  <2> QED
    BY <1>3, <2>1, <2>2, <2>3, <2>4, <2>5
<1>6. Busy' = Busy /\ Replies' = Replies
  BY <1>1 DEF Busy, Replies
<1>7. HeldInv'
  <2>1. ASSUME NEW c \in Chords, NEW k \in Replies
        PROVE  (Grants(k, c)' <=> Grants(k, c)) /\ (Revokes(k, c)' <=> Revokes(k, c))
               /\ (call'[frames[k].id].chord = call[frames[k].id].chord)
    BY <1>1, <1>2, <1>3, <1>5, <1>6 DEF Grants, Revokes
  <2>2. ASSUME NEW c \in Chords
        PROVE  (Touched(c)' => Touched(c)) /\ (Undone(c) => Undone(c)') /\ (Lapsed(c) => Lapsed(c)')
    <3>1. \A op \in Ops : WorksOn(op, c)' <=> WorksOn(op, c)
      BY <1>1 DEF WorksOn
    <3>2. Touched(c)' => Touched(c)
      BY <1>1, <1>6, <2>1 DEF Touched
    <3>3. MaybeReleased(c) => MaybeReleased(c)'
      BY <1>1, <1>2 DEF MaybeReleased
    <3>4. Lapsed(c) => Lapsed(c)'
      BY <1>1, <1>6, <2>1, <3>1, <3>3 DEF Lapsed, Ops
    <3> QED
      BY <3>1, <3>2, <3>4 DEF Undone, Ops
  <2> QED
    BY <1>1, <2>2 DEF HeldInv
<1>8. \A m, n \in Calls : m < n /\ call'[n].is # "uncalled" => call'[m].is # "uncalled"
  BY <1>1, <1>2, <1>3 DEF LaterInv
<1>9. /\ \A k \in Replies : call'[frames[k].id] = call[frames[k].id]
      /\ Busy => call'[work[generation].id] = call[work[generation].id]
      /\ \A j \in Queued : call'[requests[generation][j].id] = call[requests[generation][j].id]
      /\ \A c \in Chords : bindings[c] # 0 => call'[bindings[c]] = call[bindings[c]]
  BY <1>2, <1>3, <1>5
<1>10. CASE requests' = requests
  <2>1. LinkInv'
    BY <1>1, <1>10 DEF LinkInv
  <2>2. Queued' = Queued
    BY <1>1, <1>10 DEF Queued
  <2>3. PipeInv'
    BY <1>1, <1>6, <1>9, <1>10, <2>2 DEF PipeInv, Asks, Open
  <2>4. LaterInv'
    BY <1>1, <1>6, <1>8, <1>9, <1>10, <2>2 DEF LaterInv
  <2> QED
    BY <1>7, <2>1, <2>3, <2>4
<1>11. CASE requests' # requests
  <2>1. PICK op \in Ops, chord \in Chords :
           /\ call' = [call EXCEPT ![i] = [op |-> op, chord |-> chord, is |-> "waiting"]]
           /\ requests' = [requests EXCEPT ![generation] =
                              Append(requests[generation], [op |-> op, chord |-> chord, id |-> i])]
    BY <1>11 DEF Call
  <2> DEFINE q == requests[generation]
             new == [op |-> op, chord |-> chord, id |-> i]
  <2>2. /\ requests'[generation'] = Append(q, new) /\ Len(q) \in Nat
        /\ Len(Append(q, new)) = Len(q) + 1
        /\ Append(q, new)[Len(q) + 1] = new
        /\ \A j \in 1..Len(q) : Append(q, new)[j] = q[j]
    <3>1. q \in Seq(RequestFrame) /\ new \in RequestFrame
      BY <1>1 DEF Types, RequestFrame
    <3>2. requests'[generation'] = Append(q, new)
      BY <1>1, <2>1 DEF Types
    <3> HIDE DEF q, new
    <3> QED
      BY <3>1, <3>2
  <2>3. call'[i].op = op /\ call'[i].chord = chord /\ call'[i].is = "waiting"
    BY <2>1 DEF Types
  <2>4. LinkInv'
    BY <1>1, <2>1 DEF LinkInv, Types, Generations, ShortcutBounds
  <2> DEFINE q2 == requests'[generation']
             last == Len(q) + 1
  <2>5. ASSUME NEW j \in Queued'
        PROVE  \/ j \in Queued /\ q2[j] = q[j] /\ j < last
               \/ j = last /\ q2[j] = new
    BY <2>2 DEF Queued
  <2>6. new.id = i /\ new.op = op /\ new.chord = chord
    OBVIOUS
  <2>7. last \in Nat /\ \A j \in Queued : j \in Nat /\ j < last
    BY <2>2, <1>3 DEF Queued
  <2> HIDE DEF q2, new, last
  <2>8. \A j \in Queued : /\ q[j].id < i /\ Asks(call'[q[j].id], q[j].op, q[j].chord)
                          /\ Busy => work[generation].id < q[j].id
                          /\ \A k \in Replies : frames[k].id < q[j].id
                          /\ \A c \in Chords : bindings[c] < q[j].id
    BY <1>1, <1>5, <1>9 DEF PipeInv, LaterInv, Asks, Open
  <2>9. ASSUME NEW j \in Queued'
        PROVE  /\ Asks(call'[q2[j].id], q2[j].op, q2[j].chord)
               /\ Busy => work[generation].id < q2[j].id
               /\ \A k \in Replies : frames[k].id < q2[j].id
               /\ \A c \in Chords : bindings[c] < q2[j].id
    <3>1. CASE q2[j] = new
      BY <1>5, <2>3, <2>6, <3>1 DEF Asks, Open
    <3>2. CASE j \in Queued /\ q2[j] = q[j]
      BY <2>8, <3>2 DEF Asks, Open
    <3> QED
      BY <2>5, <3>1, <3>2
  <2>10. ASSUME NEW j \in Queued', NEW k \in Queued', j < k PROVE q2[j].id < q2[k].id
    <3>1. CASE j \in Queued /\ q2[j] = q[j] /\ k \in Queued /\ q2[k] = q[k]
      BY <1>1, <2>10, <3>1 DEF PipeInv
    <3>2. CASE j \in Queued /\ q2[j] = q[j] /\ k = last /\ q2[k] = new
      BY <2>6, <2>8, <3>2
    <3>3. CASE j = last
      BY <2>5, <2>7, <2>10, <3>3
    <3> QED
      BY <2>5, <3>1, <3>2, <3>3
  <2>11. PipeInv'
    <3>1. /\ \A k \in Replies : /\ frames[k].id \in Calls /\ Open(call'[frames[k].id])
                                /\ call'[frames[k].id].chord \in Chords
          /\ \A j, k \in Replies : j < k => frames[j].id < frames[k].id
      BY <1>1, <1>9 DEF PipeInv, Open
    <3>2. Busy => /\ work[generation].id \in Calls
                  /\ Asks(call'[work[generation].id], work[generation].op, work[generation].chord)
                  /\ \A k \in Replies : frames[k].id < work[generation].id
      BY <1>1, <1>9 DEF PipeInv, Asks, Open
    <3> HIDE DEF Queued, Replies, Busy
    <3> QED
      BY <1>1, <1>6, <2>9, <2>10, <3>1, <3>2 DEF PipeInv, q2
  <2>12. LaterInv'
    <3>1. \A c \in Chords : bindings[c] # 0 => call'[bindings[c]].is # "uncalled"
      BY <1>1, <1>9 DEF LaterInv
    <3>2. \A c \in Chords : /\ \A k \in Replies : bindings[c] < frames[k].id
                            /\ Busy => bindings[c] < work[generation].id
      BY <1>1 DEF LaterInv
    <3> HIDE DEF Queued, Replies, Busy
    <3> QED
      BY <1>1, <1>6, <1>8, <2>9, <3>1, <3>2 DEF LaterInv, q2
  <2> QED
    BY <1>7, <2>4, <2>11, <2>12
<1> QED
  BY <1>10, <1>11

\* Whoever else asks about a chord, the host has no claim on it then.
LEMMA AskedElsewhere ==
    ASSUME ShortcutBounds, ShortcutInv, NEW w \in Workers, work[w].at = "idle", w # generation,
           NEW op \in Ops, NEW chord \in Chords, NEW id \in Calls \cup {0},
           AskOs(w, op, chord, id), running,
           UNCHANGED <<mirror, generation, running, bindings, call, frames>>,
           requests'[generation] = requests[generation]
    PROVE  PipeInv' /\ LaterInv' /\ HeldInv'
<1> USE DEF ShortcutInv
<1>1. PICK task \in Task :
         /\ work' = [work EXCEPT ![w] = task] /\ task.at = "asked" /\ task.chord = chord
         /\ \A c \in Chords \ {chord} : c \in os' <=> c \in os
  BY AskOsDoes
<1>2. work'[w] = task /\ \A v \in Workers \ {w} : work'[v] = work[v]
  BY <1>1 DEF Types
<1>3. generation \in Workers /\ work'[generation] = work[generation]
  BY <1>2 DEF LinkInv, Workers
<1>4. Busy' = Busy /\ Queued' = Queued /\ Replies' = Replies
  BY <1>3 DEF Busy, Queued, Replies
<1>5. PipeInv' /\ LaterInv'
  BY <1>3, <1>4 DEF PipeInv, LaterInv, Asks, Open
<1>6. foreign' = foreign \cup {chord} /\ raced \subseteq raced'
  BY DEF AskOs
<1>7. ASSUME NEW c \in Chords
      PROVE  (Touched(c)' <=> Touched(c)) /\ (Undone(c)' <=> Undone(c)) /\ (Lapsed(c)' <=> Lapsed(c))
  BY <1>3, <1>4 DEF Touched, Undone, Lapsed, MaybeReleased, WorksOn, Grants, Revokes
<1>8. ASSUME NEW c \in Chords \ (foreign' \cup raced')
      PROVE  /\ Touched(c)' => \A v \in Workers \ {generation} : work'[v].chord # c
             /\ c \in os' \/ Undone(c)'
             /\ c \in mirror' \/ Lapsed(c)'
  <2>1. c # chord /\ c \in Chords \ (foreign \cup raced)
    BY <1>6
  <2> QED
    BY <1>1, <1>2, <1>7, <2>1 DEF HeldInv
<1> QED
  BY <1>5, <1>8 DEF HeldInv

\* The reader of the host's own link does.
LEMMA AskedByHost ==
    ASSUME ShortcutBounds, ShortcutInv, NEW g \in Generations, Serve(g), running, g = generation
    PROVE  PipeInv' /\ LaterInv' /\ HeldInv'
<1> USE DEF ShortcutInv
<1> DEFINE q == requests[g]
           request == Head(q)
<1>1. /\ UNCHANGED <<mirror, generation, running, bindings, call, frames>>
      /\ work[g].at = "idle" /\ q # <<>>
      /\ AskOs(g, request.op, request.chord, request.id)
      /\ requests' = [requests EXCEPT ![g] = Tail(q)]
  BY DEF Serve, hostVars
<1>2. /\ g \in Workers /\ request \in RequestFrame /\ request.op \in Ops
      /\ request.chord \in Chords /\ request.id \in Calls
  BY ServeDoes
<1>3. /\ q \in Seq(RequestFrame) /\ Len(q) \in Nat /\ Len(q) >= 1 /\ request = q[1]
      /\ requests'[g] = Tail(q) /\ Len(Tail(q)) = Len(q) - 1
      /\ \A j \in 1..(Len(q) - 1) : Tail(q)[j] = q[j + 1]
  BY <1>1 DEF Types
<1> HIDE DEF q, request
<1>4. PICK task \in Task :
         /\ work' = [work EXCEPT ![g] = task] /\ task.at = "asked"
         /\ task.op = request.op /\ task.chord = request.chord /\ task.id = request.id
         /\ \A c \in Chords \ {request.chord} : c \in os' <=> c \in os
         /\ task.ok => (request.chord \in os' <=> request.op = "register")
         /\ ~task.ok => (request.chord \in os' <=> request.chord \in os)
  BY <1>1, <1>2, AskOsDoes
<1>5. work'[g] = task /\ \A v \in Workers \ {g} : work'[v] = work[v]
  BY <1>2, <1>4 DEF Types
<1>6. Busy' /\ ~Busy /\ Replies' = Replies
  BY <1>1, <1>4, <1>5 DEF Busy, Replies
<1>7. 1 \in Queued /\ Queued = 1..Len(q)
  BY <1>3 DEF Queued, q
<1>8. ASSUME NEW j \in Queued'
      PROVE  j + 1 \in Queued /\ 1 < j + 1 /\ requests'[g][j] = q[j + 1] /\ j \in Nat
  <2>1. j \in 1..(Len(q) - 1)
    BY <1>1, <1>3 DEF Queued
  <2> QED
    BY <1>3, <1>7, <2>1
<1>9. /\ Asks(call[request.id], request.op, request.chord)
      /\ \A k \in Replies : frames[k].id < request.id
      /\ \A c \in Chords : bindings[c] < request.id
  BY <1>3, <1>7 DEF PipeInv, LaterInv, q
<1>10. ASSUME NEW j \in Queued'
       PROVE  /\ request.id < requests'[g][j].id
              /\ Asks(call[requests'[g][j].id], requests'[g][j].op, requests'[g][j].chord)
              /\ \A k \in Replies : frames[k].id < requests'[g][j].id
              /\ \A c \in Chords : bindings[c] < requests'[g][j].id
  <2>1. j + 1 \in Queued /\ 1 < j + 1 /\ requests'[g][j] = q[j + 1]
    BY <1>8
  <2>2. /\ q[1].id < q[j + 1].id
        /\ Asks(call[q[j + 1].id], q[j + 1].op, q[j + 1].chord)
        /\ \A k \in Replies : frames[k].id < q[j + 1].id
        /\ \A c \in Chords : bindings[c] < q[j + 1].id
    BY <1>7, <2>1 DEF PipeInv, LaterInv, q
  <2> QED
    BY <1>3, <2>1, <2>2
<1>11. work'[generation'] = task /\ requests'[generation'] = requests'[g]
  BY <1>1, <1>5
<1>12. PipeInv'
  <2>1. ASSUME NEW j \in Queued', NEW k \in Queued', j < k
        PROVE  requests'[g][j].id < requests'[g][k].id
    <3>1. /\ j + 1 \in Queued /\ requests'[g][j] = q[j + 1] /\ j \in Nat
          /\ k + 1 \in Queued /\ requests'[g][k] = q[k + 1] /\ k \in Nat
      BY <1>8
    <3>2. j + 1 < k + 1
      BY <2>1, <3>1
    <3> QED
      BY <3>1, <3>2 DEF PipeInv, q
  <2>2. /\ \A k \in Replies : /\ frames[k].id \in Calls /\ Open(call[frames[k].id])
                              /\ call[frames[k].id].chord \in Chords
        /\ \A j, k \in Replies : j < k => frames[j].id < frames[k].id
    BY DEF PipeInv
  <2>3. /\ task.id \in Calls
        /\ Asks(call[task.id], task.op, task.chord)
        /\ \A k \in Replies : frames[k].id < task.id
        /\ \A j \in Queued' : task.id < requests'[g][j].id
    BY <1>2, <1>4, <1>9, <1>10
  <2> HIDE DEF Replies, Queued, Busy
  <2>6. /\ \A k \in Replies' : /\ frames'[k].id \in Calls /\ Open(call'[frames'[k].id])
                               /\ call'[frames'[k].id].chord \in Chords
        /\ \A j, k \in Replies' : j < k => frames'[j].id < frames'[k].id
    BY <1>1, <1>6, <2>2
  <2>7. /\ work'[generation'].id \in Calls
        /\ Asks(call'[work'[generation'].id], work'[generation'].op, work'[generation'].chord)
        /\ \A k \in Replies' : frames'[k].id < work'[generation'].id
        /\ \A j \in Queued' : work'[generation'].id < requests'[generation'][j].id
    BY <1>1, <1>6, <1>11, <2>3
  <2>8. /\ \A j \in Queued' :
              Asks(call'[requests'[generation'][j].id], requests'[generation'][j].op,
                   requests'[generation'][j].chord)
        /\ \A j \in Queued', k \in Replies' : frames'[k].id < requests'[generation'][j].id
    BY <1>1, <1>6, <1>10, <1>11
  <2>9. \A j, k \in Queued' : j < k =>
               requests'[generation'][j].id < requests'[generation'][k].id
    BY <1>11, <2>1
  <2> QED
    BY <2>6, <2>7, <2>8, <2>9, Zenon DEF PipeInv
<1>13. LaterInv'
  <2>1. \A c \in Chords : /\ bindings[c] # 0 => call[bindings[c]].is # "uncalled"
                          /\ \A k \in Replies : bindings[c] < frames[k].id
                          /\ bindings[c] < task.id
                          /\ \A j \in Queued' : bindings[c] < requests'[g][j].id
    BY <1>4, <1>9, <1>10 DEF LaterInv
  <2> HIDE DEF Replies, Queued, Busy
  <2> QED
    BY <1>1, <1>6, <1>11, <2>1 DEF LaterInv
<1>14. work[g].chord \notin Chords
  BY <1>1, <1>2, IdleHasNoChord
<1>15. /\ foreign' = foreign /\ raced \subseteq raced'
       /\ request.chord \notin raced' => \A v \in Workers \ {g} : work[v].chord # request.chord
  BY <1>1 DEF AskOs
<1>16. ASSUME NEW c \in Chords, NEW k \in Replies
       PROVE  (Grants(k, c)' <=> Grants(k, c)) /\ (Revokes(k, c)' <=> Revokes(k, c))
  BY <1>1, <1>6 DEF Grants, Revokes
<1>17. ASSUME NEW c \in Chords \ (foreign' \cup raced'), Touched(c)'
       PROVE  \A v \in Workers \ {generation'} : work'[v].chord # c
  <2>1. CASE c = request.chord
    BY <1>1, <1>5, <1>15, <2>1
  <2>2. CASE c # request.chord
    <3>1. Touched(c)
      BY <1>1, <1>4, <1>5, <1>6, <1>17, <2>2 DEF Touched
    <3> QED
      BY <1>1, <1>5, <1>15, <3>1 DEF HeldInv
  <2> QED
    BY <2>1, <2>2
<1>18. ASSUME NEW c \in Chords, Lapsed(c) PROVE Lapsed(c)'
  <2>1. ~WorksOn("unregister", c)
    BY <1>14 DEF WorksOn
  <2>2. MaybeReleased(c)' <=> MaybeReleased(c)
    BY <1>1 DEF MaybeReleased
  <2> QED
    BY <1>1, <1>6, <1>16, <1>18, <2>1, <2>2 DEF Lapsed
<1>19. ASSUME NEW c \in Chords \ (foreign' \cup raced') PROVE c \in mirror' \/ Lapsed(c)'
  BY <1>1, <1>15, <1>18 DEF HeldInv
<1>20. ASSUME NEW c \in Chords \ (foreign' \cup raced'), c \notin os' PROVE Undone(c)'
  <2>1. c \notin os => Lapsed(c)'
    BY <1>15, <1>18 DEF HeldInv, Undone
  <2>2. WorksOn("register", c)' => c = request.chord /\ task.ok /\ request.op = "register"
    BY <1>1, <1>4, <1>5 DEF WorksOn
  <2>3. CASE c # request.chord
    BY <1>4, <1>20, <2>1, <2>2, <2>3 DEF Undone
  <2>4. CASE c = request.chord /\ ~task.ok
    BY <1>4, <1>20, <2>1, <2>2, <2>4 DEF Undone
  <2>5. CASE c = request.chord /\ task.ok
    <3>1. request.op = "unregister"
      BY <1>2, <1>4, <1>20, <2>5 DEF Ops
    <3>2. WorksOn("unregister", c)'
      BY <1>1, <1>4, <1>5, <2>5, <3>1 DEF WorksOn
    <3> QED
      BY <2>2, <3>1, <3>2 DEF Undone, Lapsed
  <2> QED
    BY <2>3, <2>4, <2>5
<1> QED
  BY <1>12, <1>13, <1>17, <1>19, <1>20 DEF HeldInv

\* What happens outside of what the host has under way.
LEMMA OutsideKeeps ==
    ASSUME ShortcutBounds, ShortcutInv, foreign \subseteq foreign', raced \subseteq raced',
           UNCHANGED <<os, generation, running, bindings, call, frames, requests>>,
           \A c \in Chords \ (foreign' \cup raced') : c \in mirror /\ Touched(c) => c \in mirror',
           /\ work'[generation].at = "idle" <=> work[generation].at = "idle"
           /\ work'[generation].op = work[generation].op
           /\ work'[generation].chord = work[generation].chord
           /\ work'[generation].id = work[generation].id
           /\ work'[generation].ok = work[generation].ok,
           \A v \in Workers : work'[v].chord \in Chords => work'[v].chord = work[v].chord
    PROVE  PipeInv' /\ LaterInv' /\ HeldInv'
<1> USE DEF ShortcutInv
<1>1. Busy' = Busy /\ Queued' = Queued /\ Replies' = Replies
  BY DEF Busy, Queued, Replies
<1>2. PipeInv' /\ LaterInv'
  BY <1>1 DEF PipeInv, LaterInv, Asks, Open
<1>3. ASSUME NEW c \in Chords
      PROVE  (Touched(c)' <=> Touched(c)) /\ (Undone(c)' <=> Undone(c)) /\ (Lapsed(c)' <=> Lapsed(c))
  BY <1>1 DEF Touched, Undone, Lapsed, MaybeReleased, WorksOn, Grants, Revokes
<1>4. ASSUME NEW c \in Chords PROVE ~Touched(c) => Lapsed(c)
  BY DEF Touched, Lapsed, Grants
<1>5. HeldInv'
  BY <1>3, <1>4 DEF HeldInv
<1> QED
  BY <1>2, <1>5

\* A frame is written behind the others.
LEMMA FrameIsWritten ==
    ASSUME Types, NEW frame \in HostFrame, frames' = Append(frames, frame)
    PROVE  /\ Len(frames) \in Nat /\ Len(frames') = Len(frames) + 1
           /\ frames'[Len(frames) + 1] = frame
           /\ \A k \in 1..Len(frames) : frames'[k] = frames[k]
           /\ frame.press # NoChord => Replies' = Replies
           /\ frame.press = NoChord => Replies' = Replies \cup {Len(frames) + 1}
           /\ \A k \in Replies : k \in Nat /\ k <= Len(frames) /\ frames'[k] = frames[k]
<1>1. frames \in Seq(HostFrame)
  BY DEF Types
<1>2. /\ Len(frames) \in Nat /\ Len(frames') = Len(frames) + 1
      /\ frames'[Len(frames) + 1] = frame
      /\ \A k \in 1..Len(frames) : frames'[k] = frames[k]
  BY <1>1
<1>3. 1..Len(frames') = 1..Len(frames) \cup {Len(frames) + 1}
  BY <1>2
<1> QED
  BY <1>2, <1>3 DEF Replies

LEMMA NotifyKeeps == ASSUME ShortcutBounds, ShortcutInv, Notify PROVE LinkHolds'
<1> USE DEF ShortcutInv, LinkHolds
<1>1. UNCHANGED <<os, mirror, work, foreign, raced, generation, running, bindings, call, requests>>
  BY DEF Notify, osVars, hostVars
<1>2. CASE ~running
  <2>1. frames' = frames
    BY <1>2 DEF Notify
  <2> QED
    BY <1>1, <1>2, <2>1 DEF LinkInv, PipeInv, LaterInv, HeldInv
<1>3. CASE running
  <2> DEFINE frame == [press |-> routed, id |-> 0, ok |-> TRUE]
  <2>1. frame \in HostFrame /\ frame.press # NoChord /\ frames' = Append(frames, frame)
    BY <1>3 DEF Notify, Types, HostFrame
  <2> HIDE DEF frame
  <2>2. Replies' = Replies /\ \A k \in Replies : frames'[k] = frames[k]
    BY <2>1, FrameIsWritten
  <2>3. Busy' = Busy /\ Queued' = Queued
    BY <1>1 DEF Busy, Queued
  <2>4. LinkInv'
    BY <1>1, <1>3 DEF LinkInv
  <2>5. PipeInv' /\ LaterInv'
    BY <1>1, <1>3, <2>2, <2>3 DEF PipeInv, LaterInv, Asks, Open
  <2>6. ASSUME NEW c \in Chords, NEW k \in Replies
        PROVE  (Grants(k, c)' <=> Grants(k, c)) /\ (Revokes(k, c)' <=> Revokes(k, c))
    BY <1>1, <2>2 DEF Grants, Revokes
  <2>7. ASSUME NEW c \in Chords
        PROVE  /\ Touched(c)' <=> Touched(c)
               /\ (Undone(c)' <=> Undone(c)) /\ (Lapsed(c)' <=> Lapsed(c))
    <3>1. Touched(c)' <=> Touched(c)
      BY <1>1, <2>2 DEF Touched
    <3>2. \A op \in Ops : WorksOn(op, c)' <=> WorksOn(op, c)
      BY <1>1 DEF WorksOn
    <3>3. MaybeReleased(c)' <=> MaybeReleased(c)
      BY <1>1 DEF MaybeReleased
    <3>4. Lapsed(c)' <=> Lapsed(c)
      BY <1>1, <2>2, <2>6, <3>2, <3>3 DEF Lapsed, Ops
    <3> QED
      BY <3>1, <3>2, <3>4 DEF Undone, Ops
  <2>8. HeldInv'
    BY <1>1, <2>7 DEF HeldInv
  <2> QED
    BY <2>4, <2>5, <2>8
<1> QED
  BY <1>2, <1>3

LEMMA CloseKeeps == ASSUME ShortcutBounds, ShortcutInv, Close PROVE LinkHolds'
<1> USE DEF ShortcutInv, LinkHolds
<1>1. /\ UNCHANGED <<os, mirror, work, foreign, raced, generation, running, call, requests, frames>>
      /\ running /\ bindings' = [c \in Chords |-> 0]
  BY DEF Close, osVars
<1>2. Busy' = Busy /\ Queued' = Queued /\ Replies' = Replies
  BY <1>1 DEF Busy, Queued, Replies
<1>3. LinkInv' /\ PipeInv'
  BY <1>1, <1>2 DEF LinkInv, PipeInv, Asks, Open
<1>4. LaterInv'
  <2>1. \A i \in Calls : i \in Nat /\ i # 0 => 0 < i
    OBVIOUS
  <2> QED
    BY <1>1, <1>2, <2>1, IdsAreCalls DEF LaterInv
<1>5. ASSUME NEW c \in Chords
      PROVE  /\ Touched(c)' => Touched(c)
             /\ (Undone(c) => Undone(c)') /\ (Lapsed(c) => Lapsed(c)')
  BY <1>1, <1>2 DEF Touched, Undone, Lapsed, WorksOn, Grants, Revokes
<1>6. HeldInv'
  BY <1>1, <1>5 DEF HeldInv
<1> QED
  BY <1>3, <1>4, <1>6

LEMMA DieKeeps == ASSUME ShortcutBounds, ShortcutInv, Die PROVE LinkHolds'
<1>1. \A i \in Calls : call'[i].is = "uncalled" <=> call[i].is = "uncalled"
  BY DEF ShortcutInv, Types, CallState, Die
<1>2. LaterInv'
  BY <1>1 DEF ShortcutInv, LaterInv, Die
<1>3. LinkInv' /\ PipeInv' /\ HeldInv'
  BY DEF ShortcutInv, Die, osVars, LinkInv, PipeInv, HeldInv
<1> QED
  BY <1>2, <1>3 DEF LinkHolds

LEMMA ServeKeeps ==
    ASSUME ShortcutBounds, ShortcutInv, NEW g \in Generations, Serve(g)
    PROVE  LinkHolds'
<1> USE DEF ShortcutInv, LinkHolds
<1> DEFINE request == Head(requests[g])
<1>1. /\ UNCHANGED <<mirror, generation, running, bindings, call, frames>>
      /\ work[g].at = "idle" /\ requests[g] # <<>>
      /\ AskOs(g, request.op, request.chord, request.id)
      /\ requests' = [requests EXCEPT ![g] = Tail(@)]
  BY DEF Serve, hostVars
<1>2. g \in Workers /\ request.op \in Ops /\ request.chord \in Chords /\ request.id \in Calls
  BY ServeDoes
<1> HIDE DEF request
<1>3. /\ \A n \in Generations \ {g} : requests'[n] = requests[n]
      /\ \A v \in Workers \ {g} : work'[v] = work[v]
  <2>1. \E task \in Task : work' = [work EXCEPT ![g] = task]
    BY <1>1, <1>2, AskOsDoes
  <2> QED
    BY <1>1, <2>1 DEF Types
<1>4. LinkInv'
  BY <1>1, <1>3 DEF LinkInv, Workers
<1>5. CASE ~running
  BY <1>1, <1>4, <1>5 DEF PipeInv, LaterInv, HeldInv
<1>6. CASE running /\ g = generation
  BY <1>4, <1>6, AskedByHost
<1>7. CASE running /\ g # generation
  <2>1. requests'[generation] = requests[generation]
    BY <1>3, <1>7 DEF LinkInv
  <2> QED
    BY <1>1, <1>2, <1>4, <1>7, <2>1, AskedElsewhere
<1> QED
  BY <1>5, <1>6, <1>7

LEMMA PanelKeeps == ASSUME ShortcutBounds, ShortcutInv, PanelAsks PROVE LinkHolds'
<1> USE DEF ShortcutInv, LinkHolds
<1>1. /\ UNCHANGED <<mirror, generation, running, bindings, call, frames, requests>>
      /\ work[Panel].at = "idle"
  BY DEF PanelAsks, hostVars
<1>2. PICK op \in Ops, chord \in Chords : AskOs(Panel, op, chord, 0)
  BY DEF PanelAsks
<1>3. Panel \in Workers /\ Panel \notin Generations
  BY DEF Workers, Panel, Generations, ShortcutBounds
<1>4. \A v \in Workers \ {Panel} : work'[v] = work[v]
  <2>1. \E task \in Task : work' = [work EXCEPT ![Panel] = task]
    BY <1>2, <1>3, AskOsDoes
  <2> QED
    BY <2>1 DEF Types
<1>5. LinkInv'
  BY <1>1, <1>3, <1>4 DEF LinkInv, Workers
<1>6. CASE ~running
  BY <1>1, <1>5, <1>6 DEF PipeInv, LaterInv, HeldInv
<1>7. CASE running
  <2>1. Panel # generation
    BY <1>3, <1>7 DEF LinkInv
  <2> QED
    BY <1>1, <1>2, <1>3, <1>5, <1>7, <2>1, AskedElsewhere
<1> QED
  BY <1>6, <1>7

LEMMA ReadBackKeeps ==
    ASSUME ShortcutBounds, ShortcutInv, NEW w \in Workers, ReadBack(w)
    PROVE  LinkHolds'
<1> USE DEF ShortcutInv, LinkHolds
<1>1. /\ UNCHANGED <<os, mirror, foreign, raced, generation, running, bindings, call, frames, requests>>
      /\ work[w].at = "asked"
  BY DEF ReadBack, hostVars
<1>2. /\ work'[w].at = "read" /\ work'[w].op = work[w].op /\ work'[w].chord = work[w].chord
      /\ work'[w].id = work[w].id /\ work'[w].ok = work[w].ok
      /\ \A v \in Workers \ {w} : work'[v] = work[v]
  BY DEF ReadBack, Types, Task
<1>3. generation \in Workers
  BY DEF Types, Workers, Panel
<1>4. LinkInv'
  <2>1. Idle.at = "idle"
    BY DEF Idle
  <2>2. \A n \in Generations : work[n] = Idle => work'[n] = work[n]
    BY <1>1, <1>2, <2>1 DEF Workers
  <2> QED
    BY <1>1, <2>2 DEF LinkInv
<1>5. /\ work'[generation].at = "idle" <=> work[generation].at = "idle"
      /\ work'[generation].op = work[generation].op
      /\ work'[generation].chord = work[generation].chord
      /\ work'[generation].id = work[generation].id
      /\ work'[generation].ok = work[generation].ok
  BY <1>1, <1>2, <1>3
<1>6. PipeInv' /\ LaterInv' /\ HeldInv'
  BY <1>1, <1>2, <1>5, OutsideKeeps
<1> QED
  BY <1>4, <1>6

\* The mirror is set, and the host that asked gets its answer.
LEMMA MirrorStepKeeps ==
    ASSUME ShortcutBounds, ShortcutInv, NEW w \in Workers, Mirror(w)
    PROVE  LinkHolds'
<1> USE DEF ShortcutInv, LinkHolds
<1>1. /\ UNCHANGED <<os, foreign, raced, generation, running, bindings, call, requests>>
      /\ work[w].at = "read" /\ work[w].chord \in Chords
  BY DEF Mirror, WorkInv, hostVars
<1>2. work'[w] = Idle /\ \A v \in Workers \ {w} : work'[v] = work[v]
  BY DEF Mirror, Types
<1>3. generation \in Workers
  BY DEF Types, Workers, Panel
<1>4. Idle.at = "idle" /\ Idle.chord \notin Chords
  BY DEF Idle, ShortcutBounds
<1>5. \A n \in Generations : work[n] = Idle => work'[n] = Idle
  BY <1>2 DEF Workers
<1>6. /\ \A c \in Chords \ {work[w].chord} : c \in mirror' <=> c \in mirror
      /\ work[w].chord \in mirror' <=> work[w].seen
  BY <1>1 DEF Mirror, Mirrored, With
<1>7. CASE ~running
  <2>1. frames' = frames
    BY <1>7 DEF Mirror
  <2>2. LinkInv'
    BY <1>1, <1>5, <1>7, <2>1 DEF LinkInv
  <2> QED
    BY <1>1, <1>7, <2>2 DEF PipeInv, LaterInv, HeldInv
<1>8. CASE running /\ w # generation
  <2>1. frames' = frames /\ work'[generation] = work[generation]
    BY <1>2, <1>3, <1>8 DEF Mirror
  <2>2. LinkInv'
    BY <1>1, <1>5, <1>8, <2>1 DEF LinkInv
  <2>3. \A v \in Workers : work'[v].chord \in Chords => work'[v].chord = work[v].chord
    BY <1>2, <1>4
  <2>4. ASSUME NEW c \in Chords \ (foreign' \cup raced'), c \in mirror, Touched(c)
        PROVE  c \in mirror'
    <3>1. work[w].chord # c
      BY <1>1, <1>8, <2>4 DEF HeldInv
    <3> QED
      BY <1>6, <2>4, <3>1
  <2>5. PipeInv' /\ LaterInv' /\ HeldInv'
    BY <1>1, <2>1, <2>3, <2>4, OutsideKeeps
  <2> QED
    BY <2>2, <2>5
<1>9. CASE running /\ w = generation
  <2> DEFINE frame == [press |-> NoChord, id |-> work[w].id, ok |-> work[w].ok]
  <2>1. PICK last \in Nat : last = Len(frames) + 1
    BY DEF Types
  <2>2. /\ frame \in HostFrame /\ frames' = Append(frames, frame)
        /\ frame.press = NoChord /\ frame.id = work[w].id /\ frame.ok = work[w].ok
    BY <1>9 DEF Mirror, Types, Task, HostFrame
  <2> HIDE DEF frame
  <2>3. /\ Replies' = Replies \cup {last}
        /\ frames'[last] = frame
        /\ \A k \in Replies : k \in Nat /\ k < last /\ frames'[k] = frames[k]
        /\ last \in Nat
    <3>1. /\ Len(frames) \in Nat /\ frames'[Len(frames) + 1] = frame
          /\ Replies' = Replies \cup {Len(frames) + 1}
          /\ \A k \in Replies : k \in Nat /\ k <= Len(frames) /\ frames'[k] = frames[k]
      BY <2>2, FrameIsWritten
    <3> DEFINE n == Len(frames)
    <3> HIDE DEF n
    <3>2. n \in Nat /\ \A k \in Replies : k \in Nat /\ k <= n => k < n + 1
      BY <3>1 DEF n
    <3> QED
      BY <2>1, <3>1, <3>2 DEF n
  <2>4. /\ \A k \in Replies' : k = last \/ (k \in Replies /\ k # last)
        /\ \A k \in Replies : k # last /\ k \in Replies'
        /\ last \in Replies'
        /\ frames'[last].press = NoChord /\ frames'[last].id = work[w].id
        /\ frames'[last].ok = work[w].ok
    BY <2>2, <2>3
  <2>5. /\ work[w].id \in Calls
        /\ Open(call[work[w].id])
        /\ call[work[w].id].op = work[w].op /\ call[work[w].id].chord = work[w].chord
        /\ \A k \in Replies : frames[k].id < work[w].id
        /\ \A j \in Queued : work[w].id < requests[generation][j].id
        /\ \A c \in Chords : bindings[c] < work[w].id
    BY <1>1, <1>9 DEF PipeInv, LaterInv, Busy, Asks
  <2>7. ~Busy' /\ Queued' = Queued
    BY <1>1, <1>2, <1>4, <1>9 DEF Busy, Queued
  <2>8. LinkInv'
    BY <1>1, <1>5, <1>9 DEF LinkInv
  <2>9. PipeInv'
    <3>1. \A k \in Replies' : /\ frames'[k].id \in Calls
                              /\ Open(call'[frames'[k].id])
                              /\ call[frames'[k].id].chord \in Chords
      <4>1. ASSUME NEW k \in Replies
            PROVE  /\ frames'[k].id \in Calls
                   /\ Open(call'[frames'[k].id])
                   /\ call[frames'[k].id].chord \in Chords
        BY <1>1, <1>9, <2>3 DEF PipeInv, Open
      <4>2. /\ frames'[last].id \in Calls
            /\ Open(call'[frames'[last].id])
            /\ call[frames'[last].id].chord \in Chords
        BY <1>1, <2>4, <2>5 DEF Open
      <4> QED
        BY <2>4, <4>1, <4>2
    <3>2. ASSUME NEW j \in Replies', NEW k \in Replies', j < k PROVE frames'[j].id < frames'[k].id
      <4>1. j \in Replies
        BY <2>3, <2>4, <3>2
      <4>2. CASE k = last
        BY <2>3, <2>4, <2>5, <4>1, <4>2
      <4>3. CASE k \in Replies
        BY <1>9, <2>3, <3>2, <4>1, <4>3 DEF PipeInv
      <4> QED
        BY <2>4, <4>2, <4>3
    <3>3. \A j \in Queued, k \in Replies' : frames'[k].id < requests[generation][j].id
      BY <1>9, <2>3, <2>5, <2>4 DEF PipeInv
    <3>4. \A j \in Queued : Asks(call[requests[generation][j].id], requests[generation][j].op,
                                 requests[generation][j].chord)
      BY <1>1, <1>9 DEF PipeInv, Asks, Open
    <3> QED
      BY <1>1, <1>9, <2>7, <3>1, <3>2, <3>3, <3>4 DEF PipeInv
  <2>10. LaterInv'
    BY <1>1, <1>9, <2>3, <2>4, <2>5, <2>7 DEF LaterInv
  <2>11. ASSUME NEW c \in Chords, NEW k \in Replies
        PROVE  (Grants(k, c)' <=> Grants(k, c)) /\ (Revokes(k, c)' <=> Revokes(k, c))
    BY <1>1, <2>3 DEF Grants, Revokes
  <2>12. ASSUME NEW c \in Chords
        PROVE  /\ Grants(last, c)' <=> WorksOn("register", c)
               /\ Revokes(last, c)' <=> WorksOn("unregister", c)
    BY <1>1, <1>9, <2>2, <2>3, <2>4, <2>5 DEF Grants, Revokes, WorksOn
  <2>13. ASSUME NEW c \in Chords, Touched(c)' PROVE Touched(c)
    BY <1>1, <1>2, <1>4, <1>9, <2>3, <2>5, <2>13, <2>4 DEF Touched
  <2>14. ASSUME NEW c \in Chords, ~WorksOn("register", c), Lapsed(c) PROVE Lapsed(c)' /\ Undone(c)'
    <3>1. \A op \in Ops : ~WorksOn(op, c)'
      BY <1>1, <1>2, <1>4, <1>9 DEF WorksOn
    <3>2. CASE WorksOn("unregister", c)
      <4>1. Revokes(last, c)'
        BY <2>12, <3>2
      <4>2. \A k \in Replies' : Grants(k, c)' => \E j \in Replies' : j > k /\ Revokes(j, c)'
        BY <2>3, <2>4, <2>12, <2>14, <4>1
      <4> QED
        BY <2>3, <2>4, <3>1, <4>1, <4>2 DEF Undone, Lapsed, Ops
    <3>3. CASE ~WorksOn("unregister", c)
      <4>1. /\ \A k \in Replies : Grants(k, c) => \E j \in Replies : j > k /\ Revokes(j, c)
            /\ bindings[c] = 0 \/ MaybeReleased(c) \/ \E j \in Replies : Revokes(j, c)
        BY <2>14, <3>3 DEF Lapsed
      <4>2. ASSUME NEW k \in Replies', Grants(k, c)'
            PROVE  \E j \in Replies' : j > k /\ Revokes(j, c)'
        <5>1. k \in Replies /\ Grants(k, c)
          BY <2>3, <2>4, <2>11, <2>12, <2>14, <4>2
        <5>2. PICK j \in Replies : j > k /\ Revokes(j, c)
          BY <4>1, <5>1
        <5> QED
          BY <2>3, <2>11, <5>2
      <4>3. MaybeReleased(c)' <=> MaybeReleased(c)
        BY <1>1 DEF MaybeReleased
      <4>4. bindings'[c] = 0 \/ MaybeReleased(c)' \/ \E j \in Replies' : Revokes(j, c)'
        BY <1>1, <2>3, <2>11, <4>1, <4>3
      <4> QED
        BY <3>1, <4>2, <4>4 DEF Undone, Lapsed, Ops
    <3> QED
      BY <3>2, <3>3
  <2>15. ASSUME NEW c \in Chords \ (foreign' \cup raced')
         PROVE  (c \in os' \/ Undone(c)') /\ (c \in mirror' \/ Lapsed(c)')
    <3>1. c \in Chords \ (foreign \cup raced)
      BY <1>1
    <3>2. CASE c \notin os
      <4>1. ~WorksOn("register", c) /\ Lapsed(c)
        BY <1>9, <3>1, <3>2 DEF HeldInv, Undone
      <4> QED
        BY <2>14, <4>1
    <3>3. CASE c \in os /\ c = work[w].chord
      <4>1. work[w].seen
        BY <1>1, <3>1, <3>3 DEF MirrorInv
      <4> QED
        BY <1>1, <1>6, <3>3, <4>1
    <3>4. CASE c \in os /\ c # work[w].chord
      <4>1. ~WorksOn("register", c)
        BY <1>9, <3>4 DEF WorksOn
      <4>2. c \in mirror \/ Lapsed(c)
        BY <1>9, <3>1 DEF HeldInv
      <4> QED
        BY <1>1, <1>6, <2>14, <3>4, <4>1, <4>2
    <3> QED
      BY <3>2, <3>3, <3>4
  <2>16. HeldInv'
    BY <1>1, <1>2, <1>9, <2>13, <2>15 DEF HeldInv
  <2> QED
    BY <2>8, <2>9, <2>10, <2>16
<1> QED
  BY <1>7, <1>8, <1>9

LEMMA EdgeKeeps ==
    ASSUME ShortcutBounds, ShortcutInv,
           UNCHANGED <<os, mirror, foreign, raced, work, generation, running, bindings, call, frames,
                       requests>>
    PROVE  LinkHolds'
<1>1. PipeInv' /\ LaterInv' /\ HeldInv'
  BY OutsideKeeps
<1>2. LinkInv'
  BY DEF ShortcutInv, LinkInv
<1> QED
  BY <1>1, <1>2 DEF LinkHolds

-----------------------------------------------------------------------------
(* The theorems.                                                           *)

LEMMA InitHolds == ASSUME ShortcutBounds, Init PROVE ShortcutInv
<1>1. Types
  <2>1. work \in [Workers -> Task]
    BY IdleIsATask DEF Init
  <2>2. call \in [Calls -> CallState]
    BY DEF Init, CallState, Ops
  <2>3. requests \in [Generations -> Seq(RequestFrame)] /\ frames \in Seq(HostFrame)
    BY DEF Init
  <2>4. bindings \in [Chords -> Calls \cup {0}] /\ 0 \in 0..MaxPresses /\ 0 \in 0..MaxMeddling
    BY DEF Init, ShortcutBounds
  <2> QED
    BY <2>1, <2>2, <2>3, <2>4 DEF Init, Types
<1>2. WorkInv /\ MirrorInv
  BY DEF Init, WorkInv, MirrorInv, Idle, ShortcutBounds
<1>3. LinkInv /\ PipeInv /\ LaterInv /\ HeldInv
  BY DEF Init, LinkInv, PipeInv, LaterInv, HeldInv, Workers
<1> QED
  BY <1>1, <1>2, <1>3 DEF ShortcutInv

LEMMA NextKeeps == ASSUME ShortcutBounds, ShortcutInv, [Next]_vars PROVE ShortcutInv'
<1>1. Types' /\ WorkInv' /\ MirrorInv'
  BY TypesKeep, MirrorKeeps DEF ShortcutInv
<1>2. ASSUME Edge \/ UNCHANGED vars PROVE LinkHolds'
  <2>1. UNCHANGED <<os, mirror, foreign, raced, work, generation, running, bindings, call, frames,
                    requests>>
    BY <1>2 DEF Edge, vars, osVars, hostVars
  <2> QED
    BY <2>1, EdgeKeeps
<1>3. LinkHolds'
  BY <1>2, LaunchKeeps, DieKeeps, CloseKeeps, AnswerKeeps, DispatchKeeps, CallKeeps, ExpireKeeps,
     ServeKeeps,
     ReadBackKeeps, MirrorStepKeeps, PanelKeeps, NotifyKeeps DEF Next
<1> QED
  BY <1>1, <1>3 DEF ShortcutInv, LinkHolds

(* The parts of the invariant hold in every state.                         *)
THEOREM Invariance == Spec => []ShortcutInv
<1>1. Init => ShortcutInv
  BY InitHolds, ShortcutAssumption
<1>2. ShortcutInv /\ [Next]_vars => ShortcutInv'
  BY NextKeeps, ShortcutAssumption
<1> QED
  BY <1>1, <1>2, PTL DEF Spec

(* Type correctness of the shortcuts (shortcut.ts, shell_sys.rs,           *)
(* shortcut.rs).                                                           *)
THEOREM TypeCorrect == Spec => []TypeOK
<1>1. ShortcutInv => TypeOK
  BY TypesAreTypeOK DEF ShortcutInv
<1> QED
  BY <1>1, Invariance, PTL

(* The mirror is right whenever nobody is at work on a chord that two      *)
(* workers were never at work on together (shortcut.rs:171-220): the       *)
(* answer of the library is read back and not assumed.                     *)
THEOREM MirrorIsRight == Spec => []MirrorFollowsTheOs
<1>1. ShortcutInv => MirrorFollowsTheOs
  BY DEF ShortcutInv, MirrorInv, MirrorFollowsTheOs
<1> QED
  BY <1>1, Invariance, PTL

(* A handler that a plugin was told is registered can run, when nobody     *)
(* else has asked for its chord, the host waits for no answer about it,    *)
(* and no later call to release it timed out (shortcut.ts:132-179): the    *)
(* answers of a link come in the order of its requests, so the last one    *)
(* that is read decides on both sides.                                     *)
THEOREM BoundChordsWork == Spec => []BoundIsRouted
<1>1. ASSUME ShortcutBounds, ShortcutInv, NEW c \in Chords, running, Settled(c), bindings[c] # 0,
             c \notin foreign \cup raced, ~MaybeReleased(c)
      PROVE  c \in os \cap mirror
  <2>1. ASSUME NEW i \in Calls, Open(call[i]), call[i].chord = c, bindings[c] < i
        PROVE  call[i].op # "unregister"
    BY <1>1, <2>1 DEF Open, Settled, MaybeReleased
  <2>2. \A k \in Replies : ~Revokes(k, c)
    BY <1>1, <2>1 DEF ShortcutInv, PipeInv, LaterInv, Revokes
  <2>3. ~WorksOn("unregister", c)
    <3>1. CASE Busy
      BY <1>1, <2>1, <3>1 DEF ShortcutInv, PipeInv, LaterInv, Asks, WorksOn
    <3>2. CASE ~Busy
      <4>1. generation \in Workers
        BY <1>1 DEF ShortcutInv, Types, Workers, Panel
      <4> QED
        BY <1>1, <3>2, <4>1, IdleHasNoChord DEF ShortcutInv, Busy, WorksOn
    <3> QED
      BY <3>1, <3>2
  <2>4. ~Lapsed(c)
    BY <1>1, <2>2, <2>3 DEF Lapsed
  <2> QED
    BY <1>1, <2>4 DEF ShortcutInv, HeldInv, Undone
<1>2. ShortcutInv => BoundIsRouted
  BY <1>1, ShortcutAssumption DEF BoundIsRouted
<1> QED
  BY <1>2, Invariance, PTL
=============================================================================
