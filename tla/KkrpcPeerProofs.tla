-------------------------- MODULE KkrpcPeerProofs --------------------------
(***************************************************************************)
(* Proofs about the shell's half of the kkrpc link, for every set of       *)
(* requests, streams and calls and every window: its types, and every      *)
(* safety property KkrpcPeer states.                                       *)
(*                                                                         *)
(* The entry of the stream table is the argument of all of them.  For a    *)
(* stream of the shell it is the right to write the terminal frame         *)
(* (Entitled); for a stream of the host it is the duty to finish the sink  *)
(* and, with it, to answer (SinkOK).                                       *)
(***************************************************************************)
EXTENDS KkrpcPeer, TLAPS

(* Where the reader aims: at a stream of the shell, or at one of the host. *)
Aim ==
    /\ reader.at \in {"openReply", "ack"} => reader.stream \in Own
    /\ reader.at \in {"openPull", "sink", "restore", "replenish"} =>
          reader.stream \in HostStreams
    /\ reader.at \in {"sink", "restore"} => reader.consumer # NoConsumer

LEMMA ConsumerFacts ==
    /\ NoConsumer \in Consumer /\ NoConsumer.sink = None /\ None \notin Writes
    /\ \A c \in Consumer :
          /\ c.sink \in Writes \cup {None} /\ c.since \in 0 .. Replenish - 1
          /\ c = [sink |-> c.sink, since |-> c.since]
          /\ c.sink = None <=> c = NoConsumer
          /\ SinksOf(c) \subseteq Writes
    /\ \A w \in Writes : [sink |-> w, since |-> 0] \in Consumer
BY KindsAssumption, CreditAssumption DEF Consumer, NoConsumer, SinksOf

LEMMA ReadingFacts ==
    /\ Reading.at = "read" /\ Reading.consumer = NoConsumer /\ Reading.sinks = {}
BY DEF Reading

LEMMA AnswerType ==
    ASSUME NEW requests \in SUBSET Requests, answered \subseteq Requests,
           replies \in [Requests -> Nat], Answer(requests)
    PROVE  answered' \subseteq Requests /\ replies' \in [Requests -> Nat]
BY DEF Answer

LEMMA FinishType ==
    ASSUME NEW writes \in SUBSET Writes, answered \subseteq Requests,
           replies \in [Requests -> Nat], finished \in [Writes -> Nat],
           Finish(writes)
    PROVE  /\ answered' \subseteq Requests /\ replies' \in [Requests -> Nat]
           /\ finished' \in [Writes -> Nat]
<1>1. writes \in SUBSET Requests /\ Answer(writes)
  BY DEF Finish, Requests
<1> QED BY <1>1, AnswerType DEF Finish

LEMMA TypeInit == Init => TypeOK /\ Aim
BY ConsumerFacts, CreditAssumption DEF Init, TypeOK, Aim, Reading, NoConsumer, Own, Requests,
   LinkFailure, ReaderLabel, ThreadLabel, CallLabel

(* The records of the state.                                               *)
ControlBlock == [credit : Nat, cancelled : BOOLEAN]
TakenOut == [producer : BOOLEAN, sink : Writes \cup {None}]
Received == [chunks : Nat, ends : Nat, late : Nat, acked : BOOLEAN]
ReaderState ==
    [at : ReaderLabel, stream : Own \cup HostStreams \cup {None},
     consumer : Consumer, due : BOOLEAN, taken : SUBSET Own,
     sinks : SUBSET Writes, failure : LinkFailure]
HostState ==
    [asked : SUBSET Requests, returned : SUBSET Own,
     opened : SUBSET HostStreams, ended : SUBSET HostStreams,
     replied : SUBSET Calls, pulled : [Own -> 0 .. MaxPull]]

(* The type invariant in the words of the lemmas.                          *)
Types ==
    /\ writable \in BOOLEAN /\ link \in {"up"} \cup LinkFailure
    /\ reader \in ReaderState /\ host \in HostState
    /\ own \subseteq Own /\ consumers \in [HostStreams -> Consumer]
    /\ control \in [Own -> ControlBlock] /\ thread \in [Own -> ThreadLabel]
    /\ forgot \in [Own -> TakenOut]
    /\ closed \in [Own -> Nat] /\ finished \in [Writes -> Nat]
    /\ answered \subseteq Requests /\ replies \in [Requests -> Nat]
    /\ wire \in [Own -> Received] /\ window \in [HostStreams -> Nat]
    /\ pending \subseteq Calls /\ strays \subseteq Calls
    /\ call \in [Calls -> CallLabel]
    /\ mailbox \in [Calls -> {"empty", "value", "closed"}]

(* A thread sets one field of its control block, and adds to the wire.     *)
LEMMA ControlType ==
    ASSUME control \in [Own -> ControlBlock], NEW s \in Own
    PROVE  /\ control[s].credit \in Nat /\ control[s].cancelled \in BOOLEAN
           /\ \A n \in Nat :
                 [control EXCEPT ![s].credit = n] \in [Own -> ControlBlock]
           /\ \A b \in BOOLEAN :
                 [control EXCEPT ![s].cancelled = b] \in [Own -> ControlBlock]
           /\ control[s].credit > 0 /\ SpendCredit(s) =>
                 control' \in [Own -> ControlBlock]
<1>1. control[s] \in ControlBlock
  OBVIOUS
<1>2. \A n \in Nat : [control[s] EXCEPT !.credit = n] \in ControlBlock
  BY <1>1 DEF ControlBlock
<1>3. \A b \in BOOLEAN : [control[s] EXCEPT !.cancelled = b] \in ControlBlock
  BY <1>1 DEF ControlBlock
<1>4. control[s].credit \in Nat /\ control[s].cancelled \in BOOLEAN
  BY <1>1 DEF ControlBlock
<1>5. control[s].credit > 0 => control[s].credit - 1 \in Nat
  BY <1>4
<1> QED BY <1>2, <1>3, <1>4, <1>5 DEF SpendCredit

LEMMA WireType ==
    ASSUME wire \in [Own -> Received], NEW s \in Own
    PROVE  /\ Chunk(s) => wire' \in [Own -> Received]
           /\ [wire EXCEPT ![s].ends = @ + 1] \in [Own -> Received]
           /\ [wire EXCEPT ![s].acked = TRUE] \in [Own -> Received]
<1>1. wire[s] \in Received
  OBVIOUS
<1>2. [wire[s] EXCEPT !.ends = @ + 1] \in Received
  BY <1>1 DEF Received
<1>3. [wire[s] EXCEPT !.acked = TRUE] \in Received
  BY <1>1 DEF Received
<1>4. \A n \in Nat : [wire[s] EXCEPT !.chunks = @ + 1, !.late = @ + n] \in Received
  <2>1. wire[s].chunks + 1 \in Nat /\ \A n \in Nat : wire[s].late + n \in Nat
    BY <1>1 DEF Received
  <2> QED BY <1>1, <2>1 DEF Received
<1>5. (IF wire[s].acked THEN 1 ELSE 0) \in Nat
  OBVIOUS
<1>6. Chunk(s) => wire' \in [Own -> Received]
  BY <1>4, <1>5 DEF Chunk
<1> QED BY <1>2, <1>3, <1>6

LEMMA ThreadType ==
    ASSUME Types, Aim, NEW s \in Own,
           \/ s \in Reads /\ Producer(s)
           \/ s \in Watches /\ (NextValue(s) \/ EventReacts(s))
    PROVE  Types' /\ Aim'
<1> DEFINE StreamType ==
        /\ own \subseteq Own
        /\ control \in [Own -> ControlBlock]
        /\ thread \in [Own -> ThreadLabel]
        /\ forgot \in [Own -> TakenOut]
        /\ closed \in [Own -> Nat]
        /\ wire \in [Own -> Received]
<1> DEFINE SinkType ==
        /\ consumers \in [HostStreams -> Consumer]
        /\ finished \in [Writes -> Nat]
        /\ answered \subseteq Requests
        /\ replies \in [Requests -> Nat]
<1>1. StreamType /\ SinkType
  BY DEF Types
<1>2. /\ UNCHANGED <<writable, link, reader, window, host, callVars>>
      /\ StreamType'
      /\ ThreadOnly \/ ForgetStream(s) \/ SettleForgotten(s)
  <2> USE <1>1 DEF ThreadOnly, Step, ThreadLabel, sinkVars
  <2>1. CASE ProducerWait(s)
    BY <2>1, ControlType DEF ProducerWait
  <2>2. CASE NextChunk(s)
    BY <2>2 DEF NextChunk
  <2>3. CASE ProducerChunk(s)
    BY <2>3, WireType DEF ProducerChunk
  <2>4. CASE ForgetStream(s)
    <3>1. IF s \in HostStreams THEN consumers[s].sink \in Writes \cup {None}
                               ELSE None \in Writes \cup {None}
      BY <1>1, ConsumerFacts
    <3>2. [producer |-> s \in own,
           sink |-> IF s \in HostStreams THEN consumers[s].sink ELSE None] \in TakenOut
      BY <3>1 DEF TakenOut
    <3> QED BY <2>4, <3>2 DEF ForgetStream
  <2>11. CASE SettleForgotten(s)
    <3>1. (control[s].cancelled \/ forgot[s].producer) \in BOOLEAN
      OBVIOUS
    <3> QED BY <2>11, <3>1, ControlType DEF SettleForgotten
  <2>5. CASE ClaimEnding(s, "close") \/ ClaimEnding(s, "gone")
    BY <2>5 DEF ClaimEnding
  <2>6. CASE WriteEnding(s, "close") \/ WriteEnding(s, "gone")
    BY <2>6, WireType DEF WriteEnding
  <2>7. CASE CloseHandle(s, "gone") \/ CloseHandle(s, "claim")
    BY <2>7 DEF CloseHandle
  <2>8. CASE NextValue(s) \/ EventCancelled(s)
    BY <2>8 DEF NextValue, EventCancelled
  <2>9. CASE EventSpend(s)
    BY <2>9, ControlType DEF EventSpend
  <2>10. CASE EventChunk(s)
    BY <2>10, WireType DEF EventChunk
  <2> QED BY <2>1, <2>2, <2>3, <2>4, <2>5, <2>6, <2>7, <2>8, <2>9, <2>10, <2>11
          DEF Producer, EventReacts
<1>3. SinkType'
  <2>1. CASE ThreadOnly
    BY <1>1, <2>1 DEF ThreadOnly, sinkVars, replyVars
  <2>2. CASE ForgetStream(s)
    BY <1>1, <2>2, ConsumerFacts DEF ForgetStream, replyVars
  <2>3. CASE SettleForgotten(s)
    <3>1. SinksOf(forgot[s]) \in SUBSET Writes
      BY <1>1 DEF SinksOf, TakenOut
    <3> QED BY <1>1, <2>3, <3>1, FinishType DEF SettleForgotten
  <2> QED BY <1>2, <2>1, <2>2, <2>3
<1> QED BY <1>2, <1>3 DEF Types, Aim, callVars

(* The reader turns to something else.                                     *)
LEMMA ReaderType ==
    ASSUME reader \in ReaderState
    PROVE  /\ Reading \in ReaderState
           /\ \A label \in ReaderLabel, s \in Own \cup HostStreams :
                 [Reading EXCEPT !.at = label, !.stream = s] \in ReaderState
           /\ \A s \in HostStreams, w \in Writes :
                 [Reading EXCEPT !.at = "openPull", !.stream = s, !.sinks = {w}]
                     \in ReaderState
           /\ \A s \in HostStreams, d \in BOOLEAN, c \in Consumer :
                 [Reading EXCEPT !.at = "sink", !.stream = s, !.due = d,
                                 !.consumer = c] \in ReaderState
           /\ \A f \in LinkFailure :
                 [Reading EXCEPT !.at = "closeStreams", !.failure = f] \in ReaderState
           /\ \A label \in ReaderLabel :
                 [reader EXCEPT !.at = label] \in ReaderState
           /\ \A taken \in SUBSET Own, sinks \in SUBSET Writes :
                 [reader EXCEPT !.at = "signal", !.taken = taken, !.sinks = sinks]
                     \in ReaderState
<1>1. Reading \in ReaderState
  BY ConsumerFacts DEF Reading, ReaderState, ReaderLabel, LinkFailure
<1>2. {"openPull", "sink", "closeStreams", "signal"} \subseteq ReaderLabel
  BY DEF ReaderLabel
<1>3. \A label \in ReaderLabel, s \in Own \cup HostStreams :
         [Reading EXCEPT !.at = label, !.stream = s] \in ReaderState
  BY <1>1 DEF ReaderState
<1>4. \A s \in HostStreams, w \in Writes :
         [Reading EXCEPT !.at = "openPull", !.stream = s, !.sinks = {w}] \in ReaderState
  BY <1>1, <1>2 DEF ReaderState
<1>5. \A s \in HostStreams, d \in BOOLEAN, c \in Consumer :
         [Reading EXCEPT !.at = "sink", !.stream = s, !.due = d, !.consumer = c]
             \in ReaderState
  BY <1>1, <1>2 DEF ReaderState
<1>6. \A f \in LinkFailure :
         [Reading EXCEPT !.at = "closeStreams", !.failure = f] \in ReaderState
  BY <1>1, <1>2 DEF ReaderState
<1>7. \A label \in ReaderLabel : [reader EXCEPT !.at = label] \in ReaderState
  BY DEF ReaderState
<1>8. \A taken \in SUBSET Own, sinks \in SUBSET Writes :
         [reader EXCEPT !.at = "signal", !.taken = taken, !.sinks = sinks] \in ReaderState
  BY <1>2 DEF ReaderState
<1> QED BY <1>1, <1>3, <1>4, <1>5, <1>6, <1>7, <1>8

LEMMA HostType ==
    ASSUME host \in HostState
    PROVE  /\ \A r \in Requests : [host EXCEPT !.asked = @ \cup {r}] \in HostState
           /\ \A s \in Own : [host EXCEPT !.returned = @ \cup {s}] \in HostState
           /\ \A h \in HostStreams :
                 /\ [host EXCEPT !.opened = @ \cup {h}] \in HostState
                 /\ [host EXCEPT !.ended = @ \cup {h}] \in HostState
           /\ \A c \in Calls : [host EXCEPT !.replied = @ \cup {c}] \in HostState
           /\ \A s \in Own, n \in Nat : host.pulled[s] + n <= MaxPull =>
                 [host EXCEPT !.pulled[s] = @ + n] \in HostState
<1>1. \A s \in Own, n \in Nat : host.pulled[s] + n <= MaxPull =>
         [host.pulled EXCEPT ![s] = @ + n] \in [Own -> 0 .. MaxPull]
  BY CreditAssumption DEF HostState
<1>2. \A p \in [Own -> 0 .. MaxPull] : [host EXCEPT !.pulled = p] \in HostState
  BY DEF HostState
<1>3. \A s \in Own, n \in Nat : host.pulled[s] + n <= MaxPull =>
         [host EXCEPT !.pulled[s] = @ + n] \in HostState
  BY <1>1, <1>2
<1>4. \A r \in Requests : [host EXCEPT !.asked = @ \cup {r}] \in HostState
  BY DEF HostState
<1>5. \A s \in Own : [host EXCEPT !.returned = @ \cup {s}] \in HostState
  BY DEF HostState
<1>6. \A h \in HostStreams : [host EXCEPT !.opened = @ \cup {h}] \in HostState
  BY DEF HostState
<1>7. \A h \in HostStreams : [host EXCEPT !.ended = @ \cup {h}] \in HostState
  BY DEF HostState
<1>8. \A c \in Calls : [host EXCEPT !.replied = @ \cup {c}] \in HostState
  BY DEF HostState
<1> QED BY <1>3, <1>4, <1>5, <1>6, <1>7, <1>8

LEMMA TypeParts == TypeOK <=> Types
BY DEF TypeOK, Types, ControlBlock, TakenOut, Received, ReaderState, HostState

LEMMA LabelFacts ==
    {"read", "openReply", "openPull", "failReply", "ack", "sink", "cancelRemote",
     "restore", "replenish", "closeStreams", "signal", "publish", "ended"}
    \subseteq ReaderLabel
BY DEF ReaderLabel

LEMMA RequestKinds == Own \subseteq Requests /\ Writes \subseteq Requests
BY DEF Requests

LEMMA ReceiveType == Types /\ Aim /\ Receive => Types' /\ Aim'
<1> SUFFICES ASSUME Types, Aim, Receive PROVE Types' /\ Aim'
  OBVIOUS
<1> USE LabelFacts, RequestKinds DEF Types
<1>1. ASSUME NEW r \in Requests, RefuseRequest(r) PROVE Types' /\ Aim'
  <2>1. host' \in HostState
    BY <1>1, HostType DEF RefuseRequest, Arrives
  <2>2. answered' \subseteq Requests /\ replies' \in [Requests -> Nat]
    BY <1>1, AnswerType DEF RefuseRequest
  <2> QED BY <1>1, <2>1, <2>2
          DEF RefuseRequest, streamVars, sinkVars, callVars, Aim
<1>2. ASSUME NEW s \in Own, OpenStream(s) PROVE Types' /\ Aim'
  <2>1. host' \in HostState
    BY <1>2, HostType DEF OpenStream, Arrives
  <2>2. reader' \in ReaderState /\ reader'.at = "openReply" /\ reader'.stream = s
    BY <1>2, ReaderType DEF OpenStream, Become, Reading
  <2> QED BY <1>2, <2>1, <2>2
          DEF OpenStream, sinkVars, replyVars, callVars, Aim
<1>3. ASSUME NEW s \in Own, Cancel(s) PROVE Types' /\ Aim'
  <2>1. host' \in HostState
    BY <1>3, HostType DEF Cancel
  <2>2. reader' \in ReaderState /\ reader'.at = "ack" /\ reader'.stream = s
    BY <1>3, ReaderType DEF Cancel, Become, Reading
  <2>3. control' \in [Own -> ControlBlock] /\ own' \subseteq Own
    BY <1>3, ControlType DEF Cancel
  <2> QED BY <1>3, <2>1, <2>2, <2>3
          DEF Cancel, sinkVars, replyVars, callVars, Aim
<1>4. ASSUME NEW s \in Own, NEW n \in 1 .. MaxPull, Pull(s, n)
      PROVE  Types' /\ Aim'
  <2>1. host' \in HostState
    BY <1>4, HostType, CreditAssumption DEF Pull
  <2>2. control[s].credit + n \in Nat
    BY ControlType, CreditAssumption
  <2>3. control' \in [Own -> ControlBlock]
    BY <1>4, <2>2, ControlType DEF Pull
  <2> QED BY <1>4, <2>1, <2>3 DEF Pull, sinkVars, replyVars, callVars, Aim
<1>5. ASSUME NEW w \in Writes, NEW h \in HostStreams, ConsumeStream(w, h)
      PROVE  Types' /\ Aim'
  <2>1. host' \in HostState
    BY <1>5, HostType DEF ConsumeStream, Arrives
  <2>2. CASE consumers[h] # NoConsumer
    <3>1. answered' \subseteq Requests /\ replies' \in [Requests -> Nat]
      BY <1>5, <2>2, AnswerType DEF ConsumeStream
    <3> QED BY <1>5, <2>1, <2>2, <3>1
            DEF ConsumeStream, streamVars, callVars, Aim
  <2>3. CASE consumers[h] = NoConsumer
    <3>1. reader' \in ReaderState /\ reader'.at = "openPull" /\ reader'.stream = h
      <4>1. reader' = [Reading EXCEPT !.at = "openPull", !.stream = h, !.sinks = {w}]
        BY <1>5, <2>3 DEF ConsumeStream, Become
      <4>2. reader' \in ReaderState
        BY <4>1, ReaderType
      <4> QED BY <4>1, <4>2 DEF Reading
    <3>2. consumers' \in [HostStreams -> Consumer]
      BY <1>5, <2>3, ConsumerFacts DEF ConsumeStream
    <3> QED BY <1>5, <2>1, <2>3, <3>1, <3>2
            DEF ConsumeStream, streamVars, callVars, replyVars, Aim
  <2> QED BY <2>2, <2>3
<1>6. ASSUME NEW h \in HostStreams, Data(h) PROVE Types' /\ Aim'
  <2> DEFINE due == consumers[h].since + 1 >= Replenish
             next == [consumers[h] EXCEPT !.since = IF due THEN 0 ELSE @ + 1]
  <2>1. window' \in [HostStreams -> Nat] /\ consumers' \in [HostStreams -> Consumer]
    BY <1>6, ConsumerFacts DEF Data
  <2>2. CASE Finish(SinksOf(consumers[h])) /\ UNCHANGED reader
    <3>1. /\ answered' \subseteq Requests /\ replies' \in [Requests -> Nat]
          /\ finished' \in [Writes -> Nat]
      BY <2>2, FinishType, ConsumerFacts
    <3> QED BY <1>6, <2>1, <2>2, <3>1 DEF Data, streamVars, callVars, Aim
  <2>3. CASE /\ consumers[h] # NoConsumer
             /\ Become([Reading EXCEPT !.at = "sink", !.stream = h, !.due = due,
                                       !.consumer = next])
             /\ UNCHANGED <<finished, replyVars>>
    <3>1. next \in Consumer /\ next # NoConsumer
      BY <2>3, ConsumerFacts, CreditAssumption DEF Consumer
    <3>2. /\ reader' \in ReaderState /\ reader'.at = "sink" /\ reader'.stream = h
          /\ reader'.consumer = next
      <4> HIDE DEF next
      <4>1. due \in BOOLEAN
        OBVIOUS
      <4> HIDE DEF due
      <4> QED BY <2>3, <3>1, <4>1, ReaderType DEF Become, Reading
    <3> QED BY <1>6, <2>1, <2>3, <3>1, <3>2 DEF Data, streamVars, callVars, replyVars, Aim
  <2> QED BY <1>6, <2>2, <2>3 DEF Data
<1>7. ASSUME NEW h \in HostStreams, HostEnds(h) PROVE Types' /\ Aim'
  <2>1. host' \in HostState
    BY <1>7, HostType DEF HostEnds
  <2>2. /\ answered' \subseteq Requests /\ replies' \in [Requests -> Nat]
        /\ finished' \in [Writes -> Nat]
    BY <1>7, FinishType, ConsumerFacts DEF HostEnds
  <2> QED BY <1>7, <2>1, <2>2, ConsumerFacts DEF HostEnds, streamVars, callVars, Aim
<1>8. ASSUME NEW c \in Calls, HostReplies(c) PROVE Types' /\ Aim'
  <2>1. host' \in HostState
    BY <1>8, HostType DEF HostReplies
  <2> QED BY <1>8, <2>1 DEF HostReplies, streamVars, sinkVars, replyVars, Aim
<1>9. ASSUME NEW failure \in LinkFailure, EndLink(failure) PROVE Types' /\ Aim'
  <2>1. reader' \in ReaderState /\ reader'.at = "closeStreams"
    BY <1>9, ReaderType DEF EndLink, Become, Reading
  <2>2. mailbox' \in [Calls -> {"empty", "value", "closed"}]
    BY <1>9 DEF EndLink
  <2> QED BY <1>9, <2>1, <2>2 DEF EndLink, streamVars, sinkVars, replyVars, Aim
<1> QED BY <1>1, <1>2, <1>3, <1>4, <1>5, <1>6, <1>7, <1>8, <1>9 DEF Receive

LEMMA HandleType == Types /\ Aim /\ Handle => Types' /\ Aim'
<1> SUFFICES ASSUME Types, Aim, Handle PROVE Types' /\ Aim'
  OBVIOUS
<1> USE LabelFacts, RequestKinds DEF Types
<1> DEFINE SinkType ==
        /\ consumers \in [HostStreams -> Consumer]
        /\ finished \in [Writes -> Nat]
        /\ answered \subseteq Requests
        /\ replies \in [Requests -> Nat]
<1>0. /\ Become(Reading) => reader' \in ReaderState /\ Aim'
      /\ \A label \in ReaderLabel : Continue(label) =>
             /\ reader' = [reader EXCEPT !.at = label] /\ reader' \in ReaderState
             /\ reader'.at = label /\ reader'.stream = reader.stream
             /\ reader'.consumer = reader.consumer
  <2>1. Become(Reading) => reader' \in ReaderState /\ Aim'
    <3>1. Become(Reading) => reader' = Reading /\ reader' \in ReaderState
      BY ReaderType DEF Become
    <3>2. Reading.at = "read"
      BY DEF Reading
    <3> QED BY <3>1, <3>2 DEF Aim
  <2>2. ASSUME NEW label \in ReaderLabel, Continue(label)
        PROVE  /\ reader' = [reader EXCEPT !.at = label] /\ reader' \in ReaderState
               /\ reader'.at = label /\ reader'.stream = reader.stream
               /\ reader'.consumer = reader.consumer
    BY <2>2, ReaderType DEF Continue, ReaderState
  <2> QED BY <2>1, <2>2
<1>1. CASE OpenReply
  <2> DEFINE s == reader.stream
  <2>1. s \in Own
    BY <1>1 DEF OpenReply, At, Aim
  <2>2. thread' \in [Own -> ThreadLabel] /\ closed' \in [Own -> Nat] /\ own' \subseteq Own
    BY <1>1 DEF OpenReply, ThreadLabel
  <2>3. answered' \subseteq Requests /\ replies' \in [Requests -> Nat]
    BY <1>1, <2>1, AnswerType DEF OpenReply
  <2> QED BY <1>0, <1>1, <2>2, <2>3 DEF OpenReply, sinkVars, callVars
<1>2. CASE OpenPull
  <2> DEFINE h == reader.stream
  <2>1. h \in HostStreams
    BY <1>2 DEF OpenPull, At, Aim
  <2>2. CASE writable
    <3>1. host' \in HostState /\ window' \in [HostStreams -> Nat]
      <4>1. host' = [host EXCEPT !.opened = @ \cup {h}]
        BY <1>2, <2>2 DEF OpenPull
      <4>2. host' \in HostState
        BY <2>1, <4>1, HostType
      <4>3. window' = [window EXCEPT ![h] = @ + InitialCredit]
        BY <1>2, <2>2 DEF OpenPull
      <4> QED BY <2>1, <4>2, <4>3, CreditAssumption
    <3> QED BY <1>0, <1>2, <2>2, <3>1 DEF OpenPull, streamVars, callVars, replyVars
  <2>3. CASE ~writable
    <3>1. /\ answered' \subseteq Requests /\ replies' \in [Requests -> Nat]
          /\ finished' \in [Writes -> Nat]
      BY <1>2, <2>1, <2>3, FinishType, ConsumerFacts DEF OpenPull
    <3>2. reader' \in ReaderState /\ Aim'
      BY <1>0, <1>2, <2>3 DEF OpenPull, Aim
    <3> QED BY <1>2, <2>3, <3>1, <3>2, ConsumerFacts DEF OpenPull, streamVars, callVars
  <2> QED BY <2>2, <2>3
<1>3. CASE FailReply
  <2>1. reader.sinks \in SUBSET Requests
    BY DEF ReaderState
  <2>2. answered' \subseteq Requests /\ replies' \in [Requests -> Nat]
    BY <1>3, <2>1, AnswerType DEF FailReply
  <2> QED BY <1>0, <1>3, <2>2 DEF FailReply, streamVars, sinkVars, callVars
<1>4. CASE Acknowledge
  <2>1. wire' \in [Own -> Received]
    <3>1. reader.stream \in Own
      BY <1>4 DEF Acknowledge, At, Aim
    <3> QED BY <1>4, <3>1, WireType DEF Acknowledge
  <2> QED BY <1>0, <1>4, <2>1 DEF Acknowledge, sinkVars, replyVars, callVars
<1>5. CASE SinkWrite
  <2>1. reader.consumer \in Consumer /\ reader.consumer # NoConsumer
        /\ reader.stream \in HostStreams
    BY <1>5 DEF SinkWrite, At, Aim, ReaderState
  <2>2. {reader.consumer.sink} \in SUBSET Writes
    BY <2>1, ConsumerFacts
  <2>3. SinkType'
    BY <1>5, <2>2, FinishType DEF SinkWrite, replyVars
  <2>4. reader' \in ReaderState /\ Aim'
    BY <1>0, <1>5, <2>1 DEF SinkWrite, Aim
  <2> QED BY <1>5, <2>3, <2>4 DEF SinkWrite, streamVars, callVars
<1>6. CASE CancelRemote
  BY <1>0, <1>6 DEF CancelRemote, streamVars, sinkVars, replyVars, callVars
<1>7. CASE Restore
  <2> DEFINE h == reader.stream
             free == consumers[h] = NoConsumer
  <2>1. reader.consumer \in Consumer /\ reader.consumer # NoConsumer
        /\ h \in HostStreams /\ reader.due \in BOOLEAN
    BY <1>7 DEF Restore, At, Aim, ReaderState
  <2>2. (IF free THEN {} ELSE {reader.consumer.sink}) \in SUBSET Writes
    BY <2>1, ConsumerFacts
  <2>3. Finish(IF free THEN {} ELSE {reader.consumer.sink})
    BY <1>7 DEF Restore
  <2>4. SinkType'
    BY <1>7, <2>1, <2>2, <2>3, FinishType DEF Restore
  <2>5. reader' \in ReaderState /\ Aim'
    <3>1. [Reading EXCEPT !.at = "replenish", !.stream = h] \in ReaderState
      BY <2>1, ReaderType
    <3>2. CASE free /\ reader.due
      BY <1>7, <2>1, <3>1, <3>2 DEF Restore, Become, Aim, Reading
    <3>3. CASE ~(free /\ reader.due)
      BY <1>0, <1>7, <3>3 DEF Restore
    <3> QED BY <3>2, <3>3
  <2> QED BY <1>7, <2>4, <2>5 DEF Restore, streamVars, callVars
<1>8. CASE ReplenishWindow
  <2> DEFINE h == reader.stream
  <2>1. h \in HostStreams
    BY <1>8 DEF ReplenishWindow, At, Aim
  <2>2. CASE writable
    <3>1. window' \in [HostStreams -> Nat]
      BY <1>8, <2>1, <2>2, CreditAssumption DEF ReplenishWindow
    <3> QED BY <1>0, <1>8, <2>2, <3>1
            DEF ReplenishWindow, streamVars, callVars, replyVars
  <2>3. CASE ~writable
    <3>1. /\ answered' \subseteq Requests /\ replies' \in [Requests -> Nat]
          /\ finished' \in [Writes -> Nat]
      BY <1>8, <2>1, <2>3, FinishType, ConsumerFacts DEF ReplenishWindow
    <3> QED BY <1>0, <1>8, <2>3, <3>1, ConsumerFacts
            DEF ReplenishWindow, streamVars, callVars
  <2> QED BY <2>2, <2>3
<1>9. CASE CloseStreams
  <2>1. UNION {SinksOf(consumers[h]) : h \in HostStreams} \in SUBSET Writes
    BY ConsumerFacts
  <2>2. reader' \in ReaderState /\ reader'.at = "signal"
    BY <1>9, <2>1, ReaderType DEF CloseStreams, Become, ReaderState
  <2> QED BY <1>9, <2>2, ConsumerFacts DEF CloseStreams, callVars, replyVars, Aim
<1>10. CASE SignalStreams
  <2>1. control' \in [Own -> ControlBlock]
    <3>1. \A s \in Own : [control[s] EXCEPT !.cancelled = @ \/ s \in reader.taken]
                           \in ControlBlock
      BY DEF ControlBlock
    <3> QED BY <1>10, <3>1 DEF SignalStreams
  <2>2. reader.sinks \in SUBSET Writes
    BY DEF ReaderState
  <2>3. SinkType'
    BY <1>10, <2>2, FinishType DEF SignalStreams
  <2>4. reader' \in ReaderState /\ Aim'
    BY <1>0, <1>10 DEF SignalStreams, Aim
  <2> QED BY <1>10, <2>1, <2>3, <2>4 DEF SignalStreams, callVars
<1>11. CASE PublishLinkFailure
  <2>1. reader' \in ReaderState /\ Aim'
    BY <1>0, <1>11 DEF PublishLinkFailure, Aim
  <2>2. link' \in {"up"} \cup LinkFailure
    BY <1>11 DEF PublishLinkFailure, ReaderState
  <2> QED BY <1>11, <2>1, <2>2
          DEF PublishLinkFailure, streamVars, sinkVars, replyVars, callVars
<1> QED BY <1>1, <1>2, <1>3, <1>4, <1>5, <1>6, <1>7, <1>8, <1>9, <1>10, <1>11
        DEF Handle

LEMMA CallType == ASSUME Types, Aim, NEW c \in Calls, Caller(c) PROVE Types' /\ Aim'
<1>1. /\ call' \in [Calls -> CallLabel]
      /\ pending' \subseteq Calls /\ strays' \subseteq Calls
      /\ UNCHANGED mailbox /\ CallOnly
  BY LabelFacts DEF Types, Caller, CallRegister, CallWrite, CallReceive, CallTimeout,
     CallUnregister, CallGoes, CallLabel
<1> QED BY <1>1 DEF Types, CallOnly, streamVars, sinkVars, replyVars, Aim

LEMMA TypeStep == Types /\ Aim /\ [Next]_vars => Types' /\ Aim'
<1> SUFFICES ASSUME Types, Aim, [Next]_vars PROVE Types' /\ Aim'
  OBVIOUS
<1>1. CASE BreakWriter
  BY <1>1 DEF BreakWriter, Types, Aim, streamVars, sinkVars, replyVars, callVars
<1>2. CASE UNCHANGED vars
  BY <1>2 DEF vars, Types, Aim
<1>3. Own = Reads \cup Watches
  BY DEF Own
<1> QED BY <1>1, <1>2, <1>3, ReceiveType, HandleType, ThreadType, CallType DEF Next

(* Every variable keeps its type, and the reader is busy with a stream of  *)
(* the right side when it answers or pulls.                                *)
THEOREM TypesHold == Spec => [](Types /\ Aim)
<1>1. Init => Types /\ Aim
  BY TypeInit, TypeParts
<1> QED BY <1>1, TypeStep, PTL DEF Spec

(* Every variable has its type (StreamTable, ProducerStream, Consumer).    *)
THEOREM TypeCorrect == Spec => []TypeOK
BY TypesHold, TypeParts, PTL

-----------------------------------------------------------------------------
(* Calls: an answer that has not come finds its caller.                    *)

(* The drain empties the table of the calls and sends to every one of      *)
(* them, so what is in it from then on came later.                         *)
WaiterInv ==
    \A c \in Calls :
        /\ call[c] \in {"write", "wait"} /\ mailbox[c] = "empty" => c \in pending
        /\ c \in pending =>
              /\ call[c] \in {"write", "wait", "answered", "timedOut", "failed"}
              /\ Drained => c \in strays

LEMMA ThreadFrame ==
    ASSUME NEW s \in Own,
           \/ s \in Reads /\ Producer(s)
           \/ s \in Watches /\ (NextValue(s) \/ EventReacts(s))
    PROVE  UNCHANGED <<writable, link, reader, window, host, callVars>>
BY DEF Producer, EventReacts, ProducerWait, NextChunk, ProducerChunk, ForgetStream,
   SettleForgotten, ClaimEnding, WriteEnding, CloseHandle, NextValue, EventCancelled, EventSpend,
   EventChunk, ThreadOnly, sinkVars

(* The reader's other handlers: the drain is behind it as long as it was.  *)
LEMMA DrainedFrame ==
    ASSUME Types, Aim, Handle PROVE UNCHANGED callVars /\ (Drained' <=> Drained)
<1>0. reader \in ReaderState
  BY DEF Types
<1>1. UNCHANGED callVars
  BY DEF Handle, OpenReply, OpenPull, FailReply, Acknowledge, SinkWrite, CancelRemote,
     Restore, ReplenishWindow, CloseStreams, SignalStreams, PublishLinkFailure
<1>2. CASE OpenReply \/ OpenPull \/ FailReply \/ Acknowledge \/ SinkWrite \/ CancelRemote
           \/ Restore \/ ReplenishWindow
  <2>1. ~Drained
    BY <1>2 DEF OpenReply, OpenPull, FailReply, Acknowledge, SinkWrite, CancelRemote, Restore,
       ReplenishWindow, At, Drained
  <2>2. reader'.at \in {"read", "replenish", "failReply", "restore", "cancelRemote"}
    <3>1. CASE \E label \in {"failReply", "restore", "cancelRemote"} : Continue(label)
      BY <1>0, <3>1 DEF Continue, ReaderState
    <3>2. CASE Become(Reading)
      BY <3>2 DEF Become, Reading
    <3>3. CASE Become([Reading EXCEPT !.at = "replenish", !.stream = reader.stream])
      BY <3>3 DEF Become, Reading
    <3> QED BY <1>2, <3>1, <3>2, <3>3 DEF OpenReply, OpenPull, FailReply, Acknowledge,
            SinkWrite, CancelRemote, Restore, ReplenishWindow
  <2> QED BY <1>1, <2>1, <2>2 DEF Drained
<1>3. CASE CloseStreams
  BY <1>0, <1>3 DEF CloseStreams, At, Become, ReaderState, Drained
<1>4. CASE SignalStreams \/ PublishLinkFailure
  BY <1>0, <1>4 DEF SignalStreams, PublishLinkFailure, At, Continue, ReaderState, Drained
<1> QED BY <1>1, <1>2, <1>3, <1>4 DEF Handle

LEMMA WaiterStep == Types /\ Aim /\ WaiterInv /\ [Next]_vars => WaiterInv'
<1> SUFFICES ASSUME Types, Aim, WaiterInv, [Next]_vars PROVE WaiterInv'
  OBVIOUS
<1> USE DEF WaiterInv
<1>0. CASE UNCHANGED callVars /\ (Drained' => Drained)
  BY <1>0 DEF callVars
<1>1. ASSUME NEW c \in Calls, Caller(c) PROVE WaiterInv'
  <2>1. UNCHANGED reader /\ (Drained' <=> Drained)
    BY <1>1 DEF Caller, CallRegister, CallWrite, CallReceive, CallTimeout,
       CallUnregister, CallOnly, Drained
  <2> QED BY <1>1, <2>1 DEF Types, Caller, CallRegister, CallWrite, CallReceive,
          CallTimeout, CallUnregister, CallGoes
<1>2. ASSUME NEW c \in Calls, HostReplies(c) PROVE WaiterInv'
  BY <1>2 DEF Types, HostReplies, Drained
<1>3. ASSUME NEW failure \in LinkFailure, EndLink(failure) PROVE WaiterInv'
  BY <1>3 DEF Types, EndLink
<1>4. CASE Handle
  BY <1>0, <1>4, DrainedFrame
<1>5. CASE Receive
  <2>1. ASSUME ~\E c \in Calls : HostReplies(c),
               ~\E failure \in LinkFailure : EndLink(failure)
        PROVE  UNCHANGED callVars /\ ~Drained'
    <3>1. reader.at = "read"
      BY <1>5 DEF Receive, RefuseRequest, OpenStream, Cancel, Pull, ConsumeStream, Data,
         HostEnds, HostReplies, EndLink, Arrives, At
    <3>2. UNCHANGED callVars
          /\ (UNCHANGED reader \/ reader'.at \in {"openReply", "ack", "openPull", "sink"})
      BY <1>5, <2>1 DEF Receive, RefuseRequest, OpenStream, Cancel, Pull, ConsumeStream,
         Data, HostEnds, Become, Reading
    <3> QED BY <3>1, <3>2 DEF Drained
  <2> QED BY <1>0, <1>2, <1>3, <2>1
<1>6. CASE BreakWriter \/ UNCHANGED vars
  BY <1>0, <1>6 DEF BreakWriter, vars, callVars, Drained
<1>7. Own = Reads \cup Watches
  BY DEF Own
<1>8. ASSUME NEW s \in Own,
             \/ s \in Reads /\ Producer(s)
             \/ s \in Watches /\ (NextValue(s) \/ EventReacts(s))
      PROVE  WaiterInv'
  BY <1>0, <1>8, ThreadFrame DEF Drained
<1> QED BY <1>1, <1>4, <1>5, <1>6, <1>7, <1>8 DEF Next

(* A call that waits is in the table and will be found there, by the       *)
(* reader or by the end of the link, unless it was registered when that    *)
(* had passed; and it leaves no sender behind (call_timeout, dispatch,     *)
(* end_link).                                                              *)
THEOREM WaitersFound == Spec => []WaitersAreFindable
<1>1. Init => WaiterInv
  BY DEF Init, WaiterInv
<1>2. WaiterInv => WaitersAreFindable
  BY DEF WaiterInv, WaitersAreFindable
<1> QED BY <1>1, <1>2, WaiterStep, TypesHold, PTL DEF Spec

-----------------------------------------------------------------------------
(* The table, once the end of the link has emptied it.                     *)

Shut ==
    reader.at \in {"signal", "publish", "ended"} =>
        own = {} /\ \A h \in HostStreams : consumers[h] = NoConsumer

LEMMA ShutStep == Types /\ Aim /\ Shut /\ [Next]_vars => Shut'
<1> SUFFICES ASSUME Types, Aim, Shut, [Next]_vars PROVE Shut'
  OBVIOUS
<1> USE DEF Shut
<1>1. CASE Receive
  <2>1. reader.at = "read" /\ reader'.at \notin {"signal", "publish", "ended"}
    BY <1>1 DEF Receive, RefuseRequest, OpenStream, Cancel, Pull, ConsumeStream, Data,
       HostEnds, HostReplies, EndLink, Arrives, At, Become, Reading
  <2> QED BY <2>1
<1>2. CASE Handle
  <2>1. CASE OpenReply \/ OpenPull \/ FailReply \/ Acknowledge \/ SinkWrite
             \/ CancelRemote \/ Restore \/ ReplenishWindow
    <3>1. reader'.at \notin {"signal", "publish", "ended"}
      <4>1. CASE \E label \in {"failReply", "restore", "cancelRemote"} : Continue(label)
        BY <4>1 DEF Continue, Types, ReaderState
      <4>2. CASE Become(Reading)
        BY <4>2 DEF Become, Reading
      <4>3. CASE Become([Reading EXCEPT !.at = "replenish", !.stream = reader.stream])
        BY <4>3 DEF Become, Reading
      <4> QED BY <2>1, <4>1, <4>2, <4>3
              DEF OpenReply, OpenPull, FailReply, Acknowledge, SinkWrite, CancelRemote,
                  Restore, ReplenishWindow
    <3> QED BY <3>1
  <2>2. CASE CloseStreams
    BY <2>2 DEF CloseStreams
  <2>3. CASE SignalStreams \/ PublishLinkFailure
    BY <2>3 DEF SignalStreams, PublishLinkFailure, At, streamVars, sinkVars
  <2> QED BY <1>2, <2>1, <2>2, <2>3 DEF Handle
<1>3. ASSUME NEW s \in Own,
             \/ s \in Reads /\ Producer(s)
             \/ s \in Watches /\ (NextValue(s) \/ EventReacts(s))
      PROVE  Shut'
  <2>1. UNCHANGED reader
    BY <1>3, ThreadFrame
  <2>2. own' \subseteq own
    BY <1>3 DEF Producer, EventReacts, ProducerWait, NextChunk, ProducerChunk,
       ForgetStream, SettleForgotten, ClaimEnding, WriteEnding, CloseHandle, NextValue,
       EventCancelled, EventSpend, EventChunk
  <2>3. \A h \in HostStreams : consumers'[h] \in {consumers[h], NoConsumer}
    <3>1. CASE ForgetStream(s)
      BY <3>1 DEF ForgetStream, Types
    <3>2. CASE ~ForgetStream(s)
      <4>1. UNCHANGED consumers
        BY <1>3, <3>2 DEF Producer, EventReacts, ProducerWait, NextChunk, ProducerChunk,
           SettleForgotten, ClaimEnding, WriteEnding, CloseHandle, NextValue, EventCancelled,
           EventSpend, EventChunk, ThreadOnly, sinkVars
      <4> QED BY <4>1
    <3> QED BY <3>1, <3>2
  <2> QED BY <2>1, <2>2, <2>3
<1>4. CASE BreakWriter \/ UNCHANGED vars \/ \E c \in Calls : Caller(c)
  BY <1>4 DEF BreakWriter, vars, streamVars, sinkVars, Caller, CallRegister, CallWrite,
     CallReceive, CallTimeout, CallUnregister, CallOnly
<1>5. Own = Reads \cup Watches
  BY DEF Own
<1> QED BY <1>1, <1>2, <1>3, <1>4, <1>5 DEF Next

-----------------------------------------------------------------------------
(* Streams of the shell.                                                   *)

(* The thread writes the terminal frame, or has nothing more to write.     *)
Over(s) ==
    thread[s] \in {"lastWrite", "gone"} \/ (s \in Reads /\ thread[s] = "close")

(* What the reader is about to do with a stream.                           *)
Opens(s) == reader.at = "openReply" /\ reader.stream = s
Acks(s)  == reader.at = "ack" /\ reader.stream = s
Taken(s) == reader.at = "signal" /\ s \in reader.taken

(* Its thread took the entry and has yet to set the flag.                  *)
Settling(s) == thread[s] = "settle" /\ forgot[s].producer

(* Nothing happens to a stream before its reference is out.                *)
Opening(s) ==
    /\ s \notin host.asked => thread[s] = "none" /\ s \notin own /\ closed[s] = 0
    /\ thread[s] = "none" =>
          /\ wire[s].chunks = 0 /\ wire[s].ends = 0 /\ wire[s].late = 0
          /\ ~wire[s].acked /\ ~Cancelled(s) /\ ~Taken(s) /\ closed[s] <= 1
    /\ thread[s] = "none" /\ s \in own => Opens(s)
    /\ Opens(s) => s \in own /\ thread[s] = "none" /\ closed[s] = 0

(* The entry of the table is the right to the terminal frame: a cancel,    *)
(* the end of the link and a failed write take it away, and who lost it is *)
(* over.                                                                   *)
Entitled(s) ==
    /\ Cancelled(s) \/ Taken(s) => s \notin own
    /\ s \notin own /\ thread[s] # "none" /\ ~Cancelled(s) /\ ~Taken(s) =>
          Over(s) \/ Settling(s)
    /\ thread[s] = "settle" => s \notin own /\ (Settling(s) => wire[s].ends = 0)
    /\ Over(s) => s \notin own
    /\ thread[s] = "lastWrite" \/ wire[s].ends > 0 =>
          ~Cancelled(s) /\ ~Taken(s) /\ s \notin own
    /\ wire[s].ends > 0 => wire[s].ends = 1 /\ thread[s] # "lastWrite"
    /\ wire[s].acked \/ Acks(s) =>
          /\ s \notin own /\ thread[s] # "none" /\ ~Taken(s)
          /\ Cancelled(s) \/ Over(s) \/ Settling(s)

Sending(s) == thread[s] \in {"next", "chunk"}

(* Credit is spent before the chunk is sent, and only while nobody has     *)
(* cancelled.                                                              *)
Spending(s) ==
    /\ wire[s].late = 0 \/ (wire[s].late = 1 /\ Cancelled(s) /\ ~Sending(s))
    /\ wire[s].chunks + control[s].credit <= host.pulled[s]
    /\ Sending(s) => wire[s].chunks + control[s].credit + 1 <= host.pulled[s]

Closing(s) ==
    /\ thread[s] \in {"wait", "next", "value", "chunk", "forget", "settle", "close"} =>
          closed[s] = 0
    /\ thread[s] \in {"claim", "lastWrite"} =>
          closed[s] = IF s \in Reads THEN 0 ELSE 1
    /\ thread[s] = "gone" => closed[s] = 1

StreamOK(s) == Opening(s) /\ Entitled(s) /\ Spending(s) /\ Closing(s)

(* A step that only has to do with other streams.                          *)
LEMMA StreamFrame ==
    ASSUME NEW s \in Own, StreamOK(s),
           thread'[s] = thread[s], closed'[s] = closed[s], wire'[s] = wire[s],
           forgot'[s] = forgot[s],
           control'[s] = control[s], s \in own' <=> s \in own,
           Opens(s)' <=> Opens(s), Acks(s)' <=> Acks(s), Taken(s)' <=> Taken(s),
           s \in host.asked => s \in host'.asked, host'.pulled[s] = host.pulled[s]
    PROVE  StreamOK(s)'
<1> USE DEF StreamOK, Cancelled, Over, Settling
<1>1. Opening(s)'
  BY DEF Opening
<1>2. Entitled(s)'
  BY DEF Entitled
<1>3. Spending(s)'
  BY DEF Spending, Sending
<1>4. Closing(s)'
  BY DEF Closing
<1> QED BY <1>1, <1>2, <1>3, <1>4

(* The values of one stream have the types the arithmetic needs.           *)
LEMMA StreamValues ==
    ASSUME Types, NEW s \in Own
    PROVE  /\ wire[s].chunks \in Nat /\ wire[s].ends \in Nat /\ wire[s].late \in Nat
           /\ control[s].credit \in Nat /\ closed[s] \in Nat
           /\ host.pulled[s] \in Nat /\ wire[s].acked \in BOOLEAN
           /\ control[s].cancelled \in BOOLEAN /\ thread[s] \in ThreadLabel
           /\ wire[s] = [chunks |-> wire[s].chunks, ends |-> wire[s].ends,
                         late |-> wire[s].late, acked |-> wire[s].acked]
           /\ control[s] = [credit |-> control[s].credit,
                            cancelled |-> control[s].cancelled]
<1>1. wire[s] \in Received /\ control[s] \in ControlBlock /\ host.pulled[s] \in 0 .. MaxPull
  BY DEF Types, HostState
<1> QED BY <1>1, CreditAssumption DEF Types, Received, ControlBlock

(* What a thread's step makes of its own stream.                           *)
LEMMA ThreadEffect ==
    ASSUME Types, NEW s \in Own
    PROVE  /\ \A from, to : Step(s, from, to) =>
                 thread[s] = from /\ thread'[s] = to
                 /\ \A x \in Own : x # s => thread'[x] = thread[x]
           /\ SpendCredit(s) =>
                 /\ control'[s].credit = control[s].credit - 1
                 /\ control'[s].cancelled = control[s].cancelled
                 /\ \A x \in Own : x # s => control'[x] = control[x]
           /\ Chunk(s) =>
                 /\ wire'[s].chunks = wire[s].chunks + 1
                 /\ wire'[s].late = wire[s].late + (IF wire[s].acked THEN 1 ELSE 0)
                 /\ wire'[s].ends = wire[s].ends /\ wire'[s].acked = wire[s].acked
                 /\ \A x \in Own : x # s => wire'[x] = wire[x]
<1> USE StreamValues
<1>1. \A from, to : Step(s, from, to) =>
          thread[s] = from /\ thread'[s] = to
          /\ \A x \in Own : x # s => thread'[x] = thread[x]
  BY DEF Step, Types
<1>2. SpendCredit(s) =>
          /\ control'[s] = [control[s] EXCEPT !.credit = @ - 1]
          /\ \A x \in Own : x # s => control'[x] = control[x]
  BY DEF SpendCredit, Types
<1>3. /\ [control[s] EXCEPT !.credit = @ - 1].credit = control[s].credit - 1
      /\ [control[s] EXCEPT !.credit = @ - 1].cancelled = control[s].cancelled
  BY DEF Types, ControlBlock
<1> DEFINE more == IF wire[s].acked THEN 1 ELSE 0
<1>4. Chunk(s) =>
          /\ wire'[s] = [wire[s] EXCEPT !.chunks = @ + 1, !.late = @ + more]
          /\ \A x \in Own : x # s => wire'[x] = wire[x]
  BY DEF Chunk, Types
<1>5. /\ [wire[s] EXCEPT !.chunks = @ + 1, !.late = @ + more].chunks = wire[s].chunks + 1
      /\ [wire[s] EXCEPT !.chunks = @ + 1, !.late = @ + more].late = wire[s].late + more
      /\ [wire[s] EXCEPT !.chunks = @ + 1, !.late = @ + more].ends = wire[s].ends
      /\ [wire[s] EXCEPT !.chunks = @ + 1, !.late = @ + more].acked = wire[s].acked
  BY DEF Types, Received
<1> QED BY <1>1, <1>2, <1>3, <1>4, <1>5

LEMMA ThreadOwn ==
    ASSUME Types, NEW s \in Own, StreamOK(s),
           \/ s \in Reads /\ Producer(s)
           \/ s \in Watches /\ (NextValue(s) \/ EventReacts(s))
    PROVE  StreamOK(s)'
<1>0. s \in Reads <=> s \notin Watches
  BY KindsAssumption DEF Own
<1>1. UNCHANGED <<reader, host>>
  BY ThreadFrame
<1>a. /\ wire[s].chunks \in Nat /\ wire[s].ends \in Nat /\ wire[s].late \in Nat
      /\ control[s].credit \in Nat /\ closed[s] \in Nat /\ host.pulled[s] \in Nat
      /\ wire[s].acked \in BOOLEAN /\ control[s].cancelled \in BOOLEAN
  BY StreamValues
<1>b. host'.pulled[s] = host.pulled[s] /\ reader' = reader /\ host'.asked = host.asked
  BY <1>1
<1>c. Opening(s) /\ Entitled(s) /\ Spending(s) /\ Closing(s)
  BY DEF StreamOK
<1> USE <1>0, <1>a, <1>b, <1>c
    DEF Over, Opens, Acks, Taken, Sending, Cancelled, Settling
<1>2. CASE ProducerWait(s)
  <2>1. CASE Cancelled(s) /\ Step(s, "wait", "close") /\ UNCHANGED control
    <3>1. /\ thread[s] = "wait"
          /\ thread'[s] = "close"
          /\ Cancelled(s)
          /\ closed'[s] = closed[s]
          /\ s \in own' <=> s \in own
          /\ wire'[s] = wire[s]
          /\ control'[s] = control[s]
      BY <1>2, <2>1, ThreadEffect DEF ProducerWait
    <3>2. Opening(s)' /\ Closing(s)'
      BY <3>1 DEF Opening, Closing
    <3>4. Entitled(s)'
      BY <3>1 DEF Opening, Entitled
    <3>3. Spending(s)'
      BY <3>1 DEF Spending, Entitled
    <3> QED BY <3>2, <3>3, <3>4 DEF StreamOK
  <2>2. CASE ~Cancelled(s) /\ Step(s, "wait", "next") /\ SpendCredit(s)
    <3>1. /\ thread[s] = "wait"
          /\ thread'[s] = "next"
          /\ closed'[s] = closed[s]
          /\ s \in own' <=> s \in own
          /\ wire'[s] = wire[s]
          /\ control'[s].credit = control[s].credit - 1
          /\ control'[s].cancelled = control[s].cancelled
          /\ ~Cancelled(s)
          /\ control[s].credit > 0
      BY <1>2, <2>2, ThreadEffect DEF ProducerWait
    <3>2. Opening(s)' /\ Closing(s)'
      BY <3>1 DEF Opening, Closing
    <3>4. Entitled(s)'
      BY <3>1 DEF Opening, Entitled
    <3>3. Spending(s)'
      BY <3>1 DEF Spending, Entitled
    <3> QED BY <3>2, <3>3, <3>4 DEF StreamOK
  <2> QED BY <1>2, <2>1, <2>2 DEF ProducerWait
<1>3. CASE s \in Reads /\ NextChunk(s)
  <2>1. /\ thread[s] = "next"
        /\ thread'[s] \in {"chunk", "claim"}
        /\ closed'[s] = closed[s]
        /\ s \in own' <=> s \in own
        /\ wire'[s] = wire[s]
        /\ control'[s] = control[s]
    BY <1>3, ThreadEffect DEF NextChunk
  <2>2. Opening(s)' /\ Closing(s)'
    <3>1. Opening(s)'
      BY <2>1 DEF Opening
    <3>2. closed'[s] = 0 /\ s \in Reads
      BY <1>3, <2>1 DEF Closing
    <3>3. Closing(s)'
      BY <2>1, <3>2 DEF Closing
    <3> QED BY <3>1, <3>3
  <2>4. Entitled(s)'
    BY <2>1 DEF Opening, Entitled
  <2>3. Spending(s)'
    BY <2>1 DEF Spending, Entitled
  <2> QED BY <2>2, <2>3, <2>4 DEF StreamOK
<1>4. CASE s \in Reads /\ ProducerChunk(s)
  <2>1. CASE writable
    <3>1. /\ thread[s] = "chunk"
          /\ thread'[s] = "wait"
          /\ closed'[s] = closed[s]
          /\ s \in own' <=> s \in own
          /\ wire'[s].chunks = wire[s].chunks + 1
          /\ wire'[s].late = wire[s].late + (IF wire[s].acked THEN 1 ELSE 0)
          /\ wire'[s].ends = wire[s].ends
          /\ wire'[s].acked = wire[s].acked
          /\ control'[s] = control[s]
      BY <1>4, <2>1, ThreadEffect DEF ProducerChunk
    <3>2. Opening(s)' /\ Closing(s)'
      BY <3>1 DEF Opening, Closing
    <3>4. Entitled(s)'
      BY <3>1 DEF Opening, Entitled
    <3>3. Spending(s)'
      BY <3>1 DEF Spending, Entitled
    <3> QED BY <3>2, <3>3, <3>4 DEF StreamOK
  <2>2. CASE ~writable
    <3>1. /\ thread[s] = "chunk"
          /\ thread'[s] = "forget"
          /\ closed'[s] = closed[s]
          /\ s \in own' <=> s \in own
          /\ wire'[s] = wire[s]
          /\ control'[s] = control[s]
      BY <1>4, <2>2, ThreadEffect DEF ProducerChunk
    <3>2. Opening(s)' /\ Closing(s)'
      BY <3>1 DEF Opening, Closing
    <3>4. Entitled(s)'
      BY <3>1 DEF Opening, Entitled
    <3>3. Spending(s)'
      BY <3>1 DEF Spending, Entitled
    <3> QED BY <3>2, <3>3, <3>4 DEF StreamOK
  <2> QED BY <2>1, <2>2
<1>5. CASE s \in Reads /\ ForgetStream(s)
  <2>1. /\ thread[s] = "forget"
        /\ thread'[s] = "settle"
        /\ closed'[s] = closed[s]
        /\ s \notin own'
        /\ wire'[s] = wire[s]
        /\ control'[s] = control[s]
        /\ forgot'[s].producer = (s \in own)
    BY <1>5, ThreadEffect DEF ForgetStream, Types
  <2>2. Opening(s)' /\ Closing(s)'
    BY <2>1 DEF Opening, Closing
  <2>5. /\ s \in own => wire[s].ends = 0
        /\ s \notin own => Cancelled(s) \/ Taken(s)
    BY <2>1 DEF Entitled
  <2>6. Settling(s)' <=> s \in own
    BY <2>1
  <2>7. ~Over(s) /\ ~Over(s)' /\ (Cancelled(s)' <=> Cancelled(s))
        /\ (Taken(s)' <=> Taken(s)) /\ (Acks(s)' <=> Acks(s)) /\ ~Settling(s)
    BY <2>1
  <2>4. Entitled(s)'
    <3> HIDE DEF Over, Cancelled, Taken, Acks, Settling
    <3> QED BY <2>1, <2>5, <2>6, <2>7 DEF Entitled
  <2>3. Spending(s)'
    BY <2>1 DEF Spending, Entitled
  <2> QED BY <2>2, <2>3, <2>4 DEF StreamOK
<1>14. CASE s \in Reads /\ SettleForgotten(s)
  <2>1. /\ thread[s] = "settle"
        /\ thread'[s] = "close"
        /\ closed'[s] = closed[s]
        /\ s \in own' <=> s \in own
        /\ wire'[s] = wire[s]
        /\ control'[s].credit = control[s].credit
        /\ control'[s].cancelled = (control[s].cancelled \/ forgot[s].producer)
    BY <1>14, ThreadEffect DEF SettleForgotten, Types, ControlBlock
  <2>2. Opening(s)' /\ Closing(s)'
    BY <2>1 DEF Opening, Closing
  <2>4. Entitled(s)'
    BY <1>14, <2>1 DEF Opening, Entitled
  <2>3. Spending(s)'
    BY <2>1 DEF Spending, Entitled
  <2> QED BY <2>2, <2>3, <2>4 DEF StreamOK
<1>6. CASE (s \in Reads /\ ClaimEnding(s, "close"))
           \/ (s \in Watches /\ ClaimEnding(s, "gone"))
  <2>1. /\ thread[s] = "claim"
        /\ thread'[s] = IF s \in own THEN "lastWrite"
                        ELSE IF s \in Reads THEN "close" ELSE "gone"
        /\ closed'[s] = closed[s]
        /\ s \notin own'
        /\ wire'[s] = wire[s]
        /\ control'[s] = control[s]
    BY <1>6, ThreadEffect DEF ClaimEnding
  <2>2. Opening(s)' /\ Closing(s)'
    BY <2>1 DEF Opening, Closing
  <2>4. Entitled(s)'
    BY <2>1 DEF Opening, Entitled
  <2>3. Spending(s)'
    BY <2>1 DEF Spending, Entitled
  <2> QED BY <2>2, <2>3, <2>4 DEF StreamOK
<1>7. CASE (s \in Reads /\ WriteEnding(s, "close"))
           \/ (s \in Watches /\ WriteEnding(s, "gone"))
  <2>1. /\ thread[s] = "lastWrite"
        /\ thread'[s] = IF s \in Reads THEN "close" ELSE "gone"
        /\ closed'[s] = closed[s]
        /\ s \in own' <=> s \in own
        /\ wire'[s].chunks = wire[s].chunks
        /\ wire'[s].late = wire[s].late
        /\ wire'[s].acked = wire[s].acked
        /\ wire'[s].ends \in {wire[s].ends, wire[s].ends + 1}
        /\ control'[s] = control[s]
    BY <1>7, ThreadEffect DEF WriteEnding, Types, Received
  <2>2. Opening(s)' /\ Closing(s)'
    BY <2>1 DEF Opening, Closing
  <2>4. Entitled(s)'
    BY <2>1 DEF Opening, Entitled
  <2>3. Spending(s)'
    BY <2>1 DEF Spending, Entitled
  <2> QED BY <2>2, <2>3, <2>4 DEF StreamOK
<1>8. CASE (s \in Reads /\ CloseHandle(s, "gone"))
           \/ (s \in Watches /\ CloseHandle(s, "claim"))
  <2>1. /\ thread[s] = "close"
        /\ thread'[s] = IF s \in Reads THEN "gone" ELSE "claim"
        /\ closed'[s] = closed[s] + 1
        /\ s \in own' <=> s \in own
        /\ wire'[s] = wire[s]
        /\ control'[s] = control[s]
    BY <1>8, ThreadEffect DEF CloseHandle, Types
  <2>2. Opening(s)' /\ Closing(s)'
    BY <2>1 DEF Opening, Closing
  <2>4. Entitled(s)'
    BY <2>1 DEF Opening, Entitled
  <2>3. Spending(s)'
    BY <2>1 DEF Spending, Entitled
  <2> QED BY <2>2, <2>3, <2>4 DEF StreamOK
<1>9. CASE s \in Watches /\ (NextValue(s) \/ EventCancelled(s))
  <2>1. /\ thread[s] \in {"wait", "value"}
        /\ IF Cancelled(s) THEN thread'[s] = "close" ELSE thread'[s] = "value"
        /\ closed'[s] = closed[s]
        /\ s \in own' <=> s \in own
        /\ wire'[s] = wire[s]
        /\ control'[s] = control[s]
    BY <1>9, ThreadEffect DEF NextValue, EventCancelled
  <2>2. Opening(s)' /\ Closing(s)'
    BY <2>1 DEF Opening, Closing
  <2>4. Entitled(s)'
    BY <2>1 DEF Opening, Entitled
  <2>3. Spending(s)'
    BY <2>1 DEF Spending, Entitled
  <2> QED BY <2>2, <2>3, <2>4 DEF StreamOK
<1>10. CASE s \in Watches /\ EventSpend(s)
  <2>1. /\ thread[s] = "value"
        /\ thread'[s] = "chunk"
        /\ closed'[s] = closed[s]
        /\ s \in own' <=> s \in own
        /\ wire'[s] = wire[s]
        /\ control'[s].credit = control[s].credit - 1
        /\ control'[s].cancelled = control[s].cancelled
        /\ ~Cancelled(s)
        /\ control[s].credit > 0
    BY <1>10, ThreadEffect DEF EventSpend
  <2>2. Opening(s)' /\ Closing(s)'
    BY <2>1 DEF Opening, Closing
  <2>4. Entitled(s)'
    BY <2>1 DEF Opening, Entitled
  <2>3. Spending(s)'
    BY <2>1 DEF Spending, Entitled
  <2> QED BY <2>2, <2>3, <2>4 DEF StreamOK
<1>11. CASE s \in Watches /\ EventChunk(s)
  <2>1. CASE writable
    <3>1. /\ thread[s] = "chunk"
          /\ thread'[s] = "wait"
          /\ closed'[s] = closed[s]
          /\ s \in own' <=> s \in own
          /\ wire'[s].chunks = wire[s].chunks + 1
          /\ wire'[s].late = wire[s].late + (IF wire[s].acked THEN 1 ELSE 0)
          /\ wire'[s].ends = wire[s].ends
          /\ wire'[s].acked = wire[s].acked
          /\ control'[s] = control[s]
      BY <1>11, <2>1, ThreadEffect DEF EventChunk
    <3>2. Opening(s)' /\ Closing(s)'
      BY <3>1 DEF Opening, Closing
    <3>4. Entitled(s)'
      BY <3>1 DEF Opening, Entitled
    <3>3. Spending(s)'
      BY <3>1 DEF Spending, Entitled
    <3> QED BY <3>2, <3>3, <3>4 DEF StreamOK
  <2>2. CASE ~writable
    <3>1. /\ thread[s] = "chunk"
          /\ thread'[s] = "close"
          /\ closed'[s] = closed[s]
          /\ s \in own' <=> s \in own
          /\ wire'[s] = wire[s]
          /\ control'[s] = control[s]
      BY <1>11, <2>2, ThreadEffect DEF EventChunk
    <3>2. Opening(s)' /\ Closing(s)'
      BY <3>1 DEF Opening, Closing
    <3>4. Entitled(s)'
      <4>1. ~Over(s) /\ ~Over(s)'
        BY <1>11, <3>1 DEF Entitled
      <4>2. UNCHANGED <<Opens(s), Acks(s), Taken(s), Cancelled(s)>>
        BY <3>1
      <4> HIDE DEF Over, Opens, Acks, Taken, Cancelled
      <4> QED BY <3>1, <4>1, <4>2 DEF Entitled
    <3>3. Spending(s)'
      BY <3>1 DEF Spending, Entitled
    <3> QED BY <3>2, <3>3, <3>4 DEF StreamOK
  <2> QED BY <2>1, <2>2
<1> HIDE <1>0, <1>a, <1>b, <1>c
         DEF Over, Opens, Acks, Taken, Sending, Cancelled, Settling
<1>12. CASE s \in Reads /\ Producer(s)
  <2>1. CASE \/ ProducerWait(s) \/ NextChunk(s) \/ ProducerChunk(s)
             \/ ForgetStream(s) \/ SettleForgotten(s)
    BY <1>2, <1>3, <1>4, <1>5, <1>14, <1>12, <2>1
  <2>2. CASE ClaimEnding(s, "close")
    BY <1>6, <1>12, <2>2
  <2>3. CASE WriteEnding(s, "close")
    BY <1>7, <1>12, <2>3
  <2>4. CASE CloseHandle(s, "gone")
    BY <1>8, <1>12, <2>4
  <2> QED BY <1>12, <2>1, <2>2, <2>3, <2>4 DEF Producer
<1>13. CASE s \in Watches /\ (NextValue(s) \/ EventReacts(s))
  BY <1>6, <1>7, <1>8, <1>9, <1>10, <1>11, <1>13 DEF EventReacts
<1> QED BY <1>12, <1>13

LEMMA ThreadOthers ==
    ASSUME Types, NEW s \in Own, NEW x \in Own, x # s, StreamOK(x),
           \/ s \in Reads /\ Producer(s)
           \/ s \in Watches /\ (NextValue(s) \/ EventReacts(s))
    PROVE  StreamOK(x)'
<1>1. UNCHANGED <<reader, host>>
  BY ThreadFrame
<1>2. /\ thread'[x] = thread[x] /\ closed'[x] = closed[x] /\ wire'[x] = wire[x]
      /\ control'[x] = control[x] /\ forgot'[x] = forgot[x] /\ (x \in own' <=> x \in own)
  <2> USE ThreadEffect DEF Types, ThreadOnly
  <2>1. CASE ProducerWait(s)
    BY <2>1 DEF ProducerWait
  <2>2. CASE NextChunk(s)
    BY <2>2 DEF NextChunk
  <2>3. CASE ProducerChunk(s)
    BY <2>3 DEF ProducerChunk
  <2>4. CASE ForgetStream(s) \/ SettleForgotten(s)
    BY <2>4 DEF ForgetStream, SettleForgotten
  <2>5. CASE ClaimEnding(s, "close") \/ ClaimEnding(s, "gone")
    BY <2>5 DEF ClaimEnding
  <2>6. CASE WriteEnding(s, "close") \/ WriteEnding(s, "gone")
    BY <2>6 DEF WriteEnding
  <2>7. CASE CloseHandle(s, "gone") \/ CloseHandle(s, "claim")
    BY <2>7 DEF CloseHandle
  <2>8. CASE NextValue(s) \/ EventCancelled(s) \/ EventSpend(s) \/ EventChunk(s)
    BY <2>8 DEF NextValue, EventCancelled, EventSpend, EventChunk
  <2> QED BY <2>1, <2>2, <2>3, <2>4, <2>5, <2>6, <2>7, <2>8 DEF Producer, EventReacts
<1> QED BY <1>1, <1>2, StreamFrame DEF Opens, Acks, Taken

(* The reader's steps that concern no stream of the shell.                 *)
Aside ==
    /\ UNCHANGED streamVars
    /\ \/ /\ reader'.at = reader.at /\ reader'.stream = reader.stream
          /\ reader'.taken = reader.taken
       \/ {reader.at, reader'.at} \cap {"openReply", "ack", "signal"} = {}
    /\ host.asked \subseteq host'.asked /\ UNCHANGED host.pulled

LEMMA AsideStep ==
    ASSUME NEW s \in Own, StreamOK(s), Aside PROVE StreamOK(s)'
BY StreamFrame DEF Aside, streamVars, Opens, Acks, Taken

LEMMA ReceiveStreams ==
    ASSUME Types, Aim, Shut, NEW x \in Own, StreamOK(x), Receive PROVE StreamOK(x)'
<1>f. forgot'[x] = forgot[x]
  BY DEF Receive, RefuseRequest, OpenStream, Cancel, Pull, ConsumeStream, Data, HostEnds,
     HostReplies, EndLink, streamVars
<1> USE <1>f DEF Settling
<1>0. /\ reader.at = "read" /\ ~Opens(x) /\ ~Acks(x) /\ ~Taken(x)
      /\ wire[x].chunks \in Nat /\ wire[x].ends \in Nat /\ wire[x].late \in Nat
      /\ control[x].credit \in Nat /\ closed[x] \in Nat /\ host.pulled[x] \in Nat
      /\ wire[x].acked \in BOOLEAN /\ control[x].cancelled \in BOOLEAN
      /\ host \in HostState
  BY StreamValues DEF Receive, RefuseRequest, OpenStream, Cancel, Pull, ConsumeStream, Data,
     HostEnds, HostReplies, EndLink, Arrives, At, Opens, Acks, Taken, Types
<1>1. ASSUME NEW s \in Own, OpenStream(s) PROVE StreamOK(x)'
  <2>1. /\ reader'.at = "openReply" /\ reader'.stream = s
        /\ UNCHANGED <<control, thread, closed, wire>>
        /\ own' = own \cup {s}
        /\ s \notin host.asked /\ host'.asked = host.asked \cup {s}
        /\ host'.pulled = host.pulled
    BY <1>0, <1>1, RequestKinds DEF OpenStream, Arrives, Become, Reading, HostState
  <2>2. CASE x = s
    <3>1. /\ Opens(x)' /\ ~Acks(x)' /\ ~Taken(x)' /\ x \in own' /\ thread'[x] = "none"
          /\ closed'[x] = 0 /\ wire'[x] = wire[x] /\ control'[x] = control[x]
          /\ x \in host'.asked
      BY <2>1, <2>2 DEF StreamOK, Opening, Opens, Acks, Taken
    <3>2. Opening(x)' /\ Closing(x)'
      BY <3>1, <2>1, <2>2 DEF StreamOK, Opening, Closing, Cancelled
    <3>3. Entitled(x)' /\ Spending(x)'
      BY <3>1, <2>1, <2>2 DEF StreamOK, Opening, Entitled, Spending, Cancelled, Over, Sending
    <3> QED BY <3>2, <3>3 DEF StreamOK
  <2>3. CASE x # s
    <3>1. ~Opens(x)' /\ ~Acks(x)' /\ ~Taken(x)'
      BY <2>1, <2>3 DEF Opens, Acks, Taken
    <3> QED BY <1>0, <2>1, <2>3, <3>1, StreamFrame
  <2> QED BY <2>2, <2>3
<1>2. ASSUME NEW s \in Own, Cancel(s) PROVE StreamOK(x)'
  <2>1. /\ reader'.at = "ack" /\ reader'.stream = s
        /\ UNCHANGED <<thread, closed, wire>> /\ thread[s] # "none"
        /\ own' = own \ {s}
        /\ host'.asked = host.asked /\ host'.pulled = host.pulled
    BY <1>0, <1>2 DEF Cancel, Known, Become, Reading, HostState
  <2>2. /\ control'[x].credit = control[x].credit
        /\ control'[x].cancelled = (control[x].cancelled \/ (x = s /\ s \in own))
        /\ x # s => control'[x] = control[x]
    BY <1>2 DEF Cancel, Types, ControlBlock
  <2>3. CASE x = s
    <3>1. /\ ~Opens(x)' /\ Acks(x)' /\ ~Taken(x)' /\ x \notin own'
          /\ thread'[x] = thread[x] /\ closed'[x] = closed[x] /\ wire'[x] = wire[x]
      BY <2>1, <2>3 DEF Opens, Acks, Taken
    <3>2. Opening(x)' /\ Closing(x)'
      BY <1>0, <3>1, <2>1, <2>2, <2>3 DEF StreamOK, Opening, Closing, Cancelled
    <3>3. Entitled(x)'
      BY <1>0, <3>1, <2>1, <2>2, <2>3 DEF StreamOK, Entitled, Cancelled, Over
    <3>4. Spending(x)'
      BY <1>0, <3>1, <2>1, <2>2, <2>3 DEF StreamOK, Spending, Cancelled, Sending
    <3> QED BY <3>2, <3>3, <3>4 DEF StreamOK
  <2>4. CASE x # s
    <3>1. ~Opens(x)' /\ ~Acks(x)' /\ ~Taken(x)'
      BY <2>1, <2>4 DEF Opens, Acks, Taken
    <3> QED BY <1>0, <2>1, <2>2, <2>4, <3>1, StreamFrame
  <2> QED BY <2>3, <2>4
<1>3. ASSUME NEW s \in Own, NEW n \in 1 .. MaxPull, Pull(s, n) PROVE StreamOK(x)'
  <2>1. /\ UNCHANGED <<reader, own, thread, closed, wire>> /\ thread[s] # "none"
        /\ host'.asked = host.asked
        /\ host'.pulled = [host.pulled EXCEPT ![s] = @ + n]
    BY <1>0, <1>3 DEF Pull, Known, HostState
  <2>2. /\ control'[x].cancelled = control[x].cancelled
        /\ x # s => control'[x] = control[x] /\ host'.pulled[x] = host.pulled[x]
        /\ x = s => /\ control'[x].credit \in {control[x].credit, control[x].credit + n}
                    /\ host'.pulled[x] = host.pulled[x] + n
    BY <1>0, <1>3, <2>1 DEF Pull, Types, ControlBlock, HostState
  <2>3. ~Opens(x)' /\ ~Acks(x)' /\ ~Taken(x)'
    BY <1>0, <2>1 DEF Opens, Acks, Taken
  <2>4. CASE x = s
    <3>1. Opening(x)' /\ Closing(x)'
      BY <1>0, <2>1, <2>2, <2>3, <2>4 DEF StreamOK, Opening, Closing, Cancelled
    <3>2. Entitled(x)'
      BY <1>0, <2>1, <2>2, <2>3, <2>4 DEF StreamOK, Entitled, Cancelled, Over
    <3>3. Spending(x)'
      <4>1. n \in Nat /\ n > 0 /\ wire'[x] = wire[x] /\ thread'[x] = thread[x]
        BY <2>1, CreditAssumption
      <4>2. control'[x].credit - control[x].credit <= n
        BY <1>0, <2>2, <2>4, <4>1
      <4>3. control'[x].credit \in Nat
        BY <1>0, <2>2, <2>4, <4>1
      <4> QED BY <1>0, <2>2, <2>4, <4>1, <4>2, <4>3
              DEF StreamOK, Spending, Cancelled, Sending
    <3> QED BY <3>1, <3>2, <3>3 DEF StreamOK
  <2>5. CASE x # s
    BY <1>0, <2>1, <2>2, <2>3, <2>5, StreamFrame
  <2> QED BY <2>4, <2>5
<1>4. CASE Aside
  BY <1>4, AsideStep
<1>5. ASSUME NEW r \in Requests, RefuseRequest(r) PROVE Aside
  BY <1>0, <1>5 DEF RefuseRequest, Arrives, HostState, Aside
<1>6. ASSUME NEW w \in Writes, NEW h \in HostStreams, ConsumeStream(w, h) PROVE Aside
  <2>1. host.asked \subseteq host'.asked /\ host'.pulled = host.pulled
    BY <1>0, <1>6 DEF ConsumeStream, Arrives, HostState
  <2>2. reader' = reader \/ reader'.at = "openPull"
    BY <1>6 DEF ConsumeStream, Become, Reading
  <2> QED BY <1>0, <1>6, <2>1, <2>2 DEF ConsumeStream, Aside
<1>7. ASSUME NEW h \in HostStreams, Data(h) PROVE Aside
  <2>1. reader' = reader \/ reader'.at = "sink"
    BY <1>7 DEF Data, Become, Reading
  <2> QED BY <1>0, <1>7, <2>1 DEF Data, Aside
<1>8. ASSUME NEW h \in HostStreams, HostEnds(h) PROVE Aside
  BY <1>0, <1>8 DEF HostEnds, HostState, Aside
<1>9. ASSUME NEW c \in Calls, HostReplies(c) PROVE Aside
  BY <1>0, <1>9 DEF HostReplies, HostState, Aside
<1>10. ASSUME NEW failure \in LinkFailure, EndLink(failure) PROVE Aside
  BY <1>0, <1>10 DEF EndLink, Become, Reading, Aside
<1> QED BY <1>1, <1>2, <1>3, <1>4, <1>5, <1>6, <1>7, <1>8, <1>9, <1>10 DEF Receive

LEMMA HandleStreams ==
    ASSUME Types, Aim, Shut, NEW x \in Own, StreamOK(x), Handle PROVE StreamOK(x)'
<1>f. forgot'[x] = forgot[x]
  BY DEF Handle, OpenReply, OpenPull, FailReply, Acknowledge, SinkWrite, CancelRemote,
     Restore, ReplenishWindow, CloseStreams, SignalStreams, PublishLinkFailure, streamVars
<1> USE <1>f DEF Settling
<1>0. /\ wire[x].chunks \in Nat /\ wire[x].ends \in Nat /\ wire[x].late \in Nat
      /\ control[x].credit \in Nat /\ closed[x] \in Nat /\ host.pulled[x] \in Nat
      /\ wire[x].acked \in BOOLEAN /\ control[x].cancelled \in BOOLEAN
      /\ reader \in ReaderState /\ host \in HostState
      /\ own \subseteq Own
  BY StreamValues DEF Types
<1>1. CASE OpenReply
  <2>1. /\ reader.at = "openReply" /\ reader'.at = "read" /\ reader.stream \in Own
        /\ UNCHANGED <<control, wire, host>>
    BY <1>1 DEF OpenReply, Become, Reading, At, Aim
  <2>2. ~Opens(x)' /\ ~Acks(x)' /\ ~Taken(x)' /\ ~Taken(x) /\ ~Acks(x)
    BY <2>1 DEF Opens, Acks, Taken
  <2>3. CASE x = reader.stream
    <3>1. /\ Opens(x) /\ x \in own /\ thread[x] = "none" /\ closed[x] = 0
      BY <2>1, <2>3 DEF Opens, StreamOK, Opening
    <3>2. CASE writable
      <4>1. thread'[x] = "wait" /\ closed'[x] = 0 /\ x \in own'
        BY <1>1, <2>3, <3>1, <3>2 DEF OpenReply, Types
      <4>2. x \in host'.asked
        BY <2>1, <3>1 DEF StreamOK, Opening
      <4>3. Opening(x)' /\ Closing(x)'
        BY <2>2, <4>1, <4>2 DEF Opening, Closing
      <4>4. Entitled(x)' /\ Spending(x)'
        BY <2>1, <2>2, <3>1, <4>1
           DEF StreamOK, Opening, Entitled, Spending, Cancelled, Over, Sending
      <4> QED BY <4>3, <4>4 DEF StreamOK
    <3>3. CASE ~writable
      <4>1. thread'[x] = "none" /\ closed'[x] = 1 /\ x \notin own'
        BY <1>1, <2>3, <3>1, <3>3 DEF OpenReply, Types
      <4>2. x \in host'.asked
        BY <2>1, <3>1 DEF StreamOK, Opening
      <4>3. Opening(x)' /\ Closing(x)'
        BY <2>1, <2>2, <3>1, <4>1, <4>2 DEF StreamOK, Opening, Closing, Cancelled
      <4>4. Entitled(x)' /\ Spending(x)'
        BY <2>1, <2>2, <3>1, <4>1
           DEF StreamOK, Opening, Entitled, Spending, Cancelled, Over, Sending
      <4> QED BY <4>3, <4>4 DEF StreamOK
    <3> QED BY <3>2, <3>3
  <2>4. CASE x # reader.stream
    <3>1. /\ thread'[x] = thread[x] /\ closed'[x] = closed[x]
          /\ (x \in own' <=> x \in own) /\ ~Opens(x)
      BY <1>1, <2>4 DEF OpenReply, Types, Opens
    <3> QED BY <2>1, <2>2, <3>1, StreamFrame
  <2> QED BY <2>3, <2>4
<1>2. CASE Acknowledge
  <2>1. /\ reader.at = "ack" /\ reader'.at = "read" /\ reader.stream \in Own
        /\ UNCHANGED <<own, control, thread, closed, host>>
    BY <1>2 DEF Acknowledge, Become, Reading, At, Aim
  <2>2. ~Opens(x)' /\ ~Acks(x)' /\ ~Taken(x)' /\ ~Taken(x) /\ ~Opens(x)
    BY <2>1 DEF Opens, Acks, Taken
  <2>3. /\ wire'[x].chunks = wire[x].chunks /\ wire'[x].ends = wire[x].ends
        /\ wire'[x].late = wire[x].late
        /\ x # reader.stream => wire'[x] = wire[x]
        /\ wire'[x].acked => wire[x].acked \/ x = reader.stream
        /\ wire[x].acked => wire'[x].acked
    BY <1>2 DEF Acknowledge, Types, Received
  <2>4. CASE x = reader.stream
    <3>1. Acks(x)
      BY <2>1, <2>4 DEF Acks
    <3>2. Opening(x)' /\ Closing(x)'
      BY <2>1, <2>2, <2>3, <3>1 DEF StreamOK, Opening, Entitled, Closing, Cancelled
    <3>3. Entitled(x)' /\ Spending(x)'
      BY <2>1, <2>2, <2>3, <3>1 DEF StreamOK, Entitled, Spending, Cancelled, Over, Sending
    <3> QED BY <3>2, <3>3 DEF StreamOK
  <2>5. CASE x # reader.stream
    <3>1. ~Acks(x)
      BY <2>5 DEF Acks
    <3> QED BY <2>1, <2>2, <2>3, <2>5, <3>1, StreamFrame
  <2> QED BY <2>4, <2>5
<1>3. CASE CloseStreams
  <2>1. /\ reader.at = "closeStreams" /\ reader'.at = "signal" /\ reader'.taken = own
        /\ own' = {} /\ UNCHANGED <<control, thread, closed, wire, host>>
    BY <1>0, <1>3 DEF CloseStreams, Become, At, ReaderState
  <2>2. /\ ~Opens(x) /\ ~Acks(x) /\ ~Taken(x) /\ ~Opens(x)' /\ ~Acks(x)'
        /\ (Taken(x)' <=> x \in own) /\ x \notin own'
    BY <2>1 DEF Opens, Acks, Taken
  <2>3. Opening(x)' /\ Closing(x)'
    BY <2>1, <2>2 DEF StreamOK, Opening, Closing, Cancelled
  <2>4. Entitled(x)' /\ Spending(x)'
    BY <2>1, <2>2 DEF StreamOK, Opening, Entitled, Spending, Cancelled, Over, Sending
  <2> QED BY <2>3, <2>4 DEF StreamOK
<1>4. CASE SignalStreams
  <2>1. /\ reader.at = "signal" /\ reader'.at = "publish" /\ own = {}
        /\ UNCHANGED <<own, thread, closed, wire, host>>
    BY <1>0, <1>4 DEF SignalStreams, Continue, At, ReaderState, Shut
  <2>2. /\ control'[x].credit = control[x].credit
        /\ (Cancelled(x)' <=> Cancelled(x) \/ Taken(x))
    BY <1>0, <1>4, <2>1 DEF SignalStreams, Types, ControlBlock, Cancelled, Taken
  <2>3. /\ ~Opens(x) /\ ~Acks(x) /\ ~Opens(x)' /\ ~Acks(x)' /\ ~Taken(x)' /\ x \notin own
    BY <2>1 DEF Opens, Acks, Taken
  <2>4. Opening(x)' /\ Closing(x)'
    <3>1. thread[x] = "none" => ~Taken(x)
      BY DEF StreamOK, Opening
    <3> QED BY <2>1, <2>2, <2>3, <3>1 DEF StreamOK, Opening, Closing
  <2>5. Entitled(x)' /\ Spending(x)'
    BY <2>1, <2>2, <2>3 DEF StreamOK, Opening, Entitled, Spending, Over, Sending
  <2> QED BY <2>4, <2>5 DEF StreamOK
<1>5. CASE Aside
  BY <1>5, AsideStep
<1>6. CASE OpenPull
  <2>1. UNCHANGED host \/ host' = [host EXCEPT !.opened = @ \cup {reader.stream}]
    BY <1>6 DEF OpenPull
  <2>2. host'.asked = host.asked /\ host'.pulled = host.pulled
    BY <1>0, <2>1 DEF HostState
  <2>3. reader.at = "openPull" /\ reader'.at \in {"read", "failReply"}
    BY <1>0, <1>6 DEF OpenPull, At, Become, Continue, Reading, ReaderState
  <2>4. Aside
    BY <1>6, <2>2, <2>3 DEF OpenPull, Aside
  <2> QED BY <1>5, <2>4
<1>7. CASE FailReply \/ CancelRemote \/ SinkWrite \/ PublishLinkFailure
  <2>1. /\ reader.at \in {"failReply", "cancelRemote", "sink", "publish"}
        /\ reader'.at \in {"read", "restore", "cancelRemote", "ended"}
    BY <1>0, <1>7 DEF FailReply, CancelRemote, SinkWrite, PublishLinkFailure, At, Become,
       Continue, Reading, ReaderState
  <2>2. Aside
    BY <1>7, <2>1 DEF FailReply, CancelRemote, SinkWrite, PublishLinkFailure, Aside
  <2> QED BY <1>5, <2>2
<1>8. CASE Restore \/ ReplenishWindow
  <2>1. reader.at \in {"restore", "replenish"} /\ reader'.at \in {"read", "replenish"}
    <3>1. reader.at \in {"restore", "replenish"}
      BY <1>8 DEF Restore, ReplenishWindow, At
    <3>2. Become([Reading EXCEPT !.at = "replenish", !.stream = reader.stream])
          \/ Become(Reading)
      BY <1>8 DEF Restore, ReplenishWindow
    <3>3. /\ [Reading EXCEPT !.at = "replenish", !.stream = reader.stream].at = "replenish"
          /\ Reading.at = "read"
      BY DEF Reading
    <3> QED BY <3>1, <3>2, <3>3 DEF Become
  <2>2. Aside
    BY <1>8, <2>1 DEF Restore, ReplenishWindow, Aside
  <2> QED BY <1>5, <2>2
<1> QED BY <1>1, <1>2, <1>3, <1>4, <1>6, <1>7, <1>8 DEF Handle

StreamInv == \A s \in Own : StreamOK(s)

LEMMA StreamStep == Types /\ Aim /\ Shut /\ StreamInv /\ [Next]_vars => StreamInv'
<1> SUFFICES ASSUME Types, Aim, Shut, StreamInv, [Next]_vars,
                    NEW x \in Own
             PROVE  StreamOK(x)'
  BY DEF StreamInv
<1>0. StreamOK(x) /\ Own = Reads \cup Watches
  BY DEF StreamInv, Own
<1>1. CASE Receive
  BY <1>0, <1>1, ReceiveStreams
<1>2. CASE Handle
  BY <1>0, <1>2, HandleStreams
<1>3. ASSUME NEW s \in Own,
             \/ s \in Reads /\ Producer(s)
             \/ s \in Watches /\ (NextValue(s) \/ EventReacts(s))
      PROVE  StreamOK(x)'
  <2>1. CASE s = x
    BY <1>0, <1>3, <2>1, ThreadOwn
  <2>2. CASE s # x
    BY <1>0, <1>3, <2>2, ThreadOthers
  <2> QED BY <2>1, <2>2
<1>4. CASE BreakWriter \/ UNCHANGED vars \/ \E c \in Calls : Caller(c)
  <2>1. Aside
    BY <1>4 DEF BreakWriter, vars, streamVars, Caller, CallRegister, CallWrite,
       CallReceive, CallTimeout, CallUnregister, CallOnly, Aside
  <2> QED BY <1>0, <2>1, AsideStep
<1> QED BY <1>0, <1>1, <1>2, <1>3, <1>4 DEF Next

(* The table is empty once the link is ending, and every stream of the     *)
(* shell keeps the invariant of its entry (ProducerStream, EventStream).   *)
THEOREM StreamsHold == Spec => [](Shut /\ StreamInv)
<1>1. Init => Shut /\ StreamInv
  BY DEF Init, Shut, Reading, StreamInv, StreamOK, Opening, Entitled, Spending, Closing,
     Cancelled, Over, Settling, Opens, Acks, Taken, Sending, Own
<1> QED BY <1>1, ShutStep, StreamStep, TypesHold, PTL DEF Spec

(* The host is never sent more than it granted, and after the              *)
(* acknowledgement of its cancel at most one chunk (wait_for_credit).      *)
THEOREM FlowHolds == Spec => []FlowIsRespected
<1>1. Types /\ StreamInv => FlowIsRespected
  BY StreamValues DEF StreamInv, StreamOK, Spending, FlowIsRespected, CreditIsRespected,
     LateChunkIsLast, Sending
<1> QED BY <1>1, StreamsHold, TypesHold, PTL

-----------------------------------------------------------------------------
(* Sinks of hands.write.                                                   *)

(* Who has the sink of a write: the table, the reader while it writes to   *)
(* it, the end of the link, or the thread of a stream that failed.         *)
Tabled(w) == \E h \in HostStreams : consumers[h].sink = w
Held(w)   == reader.at \in {"sink", "restore"} /\ reader.consumer.sink = w
Swept(w)  == reader.at = "signal" /\ w \in reader.sinks
Near(w)   == Tabled(w) \/ Held(w) \/ Swept(w)
Owned(w)  == Near(w) \/ Forgotten(w)

(* One thread at most has taken a sink out.                                *)
Single(w) ==
    \A s, t \in Own :
        /\ thread[s] = "settle" /\ forgot[s].sink = w
        /\ thread[t] = "settle" /\ forgot[t].sink = w
        => s = t

(* The handler of a hands.write whose first pull failed.                   *)
Failing(w) == reader.at = "failReply" /\ w \in reader.sinks

(* A sink stands at one place of the table, and not in the reader's hand   *)
(* at the same time.                                                       *)
OnePlace ==
    /\ \A g, h \in HostStreams :
          consumers[g].sink = consumers[h].sink /\ consumers[g] # NoConsumer => g = h
    /\ reader.at \in {"sink", "restore"} => ~Tabled(reader.consumer.sink)

(* Whoever has the sink owes its ending, and the ending answers.           *)
SinkOK(w) ==
    /\ w \notin host.asked =>
          /\ finished[w] = 0 /\ replies[w] = 0 /\ w \notin answered
          /\ ~Owned(w) /\ w \notin reader.sinks
    /\ finished[w] <= 1
    /\ finished[w] = 1 => ~Owned(w)
    /\ replies[w] <= 1
    /\ w \notin answered => replies[w] = 0
    /\ w \in host.asked /\ w \notin answered => Owned(w) \/ Failing(w)
    /\ Forgotten(w) => ~Near(w)
    /\ Single(w)

SinkInv == OnePlace /\ \A w \in Writes : SinkOK(w)

(* No thread takes a sink out, or finishes one.                            *)
ForgotFrame ==
    \A w \in Writes : (Forgotten(w)' <=> Forgotten(w)) /\ (Single(w)' <=> Single(w))

LEMMA ForgotStill ==
    ASSUME UNCHANGED forgot, \A s \in Own : thread'[s] = "settle" <=> thread[s] = "settle"
    PROVE  ForgotFrame
BY DEF ForgotFrame, Forgotten, Single

LEMMA SinkValues ==
    ASSUME Types, NEW w \in Writes
    PROVE  /\ finished[w] \in Nat /\ replies[w] \in Nat /\ w # None
           /\ \A s : Finish(s) =>
                 /\ finished'[w] = IF w \in s THEN finished[w] + 1 ELSE finished[w]
                 /\ (w \in answered' <=> w \in answered \/ w \in s)
                 /\ replies'[w] = IF w \in s /\ w \notin answered THEN replies[w] + 1
                                  ELSE replies[w]
           /\ \A s : Answer(s) =>
                 /\ (w \in answered' <=> w \in answered \/ w \in s)
                 /\ replies'[w] = IF w \in s /\ w \notin answered THEN replies[w] + 1
                                  ELSE replies[w]
<1>1. finished[w] \in Nat /\ replies[w] \in Nat /\ w \in Requests /\ w # None
  BY RequestKinds, KindsAssumption DEF Types
<1>2. \A s : Answer(s) =>
         /\ (w \in answered' <=> w \in answered \/ w \in s)
         /\ replies'[w] = IF w \in s /\ w \notin answered THEN replies[w] + 1
                          ELSE replies[w]
  BY <1>1 DEF Answer
<1>3. \A s : Finish(s) =>
         /\ Answer(s)
         /\ finished'[w] = IF w \in s THEN finished[w] + 1 ELSE finished[w]
  BY <1>1 DEF Finish
<1> QED BY <1>1, <1>2, <1>3

(* A step that leaves the write's answer alone and its sink in some hand.  *)
LEMMA SinkFrame ==
    ASSUME Types, NEW w \in Writes, SinkOK(w), ForgotFrame,
           finished'[w] = finished[w], replies'[w] = replies[w],
           w \in answered' <=> w \in answered, w \in host'.asked <=> w \in host.asked,
           Near(w)' <=> Near(w), Failing(w) => Failing(w)',
           w \in reader'.sinks => w \in reader.sinks \/ w \in host.asked
    PROVE  SinkOK(w)'
BY DEF SinkOK, ForgotFrame, Owned

(* The owner finishes the sink and has it no more.                         *)
LEMMA SinkFinish ==
    ASSUME Types, NEW w \in Writes, SinkOK(w), NEW s, Finish(s), w \in s,
           w \in host'.asked <=> w \in host.asked, Owned(w), ~Owned(w)', Single(w)'
    PROVE  SinkOK(w)'
BY SinkValues DEF SinkOK, Owned

(* ... when it is the table or the reader that had it.                     *)
LEMMA NearFinish ==
    ASSUME Types, NEW w \in Writes, SinkOK(w), ForgotFrame, NEW s, Finish(s), w \in s,
           w \in host'.asked <=> w \in host.asked, Near(w), ~Near(w)'
    PROVE  SinkOK(w)'
<1>1. Owned(w) /\ ~Owned(w)' /\ Single(w)'
  BY DEF SinkOK, ForgotFrame, Owned
<1> QED BY <1>1, SinkFinish

(* The entry of a host stream leaves the table, and its sink is finished.  *)
LEMMA SinkDrop ==
    ASSUME Types, Aim, SinkInv, NEW h \in HostStreams,
           consumers' = [consumers EXCEPT ![h] = NoConsumer],
           reader.at \notin {"sink", "restore"} \/ UNCHANGED reader,
           reader'.at \notin {"sink", "restore"} \/ UNCHANGED reader
    PROVE  /\ OnePlace'
           /\ \A w \in Writes :
                 /\ w \in SinksOf(consumers[h]) <=> consumers[h].sink = w
                 /\ Tabled(w)' <=> Tabled(w) /\ consumers[h].sink # w
<1>1. \A g \in HostStreams :
         /\ consumers'[g] = IF g = h THEN NoConsumer ELSE consumers[g]
         /\ consumers[g] \in Consumer
  BY DEF Types
<1>2. ASSUME NEW w \in Writes
      PROVE  /\ w \in SinksOf(consumers[h]) <=> consumers[h].sink = w
             /\ Tabled(w)' <=> Tabled(w) /\ consumers[h].sink # w
  <2>1. w # None
    BY SinkValues
  <2>2. w \in SinksOf(consumers[h]) <=> consumers[h].sink = w
    BY <2>1 DEF SinksOf
  <2>3. \A g \in HostStreams : consumers[g].sink = w /\ consumers[h].sink = w => g = h
    BY <2>1, ConsumerFacts DEF SinkInv, OnePlace
  <2> QED BY <1>1, <2>1, <2>2, <2>3, ConsumerFacts DEF Tabled
<1>3. OnePlace'
  <2>1. \A f, g \in HostStreams :
          consumers'[f].sink = consumers'[g].sink /\ consumers'[f] # NoConsumer => f = g
    BY <1>1, ConsumerFacts DEF SinkInv, OnePlace
  <2>2. ASSUME reader'.at \in {"sink", "restore"} PROVE ~Tabled(reader.consumer.sink)'
    <3>1. UNCHANGED reader
      BY <2>2
    <3>2. ~Tabled(reader.consumer.sink)
      BY <2>2, <3>1 DEF SinkInv, OnePlace
    <3>3. reader.consumer \in Consumer /\ reader.consumer.sink # None
      BY <2>2, <3>1, ConsumerFacts DEF Types, ReaderState, Aim
    <3>4. \A g \in HostStreams : consumers'[g].sink # reader.consumer.sink
      BY <1>1, <3>2, <3>3, ConsumerFacts DEF Tabled
    <3>5. reader'.consumer.sink = reader.consumer.sink
      BY <3>1
    <3> QED BY <3>4, <3>5 DEF Tabled
  <2> QED BY <2>1, <2>2 DEF OnePlace
<1> QED BY <1>2, <1>3

(* ... whoever makes it leave, when nothing else is at work on a sink.     *)
LEMMA SinkEnds ==
    ASSUME Types, Aim, Shut, SinkInv, ForgotFrame, NEW h \in HostStreams,
           consumers' = [consumers EXCEPT ![h] = NoConsumer],
           Finish(SinksOf(consumers[h])),
           UNCHANGED reader
           \/ /\ reader.at \in {"read", "openPull", "replenish"}
              /\ reader'.at \in {"read", "failReply"}
              /\ reader'.sinks \subseteq reader.sinks,
           UNCHANGED host.asked
    PROVE  SinkInv'
<1>1. OnePlace'
  BY SinkDrop
<1>2. ASSUME NEW w \in Writes PROVE SinkOK(w)'
  <2>1. /\ SinkOK(w)
        /\ w \in SinksOf(consumers[h]) <=> consumers[h].sink = w
        /\ Tabled(w)' <=> Tabled(w) /\ consumers[h].sink # w
    BY SinkDrop DEF SinkInv
  <2>2. (Held(w)' <=> Held(w)) /\ (Swept(w)' <=> Swept(w))
    BY DEF Held, Swept
  <2>3. CASE consumers[h].sink = w
    <3>1. Tabled(w) /\ ~Held(w) /\ ~Swept(w)
      <4>1. Tabled(w)
        BY <2>3 DEF Tabled
      <4>2. ~Held(w)
        BY <4>1 DEF Held, SinkInv, OnePlace
      <4>3. consumers[h] # NoConsumer
        BY <2>3, ConsumerFacts
      <4>4. ~Swept(w)
        BY <4>3 DEF Swept, Shut
      <4> QED BY <4>1, <4>2, <4>4
    <3>2. Near(w) /\ ~Near(w)'
      BY <2>1, <2>2, <2>3, <3>1 DEF Near
    <3> QED BY <2>1, <2>3, <3>2, NearFinish
  <2>4. CASE consumers[h].sink # w
    <3>1. Near(w)' <=> Near(w)
      BY <2>1, <2>2, <2>4 DEF Near
    <3>2. Failing(w) => Failing(w)'
      BY DEF Failing
    <3>3. finished'[w] = finished[w] /\ replies'[w] = replies[w]
          /\ (w \in answered' <=> w \in answered)
      BY <2>1, <2>4, SinkValues
    <3> QED BY <2>1, <3>1, <3>2, <3>3, SinkFrame
  <2> QED BY <2>3, <2>4
<1> QED BY <1>1, <1>2 DEF SinkInv

(* A step that no sink takes part in.                                      *)
SinkAside ==
    /\ ForgotFrame /\ UNCHANGED <<consumers, finished>>
    /\ \A w \in Writes : /\ w \in answered' <=> w \in answered
                         /\ replies'[w] = replies[w]
                         /\ w \in host'.asked <=> w \in host.asked
    /\ UNCHANGED reader
       \/ /\ reader.at \notin {"sink", "restore", "failReply", "signal"}
          /\ reader'.at \notin {"sink", "restore", "signal"}
          /\ reader'.sinks \subseteq reader.sinks

LEMMA SinkAsideStep ==
    ASSUME Types, SinkInv, SinkAside PROVE SinkInv'
<1>1. \A w \in Writes :
         /\ Tabled(w)' <=> Tabled(w)
         /\ Held(w)' <=> Held(w)
         /\ Swept(w)' <=> Swept(w)
         /\ Failing(w) => Failing(w)'
  BY DEF SinkAside, Tabled, Held, Swept, Failing
<1>2. \A w \in Writes : SinkOK(w)'
  <2> SUFFICES ASSUME NEW w \in Writes PROVE SinkOK(w)'
    OBVIOUS
  <2>1. Near(w)' <=> Near(w)
    BY <1>1 DEF Near
  <2>2. finished'[w] = finished[w] /\ (w \in reader'.sinks => w \in reader.sinks)
    BY DEF SinkAside
  <2> QED BY <1>1, <2>1, <2>2, SinkFrame DEF SinkInv, SinkAside
<1>3. OnePlace'
  BY DEF SinkInv, OnePlace, SinkAside, Tabled
<1> QED BY <1>2, <1>3 DEF SinkInv

LEMMA ReceiveSinks ==
    ASSUME Types, Aim, Shut, SinkInv, Receive PROVE SinkInv'
<1>a. ForgotFrame
  <2>1. UNCHANGED <<thread, forgot>>
    BY DEF Receive, RefuseRequest, OpenStream, Cancel, Pull, ConsumeStream, Data,
       HostEnds, HostReplies, EndLink, streamVars
  <2> QED BY <2>1, ForgotStill
<1>0. /\ reader.at = "read" /\ host \in HostState
      /\ \A w \in Writes : ~Held(w) /\ ~Swept(w) /\ ~Failing(w)
  BY DEF Receive, RefuseRequest, OpenStream, Cancel, Pull, ConsumeStream, Data,
     HostEnds, HostReplies, EndLink, Arrives, At, Held, Swept, Failing, Types
<1>1. ASSUME NEW r \in Requests, RefuseRequest(r) PROVE SinkInv'
  <2>1. /\ UNCHANGED <<reader, consumers, finished>> /\ Answer({r})
        /\ r \notin host.asked /\ host'.asked = host.asked \cup {r}
    BY <1>0, <1>1 DEF RefuseRequest, Arrives, sinkVars, HostState
  <2>2. OnePlace'
    BY <2>1 DEF SinkInv, OnePlace, Tabled
  <2>3. ASSUME NEW w \in Writes PROVE SinkOK(w)'
    <3>1. SinkOK(w) /\ (Near(w)' <=> Near(w)) /\ (Failing(w)' <=> Failing(w))
      BY <2>1 DEF SinkInv, Near, Tabled, Held, Swept, Failing
    <3>2. CASE w = r
      <4>1. w \in host'.asked /\ w \in answered' /\ replies'[w] = 1 /\ finished'[w] = 0
        BY <2>1, <3>1, <3>2, SinkValues DEF SinkOK
      <4> QED BY <1>a, <2>1, <3>1, <3>2, <4>1 DEF SinkOK, ForgotFrame, Owned
    <3>3. CASE w # r
      <4>1. /\ finished'[w] = finished[w] /\ replies'[w] = replies[w]
            /\ (w \in answered' <=> w \in answered)
            /\ (w \in host'.asked <=> w \in host.asked)
        BY <2>1, <3>3, SinkValues
      <4> QED BY <2>1, <3>1, <4>1, <1>a, SinkFrame
    <3> QED BY <3>2, <3>3
  <2> QED BY <2>2, <2>3 DEF SinkInv
<1>2. ASSUME NEW s \in Own, OpenStream(s) PROVE SinkAside
  <2>1. s \notin Writes
    BY KindsAssumption
  <2>2. host'.asked = host.asked \cup {s}
    BY <1>0, <1>2 DEF OpenStream, Arrives, HostState
  <2>3. reader'.at = "openReply" /\ reader'.sinks = {}
    BY <1>2 DEF OpenStream, Become, Reading
  <2> QED BY <1>a, <1>0, <1>2, <2>1, <2>2, <2>3 DEF OpenStream, sinkVars, replyVars, SinkAside
<1>3. ASSUME NEW s \in Own, Cancel(s) PROVE SinkAside
  <2>1. host'.asked = host.asked
    BY <1>0, <1>3 DEF Cancel, HostState
  <2>2. reader'.at = "ack" /\ reader'.sinks = {}
    BY <1>3 DEF Cancel, Become, Reading
  <2> QED BY <1>a, <1>0, <1>3, <2>1, <2>2 DEF Cancel, sinkVars, replyVars, SinkAside
<1>4. ASSUME NEW s \in Own, NEW n \in 1 .. MaxPull, Pull(s, n) PROVE SinkAside
  <2>1. host'.asked = host.asked
    BY <1>0, <1>4 DEF Pull, HostState
  <2> QED BY <1>a, <1>4, <2>1 DEF Pull, sinkVars, replyVars, SinkAside
<1>5. ASSUME NEW v \in Writes, NEW h \in HostStreams, ConsumeStream(v, h)
      PROVE  SinkInv'
  <2>1. v \notin host.asked /\ host'.asked = host.asked \cup {v} /\ UNCHANGED finished
    BY <1>0, <1>5, RequestKinds DEF ConsumeStream, Arrives, HostState
  <2>2. CASE consumers[h] # NoConsumer
    <3>1. UNCHANGED <<reader, consumers>> /\ Answer({v})
      BY <1>5, <2>2 DEF ConsumeStream
    <3>2. OnePlace'
      BY <3>1 DEF SinkInv, OnePlace, Tabled
    <3>3. ASSUME NEW w \in Writes PROVE SinkOK(w)'
      <4>1. SinkOK(w) /\ (Near(w)' <=> Near(w)) /\ (Failing(w)' <=> Failing(w))
        BY <3>1 DEF SinkInv, Near, Tabled, Held, Swept, Failing
      <4>2. CASE w = v
        <5>1. w \in host'.asked /\ w \in answered' /\ replies'[w] = 1 /\ finished'[w] = 0
          BY <2>1, <3>1, <4>1, <4>2, SinkValues DEF SinkOK
        <5> QED BY <1>a, <2>1, <4>1, <4>2, <5>1 DEF SinkOK, ForgotFrame, Owned
      <4>3. CASE w # v
        <5>1. /\ finished'[w] = finished[w] /\ replies'[w] = replies[w]
              /\ (w \in answered' <=> w \in answered)
              /\ (w \in host'.asked <=> w \in host.asked)
          BY <2>1, <3>1, <4>3, SinkValues
        <5> QED BY <3>1, <4>1, <5>1, <1>a, SinkFrame
      <4> QED BY <4>2, <4>3
    <3> QED BY <3>2, <3>3 DEF SinkInv
  <2>3. CASE consumers[h] = NoConsumer
    <3>1. /\ consumers' = [consumers EXCEPT ![h] = [sink |-> v, since |-> 0]]
          /\ reader'.at = "openPull" /\ reader'.sinks = {v}
          /\ UNCHANGED <<answered, replies>>
      BY <1>5, <2>3 DEF ConsumeStream, Become, Reading, replyVars
    <3>2. \A g \in HostStreams :
             consumers'[g] = IF g = h THEN [sink |-> v, since |-> 0] ELSE consumers[g]
      BY <3>1 DEF Types
    <3>3. \A g \in HostStreams : consumers[g].sink # v
      BY <2>1 DEF SinkInv, SinkOK, Owned, Near, Tabled
    <3>4. \A w \in Writes : Tabled(w)' <=> Tabled(w) \/ w = v
      <4>1. consumers[h].sink = None
        BY <2>3, ConsumerFacts
      <4> QED BY <3>2, <4>1, SinkValues DEF Tabled
    <3>5. OnePlace'
      <4>1. \A f, g \in HostStreams :
               consumers'[f].sink = consumers'[g].sink /\ consumers'[f] # NoConsumer => f = g
        BY <3>2, <3>3 DEF SinkInv, OnePlace
      <4> QED BY <3>1, <4>1 DEF OnePlace
    <3>6. ASSUME NEW w \in Writes PROVE SinkOK(w)'
      <4>1. ~Held(w)' /\ ~Swept(w)' /\ ~Failing(w) /\ SinkOK(w)
        BY <1>0, <3>1 DEF Held, Swept, SinkInv
      <4>2. Near(w)' <=> Near(w) \/ w = v
        BY <1>0, <3>4, <4>1 DEF Near
      <4>3. CASE w = v
        <5>1. w \in host'.asked /\ finished'[w] = 0 /\ replies'[w] = 0
          BY <2>1, <3>1, <4>1, <4>3 DEF SinkOK
        <5>2. ~Forgotten(w) /\ Single(w)
          BY <2>1, <4>1, <4>3 DEF SinkOK, Owned
        <5> QED BY <1>a, <4>2, <4>3, <5>1, <5>2 DEF SinkOK, ForgotFrame, Owned
      <4>4. CASE w # v
        <5>1. w \in host'.asked <=> w \in host.asked
          BY <2>1, <4>4
        <5> QED BY <2>1, <3>1, <4>1, <4>2, <4>4, <5>1, <1>a, SinkFrame
      <4> QED BY <4>3, <4>4
    <3> QED BY <3>5, <3>6 DEF SinkInv
  <2> QED BY <2>2, <2>3
<1>6. ASSUME NEW h \in HostStreams, Data(h) PROVE SinkInv'
  <2>1. /\ consumers' = [consumers EXCEPT ![h] = NoConsumer] /\ UNCHANGED host
    BY <1>6 DEF Data
  <2>2. CASE Finish(SinksOf(consumers[h])) /\ UNCHANGED reader
    BY <2>1, <2>2, <1>a, SinkEnds
  <2>3. CASE /\ reader'.at = "sink" /\ reader'.stream = h /\ reader'.sinks = {}
             /\ reader'.consumer.sink = consumers[h].sink
             /\ consumers[h] # NoConsumer
             /\ UNCHANGED <<finished, replyVars>>
    <3>1. \A g \in HostStreams :
             /\ consumers'[g] = IF g = h THEN NoConsumer ELSE consumers[g]
             /\ consumers[g] \in Consumer
      BY <2>1 DEF Types
    <3>2. \A w \in Writes : Tabled(w)' <=> Tabled(w) /\ w # consumers[h].sink
      BY <3>1, ConsumerFacts, SinkValues, <2>3 DEF SinkInv, OnePlace, Tabled
    <3>3. OnePlace'
      <4>1. \A f, g \in HostStreams :
               consumers'[f].sink = consumers'[g].sink /\ consumers'[f] # NoConsumer => f = g
        BY <3>1, ConsumerFacts DEF SinkInv, OnePlace
      <4>2. consumers[h].sink \in Writes
        BY <2>3, ConsumerFacts DEF Types
      <4>3. ~Tabled(reader.consumer.sink)'
        <5>1. \A g \in HostStreams : consumers'[g].sink # consumers[h].sink
          BY <3>1, <4>2, ConsumerFacts, <2>3 DEF SinkInv, OnePlace
        <5> QED BY <2>3, <5>1 DEF Tabled
      <4> QED BY <4>1, <4>3 DEF OnePlace
    <3>4. ASSUME NEW w \in Writes PROVE SinkOK(w)'
      <4>1. (Held(w)' <=> w = consumers[h].sink) /\ ~Swept(w)' /\ ~Failing(w) /\ SinkOK(w)
        BY <1>0, <2>3 DEF Held, Swept, SinkInv
      <4>2. w = consumers[h].sink => Tabled(w)
        BY DEF Tabled
      <4>3. Near(w)' <=> Near(w)
        BY <1>0, <3>2, <4>1, <4>2 DEF Near
      <4> QED BY <2>1, <2>3, <4>1, <4>3, <1>a, SinkFrame DEF replyVars
    <3> QED BY <3>3, <3>4 DEF SinkInv
  <2>4. CASE /\ consumers[h] # NoConsumer
             /\ UNCHANGED <<finished, replyVars>>
             /\ Become([Reading EXCEPT
                   !.at = "sink", !.stream = h, !.due = consumers[h].since + 1 >= Replenish,
                   !.consumer = [consumers[h] EXCEPT !.since =
                       IF consumers[h].since + 1 >= Replenish THEN 0 ELSE @ + 1]])
    <3>1. \A n : [consumers[h] EXCEPT !.since = n].sink = consumers[h].sink
      BY <2>4, ConsumerFacts DEF Types
    <3> QED BY <2>3, <2>4, <3>1 DEF Become, Reading
  <2> QED BY <1>6, <2>2, <2>4 DEF Data
<1>7. ASSUME NEW h \in HostStreams, HostEnds(h) PROVE SinkInv'
  <2>1. host'.asked = host.asked
    BY <1>0, <1>7 DEF HostEnds, HostState
  <2> QED BY <1>7, <2>1, <1>a, SinkEnds DEF HostEnds
<1>8. ASSUME NEW c \in Calls, HostReplies(c) PROVE SinkAside
  <2>1. host'.asked = host.asked
    BY <1>0, <1>8 DEF HostReplies, HostState
  <2> QED BY <1>a, <1>8, <2>1 DEF HostReplies, sinkVars, replyVars, SinkAside
<1>9. ASSUME NEW failure \in LinkFailure, EndLink(failure) PROVE SinkAside
  <2>1. reader'.at = "closeStreams" /\ reader'.sinks = {}
    BY <1>9 DEF EndLink, Become, Reading
  <2> QED BY <1>a, <1>0, <1>9, <2>1 DEF EndLink, sinkVars, replyVars, SinkAside
<1> QED BY <1>1, <1>2, <1>3, <1>4, <1>5, <1>6, <1>7, <1>8, <1>9, SinkAsideStep DEF Receive

LEMMA HandleSinks ==
    ASSUME Types, Aim, Shut, StreamInv, SinkInv, Handle PROVE SinkInv'
<1>a. ForgotFrame
  <2>1. CASE OpenReply
    <3>1. Opens(reader.stream) /\ reader.stream \in Own
      BY <2>1 DEF OpenReply, At, Aim, Opens
    <3>2. thread[reader.stream] = "none"
      BY <3>1 DEF StreamInv, StreamOK, Opening
    <3>3. UNCHANGED forgot
          /\ (UNCHANGED thread \/ thread' = [thread EXCEPT ![reader.stream] = "wait"])
      BY <2>1 DEF OpenReply
    <3>4. \A s \in Own : thread'[s] = "settle" <=> thread[s] = "settle"
      BY <3>1, <3>2, <3>3 DEF Types
    <3> QED BY <3>3, <3>4, ForgotStill
  <2>2. CASE ~OpenReply
    <3>1. UNCHANGED <<thread, forgot>>
      BY <2>2 DEF Handle, OpenPull, FailReply, Acknowledge, SinkWrite, CancelRemote,
         Restore, ReplenishWindow, CloseStreams, SignalStreams, PublishLinkFailure, streamVars
    <3> QED BY <3>1, ForgotStill
  <2> QED BY <2>1, <2>2
<1>0. /\ reader \in ReaderState /\ host \in HostState
      /\ \A w \in Writes : SinkOK(w)
  BY DEF Types, SinkInv
<1>1. CASE OpenReply
  <2>1. /\ reader.at = "openReply" /\ reader.stream \in Own
        /\ reader'.at = "read" /\ reader'.sinks = {}
    BY <1>1 DEF OpenReply, Become, Reading, At, Aim
  <2>2. \A w \in Writes : w # reader.stream
    BY <2>1, KindsAssumption
  <2>3. \A w \in Writes : (w \in answered' <=> w \in answered) /\ replies'[w] = replies[w]
    <3>1. SUFFICES ASSUME NEW w \in Writes
                   PROVE  (w \in answered' <=> w \in answered) /\ replies'[w] = replies[w]
      OBVIOUS
    <3>2. CASE writable
      BY <1>1, <2>2, <3>2, RequestKinds DEF OpenReply, Types
    <3>3. CASE ~writable
      BY <1>1, <2>2, <3>3, SinkValues DEF OpenReply
    <3> QED BY <3>2, <3>3
  <2>4. SinkAside
    BY <1>a, <1>1, <2>1, <2>3 DEF OpenReply, sinkVars, SinkAside
  <2> QED BY <2>4, SinkAsideStep
<1>2. CASE OpenPull
  <2>1. reader.at = "openPull" /\ reader.stream \in HostStreams
    BY <1>2 DEF OpenPull, At, Aim
  <2>2. CASE writable
    <3>1. host'.asked = host.asked
      BY <1>0, <1>2, <2>2 DEF OpenPull, HostState
    <3>2. reader'.at = "read" /\ reader'.sinks = {}
      BY <1>2, <2>2 DEF OpenPull, Become, Reading
    <3>3. SinkAside
      BY <1>a, <1>2, <2>1, <2>2, <3>1, <3>2 DEF OpenPull, replyVars, SinkAside
    <3> QED BY <3>3, SinkAsideStep
  <2>3. CASE ~writable
    <3>1. reader'.at = "failReply" /\ reader'.sinks = reader.sinks
      BY <1>0, <1>2, <2>3 DEF OpenPull, Continue, ReaderState
    <3> QED BY <1>2, <2>1, <2>3, <3>1, <1>a, SinkEnds DEF OpenPull
  <2> QED BY <2>2, <2>3
<1>3. CASE FailReply
  <2>1. /\ UNCHANGED <<consumers, finished, host>> /\ Answer(reader.sinks)
        /\ reader.at = "failReply" /\ reader'.at = "read" /\ reader'.sinks = {}
    BY <1>3 DEF FailReply, sinkVars, At, Become, Reading
  <2>2. OnePlace'
    BY <2>1 DEF SinkInv, OnePlace
  <2>3. ASSUME NEW w \in Writes PROVE SinkOK(w)'
    <3>1. SinkOK(w) /\ (Near(w)' <=> Near(w))
      BY <1>0, <2>1 DEF Near, Tabled, Held, Swept
    <3>2. CASE w \in reader.sinks
      <4>1. /\ w \in answered' /\ w \in host.asked
            /\ replies'[w] = IF w \in answered THEN replies[w] ELSE replies[w] + 1
        BY <2>1, <3>1, <3>2, SinkValues DEF SinkOK
      <4>2. replies'[w] <= 1
        BY <3>1, <4>1, SinkValues DEF SinkOK
      <4> QED BY <1>a, <2>1, <3>1, <4>1, <4>2 DEF SinkOK, ForgotFrame, Owned
    <3>3. CASE w \notin reader.sinks
      <4>1. /\ replies'[w] = replies[w] /\ (w \in answered' <=> w \in answered)
            /\ ~Failing(w)
        BY <2>1, <3>3, SinkValues DEF Failing
      <4> QED BY <2>1, <3>1, <4>1, <1>a, SinkFrame
    <3> QED BY <3>2, <3>3
  <2> QED BY <2>2, <2>3 DEF SinkInv
<1>4. CASE Acknowledge
  <2>1. reader.at = "ack" /\ reader'.at = "read" /\ reader'.sinks = {}
    BY <1>4 DEF Acknowledge, At, Become, Reading
  <2>2. SinkAside
    BY <1>a, <1>4, <2>1 DEF Acknowledge, sinkVars, replyVars, SinkAside
  <2> QED BY <2>2, SinkAsideStep
<1>5. CASE SinkWrite
  <2>1. /\ reader.at = "sink" /\ UNCHANGED <<consumers, host>>
        /\ reader'.consumer = reader.consumer /\ reader'.sinks = reader.sinks
    BY <1>0, <1>5 DEF SinkWrite, At, Continue, ReaderState
  <2>2. CASE Continue("restore") /\ UNCHANGED <<finished, replyVars>>
    <3>1. reader'.at = "restore"
      BY <1>0, <2>2 DEF Continue, ReaderState
    <3>2. OnePlace'
      BY <2>1, <3>1 DEF SinkInv, OnePlace, Tabled
    <3>3. ASSUME NEW w \in Writes PROVE SinkOK(w)'
      <4>1. (Near(w)' <=> Near(w)) /\ ~Failing(w)
        BY <2>1, <3>1 DEF Near, Tabled, Held, Swept, Failing
      <4> QED BY <1>0, <2>1, <2>2, <4>1, <1>a, SinkFrame DEF replyVars
    <3> QED BY <3>2, <3>3 DEF SinkInv
  <2>3. CASE Continue("cancelRemote") /\ Finish({reader.consumer.sink})
    <3>1. reader'.at = "cancelRemote"
      BY <1>0, <2>3 DEF Continue, ReaderState
    <3>2. OnePlace'
      BY <2>1, <3>1 DEF SinkInv, OnePlace
    <3>3. ASSUME NEW w \in Writes PROVE SinkOK(w)'
      <4>1. /\ (Tabled(w)' <=> Tabled(w)) /\ ~Held(w)' /\ ~Swept(w)' /\ ~Swept(w)
            /\ ~Failing(w) /\ (Held(w) <=> w = reader.consumer.sink)
        BY <2>1, <3>1 DEF Tabled, Held, Swept, Failing
      <4>2. CASE w = reader.consumer.sink
        <5>1. ~Tabled(w)
          BY <2>1, <4>2 DEF SinkInv, OnePlace
        <5>2. Near(w) /\ ~Near(w)'
          BY <4>1, <4>2, <5>1 DEF Near
        <5> QED BY <1>0, <2>1, <2>3, <4>2, <5>2, <1>a, NearFinish
      <4>3. CASE w # reader.consumer.sink
        <5>1. Near(w)' <=> Near(w)
          BY <4>1, <4>3 DEF Near
        <5>2. finished'[w] = finished[w] /\ replies'[w] = replies[w]
              /\ (w \in answered' <=> w \in answered)
          BY <2>3, <4>3, SinkValues
        <5> QED BY <1>0, <2>1, <4>1, <5>1, <5>2, <1>a, SinkFrame
      <4> QED BY <4>2, <4>3
    <3> QED BY <3>2, <3>3 DEF SinkInv
  <2> QED BY <1>5, <2>2, <2>3 DEF SinkWrite
<1>6. CASE CancelRemote
  <2>1. reader.at = "cancelRemote" /\ reader'.at = "read" /\ reader'.sinks = {}
    BY <1>6 DEF CancelRemote, At, Become, Reading
  <2>2. SinkAside
    BY <1>a, <1>6, <2>1 DEF CancelRemote, sinkVars, replyVars, SinkAside
  <2> QED BY <2>2, SinkAsideStep
<1>7. CASE Restore
  <2> DEFINE h == reader.stream
             v == reader.consumer.sink
  <2>1. /\ reader.at = "restore" /\ h \in HostStreams /\ UNCHANGED host
        /\ reader'.at \in {"read", "replenish"} /\ reader'.sinks = {}
    <3>1. Become([Reading EXCEPT !.at = "replenish", !.stream = h]) \/ Become(Reading)
      BY <1>7 DEF Restore
    <3>2. /\ [Reading EXCEPT !.at = "replenish", !.stream = h].at = "replenish"
          /\ [Reading EXCEPT !.at = "replenish", !.stream = h].sinks = {}
          /\ Reading.at = "read" /\ Reading.sinks = {}
      BY DEF Reading
    <3> QED BY <1>7, <3>1, <3>2 DEF Restore, At, Aim, Become
  <2>2. /\ \A w \in Writes : ~Held(w)' /\ ~Swept(w)' /\ ~Swept(w) /\ ~Failing(w)
                             /\ (Held(w) <=> w = v)
        /\ ~Tabled(v) /\ v \in Writes
    BY <1>0, <2>1, ConsumerFacts
       DEF Held, Swept, Failing, SinkInv, OnePlace, ReaderState, Aim
  <2>3. CASE consumers[h] = NoConsumer
    <3>1. /\ consumers' = [consumers EXCEPT ![h] = reader.consumer] /\ Finish({})
      BY <1>7, <2>3 DEF Restore
    <3>2. \A g \in HostStreams :
             consumers'[g] = IF g = h THEN reader.consumer ELSE consumers[g]
      BY <3>1 DEF Types
    <3>3. \A g \in HostStreams : consumers[g].sink # v
      BY <2>2 DEF Tabled
    <3>4. \A w \in Writes : Tabled(w)' <=> Tabled(w) \/ w = v
      BY <2>1, <2>3, <3>2, ConsumerFacts DEF Tabled
    <3>5. OnePlace'
      <4>1. \A f, g \in HostStreams :
               consumers'[f].sink = consumers'[g].sink /\ consumers'[f] # NoConsumer => f = g
        BY <3>2, <3>3 DEF SinkInv, OnePlace
      <4> QED BY <2>1, <4>1 DEF OnePlace
    <3>6. ASSUME NEW w \in Writes PROVE SinkOK(w)'
      <4>1. Near(w)' <=> Near(w)
        BY <2>2, <3>4 DEF Near
      <4>2. finished'[w] = finished[w] /\ replies'[w] = replies[w]
            /\ (w \in answered' <=> w \in answered)
        BY <3>1, SinkValues
      <4> QED BY <1>0, <2>1, <2>2, <4>1, <4>2, <1>a, SinkFrame
    <3> QED BY <3>5, <3>6 DEF SinkInv
  <2>4. CASE consumers[h] # NoConsumer
    <3>1. UNCHANGED consumers /\ Finish({v})
      BY <1>7, <2>4 DEF Restore
    <3>2. OnePlace'
      BY <2>1, <3>1 DEF SinkInv, OnePlace
    <3>3. ASSUME NEW w \in Writes PROVE SinkOK(w)'
      <4>1. Tabled(w)' <=> Tabled(w)
        BY <3>1 DEF Tabled
      <4>2. CASE w = v
        <5>1. Near(w) /\ ~Near(w)'
          BY <2>2, <4>1, <4>2 DEF Near
        <5> QED BY <1>0, <2>1, <3>1, <4>2, <5>1, <1>a, NearFinish
      <4>3. CASE w # v
        <5>1. Near(w)' <=> Near(w)
          BY <2>2, <4>1, <4>3 DEF Near
        <5>2. finished'[w] = finished[w] /\ replies'[w] = replies[w]
              /\ (w \in answered' <=> w \in answered)
          BY <3>1, <4>3, SinkValues
        <5> QED BY <1>0, <2>1, <2>2, <5>1, <5>2, <1>a, SinkFrame
      <4> QED BY <4>2, <4>3
    <3> QED BY <3>2, <3>3 DEF SinkInv
  <2> QED BY <2>3, <2>4
<1>8. CASE ReplenishWindow
  <2>1. /\ reader.at = "replenish" /\ reader'.at = "read" /\ reader'.sinks = {}
        /\ reader.stream \in HostStreams /\ UNCHANGED host
    BY <1>8 DEF ReplenishWindow, At, Become, Reading, Aim
  <2>2. CASE writable
    <3>1. SinkAside
      BY <1>a, <1>8, <2>1, <2>2 DEF ReplenishWindow, replyVars, SinkAside
    <3> QED BY <3>1, SinkAsideStep
  <2>3. CASE ~writable
    BY <1>8, <2>1, <2>3, <1>a, SinkEnds DEF ReplenishWindow
  <2> QED BY <2>2, <2>3
<1>9. CASE CloseStreams
  <2>1. /\ reader.at = "closeStreams" /\ reader'.at = "signal"
        /\ reader'.sinks = UNION {SinksOf(consumers[h]) : h \in HostStreams}
        /\ \A h \in HostStreams : consumers'[h] = NoConsumer
        /\ UNCHANGED <<finished, answered, replies, host>>
    BY <1>0, <1>9 DEF CloseStreams, At, Become, ReaderState, replyVars
  <2>2. OnePlace'
    BY <2>1 DEF OnePlace
  <2>3. ASSUME NEW w \in Writes PROVE SinkOK(w)'
    <3>1. w \in reader'.sinks <=> Tabled(w)
      BY <2>1, SinkValues DEF SinksOf, Tabled
    <3>2. ~Tabled(w)' /\ ~Held(w) /\ ~Held(w)' /\ ~Swept(w) /\ ~Failing(w)
      BY <2>1, ConsumerFacts DEF Tabled, Held, Swept, Failing
    <3>3. Near(w)' <=> Near(w)
      BY <2>1, <3>1, <3>2 DEF Near, Swept
    <3>4. w \in reader'.sinks => w \in host.asked
      BY <1>0, <3>1 DEF SinkOK, Owned, Near
    <3> QED BY <1>0, <2>1, <3>2, <3>3, <3>4, <1>a, SinkFrame
  <2> QED BY <2>2, <2>3 DEF SinkInv
<1>10. CASE SignalStreams
  <2>1. /\ reader.at = "signal" /\ reader'.at = "publish" /\ reader'.sinks = reader.sinks
        /\ UNCHANGED <<consumers, host>> /\ Finish(reader.sinks)
        /\ \A h \in HostStreams : consumers[h] = NoConsumer
    BY <1>0, <1>10 DEF SignalStreams, At, Continue, ReaderState, Shut
  <2>2. OnePlace'
    BY <2>1 DEF SinkInv, OnePlace
  <2>3. ASSUME NEW w \in Writes PROVE SinkOK(w)'
    <3>1. /\ ~Tabled(w)' /\ ~Tabled(w) /\ ~Held(w) /\ ~Held(w)' /\ ~Swept(w)' /\ ~Failing(w)
          /\ (Swept(w) <=> w \in reader.sinks)
      BY <2>1, ConsumerFacts, SinkValues DEF Tabled, Held, Swept, Failing
    <3>2. CASE w \in reader.sinks
      <4>1. Near(w) /\ ~Near(w)'
        BY <3>1, <3>2 DEF Near
      <4> QED BY <1>0, <2>1, <3>2, <4>1, <1>a, NearFinish
    <3>3. CASE w \notin reader.sinks
      <4>1. Near(w)' <=> Near(w)
        BY <3>1, <3>3 DEF Near
      <4>2. finished'[w] = finished[w] /\ replies'[w] = replies[w]
            /\ (w \in answered' <=> w \in answered)
        BY <2>1, <3>3, SinkValues
      <4> QED BY <1>0, <2>1, <3>1, <4>1, <4>2, <1>a, SinkFrame
    <3> QED BY <3>2, <3>3
  <2> QED BY <2>2, <2>3 DEF SinkInv
<1>11. CASE PublishLinkFailure
  <2>1. /\ reader.at = "publish" /\ reader'.at = "ended" /\ reader'.sinks = reader.sinks
    BY <1>0, <1>11 DEF PublishLinkFailure, At, Continue, ReaderState
  <2>2. SinkAside
    BY <1>a, <1>11, <2>1 DEF PublishLinkFailure, sinkVars, replyVars, SinkAside
  <2> QED BY <2>2, SinkAsideStep
<1> QED BY <1>1, <1>2, <1>3, <1>4, <1>5, <1>6, <1>7, <1>8, <1>9, <1>10, <1>11
        DEF Handle

(* The thread of a failed stream takes the sink of its number out ...      *)
LEMMA ForgetSinks ==
    ASSUME Types, Aim, Shut, SinkInv, NEW s \in Own, ForgetStream(s) PROVE SinkInv'
<1> DEFINE v == IF s \in HostStreams THEN consumers[s].sink ELSE None
<1>1. /\ thread[s] = "forget" /\ thread'[s] = "settle" /\ forgot'[s].sink = v
      /\ \A t \in Own : t # s => thread'[t] = thread[t] /\ forgot'[t] = forgot[t]
      /\ UNCHANGED <<reader, host, finished, answered, replies>>
  BY ThreadEffect DEF ForgetStream, Types, replyVars
<1>2. \A h \in HostStreams :
         /\ consumers'[h] = IF h = s THEN NoConsumer ELSE consumers[h]
         /\ consumers[h] \in Consumer
  BY DEF ForgetStream, Types
<1>3. \A w \in Writes : Tabled(w)' <=> Tabled(w) /\ w # v
  BY <1>2, ConsumerFacts, SinkValues DEF SinkInv, OnePlace, Tabled
<1>4. OnePlace'
  <2>1. \A f, g \in HostStreams :
           consumers'[f].sink = consumers'[g].sink /\ consumers'[f] # NoConsumer => f = g
    BY <1>2, ConsumerFacts DEF SinkInv, OnePlace
  <2>2. ASSUME reader.at \in {"sink", "restore"} PROVE ~Tabled(reader.consumer.sink)'
    <3>1. reader.consumer.sink \in Writes
      BY <2>2, ConsumerFacts DEF Types, ReaderState, Aim
    <3>2. ~Tabled(reader.consumer.sink)
      BY <2>2 DEF SinkInv, OnePlace
    <3>3. \A h \in HostStreams : consumers'[h].sink # reader.consumer.sink
      BY <1>2, <3>1, <3>2, ConsumerFacts DEF Tabled
    <3> QED BY <1>1, <3>3 DEF Tabled
  <2> QED BY <1>1, <2>1, <2>2 DEF OnePlace
<1>5. ASSUME NEW w \in Writes PROVE SinkOK(w)'
  <2>0. SinkOK(w)
    BY DEF SinkInv
  <2>1. /\ Held(w)' <=> Held(w)
        /\ Swept(w)' <=> Swept(w)
        /\ Failing(w)' <=> Failing(w)
    BY <1>1 DEF Held, Swept, Failing
  <2>2. CASE w = v
    <3>1. Tabled(w) /\ ~Tabled(w)' /\ s \in HostStreams /\ consumers[s] # NoConsumer
      BY <1>3, <2>2, SinkValues, ConsumerFacts DEF Tabled
    <3>2. ~Held(w)
      BY <3>1 DEF Held, SinkInv, OnePlace
    <3>3. ~Swept(w)
      BY <3>1 DEF Swept, Shut
    <3>4. ~Near(w)' /\ Near(w)
      BY <2>1, <3>1, <3>2, <3>3 DEF Near
    <3>5. ~Forgotten(w)
      BY <2>0, <3>4 DEF SinkOK
    <3>6. Forgotten(w)' /\ Single(w)'
      BY <1>1, <2>2, <3>5 DEF Forgotten, Single
    <3> QED BY <1>1, <2>0, <2>1, <3>4, <3>6 DEF SinkOK, Owned
  <2>3. CASE w # v
    <3>1. Near(w)' <=> Near(w)
      BY <1>3, <2>1, <2>3 DEF Near
    <3>2. Forgotten(w)' <=> Forgotten(w)
      BY <1>1, <2>3 DEF Forgotten
    <3>3. Single(w)'
      BY <1>1, <2>0, <2>3 DEF Single, SinkOK
    <3> QED BY <1>1, <2>0, <2>1, <3>1, <3>2, <3>3 DEF SinkOK, Owned
  <2> QED BY <2>2, <2>3
<1> QED BY <1>4, <1>5 DEF SinkInv

(* ... and finishes it.                                                    *)
LEMMA SettleSinks ==
    ASSUME Types, Aim, Shut, SinkInv, NEW s \in Own, SettleForgotten(s) PROVE SinkInv'
<1> DEFINE v == forgot[s].sink
<1>1. /\ thread[s] = "settle" /\ thread'[s] = "close"
      /\ \A t \in Own : t # s => thread'[t] = thread[t]
      /\ UNCHANGED <<forgot, reader, host, consumers>> /\ Finish(SinksOf(forgot[s]))
  BY ThreadEffect DEF SettleForgotten
<1>2. OnePlace'
  BY <1>1 DEF SinkInv, OnePlace, Tabled
<1>3. ASSUME NEW w \in Writes PROVE SinkOK(w)'
  <2>0. SinkOK(w) /\ w # None
    BY SinkValues DEF SinkInv
  <2>1. /\ Near(w)' <=> Near(w)
        /\ Failing(w)' <=> Failing(w)
    BY <1>1 DEF Near, Tabled, Held, Swept, Failing
  <2>2. Single(w)'
    BY <1>1, <2>0 DEF Single, SinkOK
  <2>3. CASE w = v
    <3>1. Forgotten(w) /\ ~Forgotten(w)'
      BY <1>1, <2>0, <2>3 DEF Forgotten, Single, SinkOK
    <3>2. Owned(w) /\ ~Owned(w)'
      BY <2>0, <2>1, <3>1 DEF Owned, SinkOK
    <3>3. w \in SinksOf(forgot[s])
      BY <2>0, <2>3 DEF SinksOf
    <3> QED BY <1>1, <2>0, <2>2, <3>2, <3>3, SinkFinish
  <2>4. CASE w # v
    <3>1. w \notin SinksOf(forgot[s])
      BY <2>4 DEF SinksOf
    <3>2. finished'[w] = finished[w] /\ replies'[w] = replies[w]
          /\ (w \in answered' <=> w \in answered)
      BY <1>1, <3>1, SinkValues
    <3>3. Forgotten(w)' <=> Forgotten(w)
      BY <1>1, <2>4 DEF Forgotten
    <3> QED BY <1>1, <2>0, <2>1, <2>2, <3>2, <3>3 DEF SinkOK, Owned
  <2> QED BY <2>3, <2>4
<1> QED BY <1>2, <1>3 DEF SinkInv

LEMMA SinkStep == Types /\ Aim /\ Shut /\ StreamInv /\ SinkInv /\ [Next]_vars => SinkInv'
<1> SUFFICES ASSUME Types, Aim, Shut, StreamInv, SinkInv, [Next]_vars PROVE SinkInv'
  OBVIOUS
<1>1. CASE Receive
  BY <1>1, ReceiveSinks
<1>2. CASE Handle
  BY <1>2, HandleSinks
<1>3. ASSUME NEW s \in Own,
             \/ s \in Reads /\ Producer(s)
             \/ s \in Watches /\ (NextValue(s) \/ EventReacts(s))
      PROVE  SinkInv'
  <2>1. UNCHANGED <<reader, host>>
    BY <1>3, ThreadFrame
  <2>2. CASE ForgetStream(s) \/ SettleForgotten(s)
    BY <2>2, ForgetSinks, SettleSinks
  <2>3. CASE ~(ForgetStream(s) \/ SettleForgotten(s))
    <3>1. UNCHANGED <<consumers, finished, answered, replies, forgot>>
      BY <1>3, <2>3 DEF Producer, EventReacts, ProducerWait, NextChunk, ProducerChunk,
         ClaimEnding, WriteEnding, CloseHandle, NextValue, EventCancelled,
         EventSpend, EventChunk, ThreadOnly, sinkVars, replyVars
    <3>2. \E from, to \in ThreadLabel \ {"settle"} : Step(s, from, to)
      BY <1>3, <2>3 DEF Producer, EventReacts, ProducerWait, NextChunk, ProducerChunk,
         ClaimEnding, WriteEnding, CloseHandle, NextValue, EventCancelled,
         EventSpend, EventChunk, ThreadLabel
    <3>3. \A t \in Own : thread'[t] = "settle" <=> thread[t] = "settle"
      BY <3>2, ThreadEffect
    <3>4. SinkAside
      BY <2>1, <3>1, <3>3, ForgotStill DEF SinkAside
    <3> QED BY <3>4, SinkAsideStep
  <2> QED BY <2>2, <2>3
<1>4. CASE BreakWriter \/ UNCHANGED vars \/ \E c \in Calls : Caller(c)
  <2>1. UNCHANGED <<thread, forgot>>
    BY <1>4 DEF BreakWriter, vars, streamVars, Caller, CallRegister, CallWrite,
       CallReceive, CallTimeout, CallUnregister, CallOnly
  <2>2. SinkAside
    BY <1>4, <2>1, ForgotStill DEF BreakWriter, vars, sinkVars, replyVars, Caller, CallRegister,
       CallWrite, CallReceive, CallTimeout, CallUnregister, CallOnly, SinkAside
  <2> QED BY <2>2, SinkAsideStep
<1>5. Own = Reads \cup Watches
  BY DEF Own
<1> QED BY <1>1, <1>2, <1>3, <1>4, <1>5 DEF Next

-----------------------------------------------------------------------------
(* Replies to the requests that open a stream.                             *)

OpenerOK(s) ==
    /\ replies[s] <= 1
    /\ s \notin host.asked \/ Opens(s) => replies[s] = 0 /\ s \notin answered
    /\ Opens(s) => s \in host.asked

OpenerInv == \A s \in Own : OpenerOK(s)

LEMMA OpenerFrame ==
    ASSUME NEW s \in Own, OpenerOK(s), replies'[s] = replies[s],
           s \in answered' <=> s \in answered, s \in host.asked => s \in host'.asked,
           Opens(s)' => Opens(s)
    PROVE  OpenerOK(s)'
BY DEF OpenerOK

(* The answers of sinks are none of theirs.                                *)
LEMMA OpenerAnswers ==
    ASSUME Types, NEW s \in Own
    PROVE  /\ replies[s] \in Nat
           /\ \A r : Answer(r) =>
                 /\ (s \in answered' <=> s \in answered \/ s \in r)
                 /\ replies'[s] = IF s \in r /\ s \notin answered THEN replies[s] + 1
                                  ELSE replies[s]
           /\ \A w : w \subseteq Writes /\ (Finish(w) \/ Answer(w)) =>
                 (s \in answered' <=> s \in answered) /\ replies'[s] = replies[s]
<1>1. replies[s] \in Nat /\ s \in Requests /\ s \notin Writes
  BY RequestKinds, KindsAssumption DEF Types
<1>2. \A r : Answer(r) =>
         /\ (s \in answered' <=> s \in answered \/ s \in r)
         /\ replies'[s] = IF s \in r /\ s \notin answered THEN replies[s] + 1
                          ELSE replies[s]
  BY <1>1 DEF Answer
<1>3. \A w : w \subseteq Writes /\ (Finish(w) \/ Answer(w)) =>
         (s \in answered' <=> s \in answered) /\ replies'[s] = replies[s]
  <2> SUFFICES ASSUME NEW w, w \subseteq Writes, Answer(w)
               PROVE  (s \in answered' <=> s \in answered) /\ replies'[s] = replies[s]
    BY DEF Finish
  <2>1. s \notin w
    BY <1>1
  <2> QED BY <1>2, <2>1
<1> QED BY <1>1, <1>2, <1>3

LEMMA OpenerReceive ==
    ASSUME Types, Aim, NEW s \in Own, OpenerOK(s), Receive PROVE OpenerOK(s)'
<1>0. reader.at = "read" /\ host \in HostState /\ ~Opens(s)
  BY DEF Receive, RefuseRequest, OpenStream, Cancel, Pull, ConsumeStream, Data,
     HostEnds, HostReplies, EndLink, Arrives, At, Opens, Types
<1>1. ASSUME NEW r \in Requests, RefuseRequest(r) PROVE OpenerOK(s)'
  <2>1. /\ UNCHANGED reader /\ Answer({r})
        /\ r \notin host.asked /\ host'.asked = host.asked \cup {r}
    BY <1>0, <1>1 DEF RefuseRequest, Arrives, HostState
  <2>2. ~Opens(s)'
    BY <1>0, <2>1 DEF Opens
  <2>3. CASE s = r
    BY <2>1, <2>2, <2>3, OpenerAnswers DEF OpenerOK
  <2>4. CASE s # r
    BY <2>1, <2>2, <2>4, OpenerAnswers, OpenerFrame
  <2> QED BY <2>3, <2>4
<1>2. ASSUME NEW x \in Own, OpenStream(x) PROVE OpenerOK(s)'
  <2>1. /\ x \notin host.asked /\ host'.asked = host.asked \cup {x}
        /\ UNCHANGED <<answered, replies>>
        /\ reader'.at = "openReply" /\ reader'.stream = x
    BY <1>0, <1>2 DEF OpenStream, Arrives, HostState, replyVars, Become, Reading
  <2> QED BY <1>0, <2>1 DEF OpenerOK, Opens
<1>3. ASSUME NEW w \in Writes, NEW h \in HostStreams, ConsumeStream(w, h)
      PROVE  OpenerOK(s)'
  <2>1. host.asked \subseteq host'.asked /\ {w} \subseteq Writes
    BY <1>0, <1>3 DEF ConsumeStream, Arrives, HostState
  <2>2. Answer({w}) \/ UNCHANGED replyVars
    BY <1>3 DEF ConsumeStream
  <2>3. replies'[s] = replies[s] /\ (s \in answered' <=> s \in answered)
    BY <2>1, <2>2, OpenerAnswers DEF replyVars
  <2>4. UNCHANGED reader \/ reader'.at = "openPull"
    BY <1>3 DEF ConsumeStream, Become, Reading
  <2> QED BY <1>0, <2>1, <2>3, <2>4, OpenerFrame DEF Opens
<1>4. ASSUME NEW h \in HostStreams, Data(h) \/ HostEnds(h) PROVE OpenerOK(s)'
  <2>1. SinksOf(consumers[h]) \subseteq Writes
    BY ConsumerFacts DEF Types
  <2>2. Finish(SinksOf(consumers[h])) \/ UNCHANGED replyVars
    BY <1>4 DEF Data, HostEnds
  <2>3. replies'[s] = replies[s] /\ (s \in answered' <=> s \in answered)
    BY <2>1, <2>2, OpenerAnswers DEF replyVars
  <2>4. UNCHANGED reader \/ reader'.at = "sink"
    BY <1>4 DEF Data, HostEnds, Become, Reading
  <2>5. host'.asked = host.asked
    BY <1>0, <1>4 DEF Data, HostEnds, HostState
  <2> QED BY <1>0, <2>3, <2>4, <2>5, OpenerFrame DEF Opens
<1>5. ASSUME \/ \E x \in Own : Cancel(x) \/ \E n \in 1 .. MaxPull : Pull(x, n)
             \/ \E c \in Calls : HostReplies(c)
             \/ \E failure \in LinkFailure : EndLink(failure)
      PROVE  OpenerOK(s)'
  <2>1. UNCHANGED replyVars
    BY <1>5 DEF Cancel, Pull, HostReplies, EndLink
  <2>2. UNCHANGED reader \/ reader'.at \in {"ack", "closeStreams"}
    BY <1>5 DEF Cancel, Pull, HostReplies, EndLink, Become, Reading
  <2>3. host'.asked = host.asked
    BY <1>0, <1>5 DEF Cancel, Pull, HostReplies, EndLink, HostState
  <2> QED BY <1>0, <2>1, <2>2, <2>3, OpenerFrame DEF Opens, replyVars
<1> QED BY <1>1, <1>2, <1>3, <1>4, <1>5 DEF Receive

LEMMA OpenerHandle ==
    ASSUME Types, Aim, NEW s \in Own, OpenerOK(s), Handle PROVE OpenerOK(s)'
<1>0. reader \in ReaderState /\ host \in HostState
  BY DEF Types
<1>1. CASE OpenReply
  <2>1. /\ reader.at = "openReply" /\ reader'.at = "read" /\ UNCHANGED host
    BY <1>1 DEF OpenReply, At, Become, Reading
  <2>2. ~Opens(s)' /\ (Opens(s) <=> s = reader.stream)
    BY <2>1 DEF Opens
  <2>3. CASE s = reader.stream
    <3>2. replies[s] = 0 /\ s \notin answered /\ s \in host.asked
      BY <2>2, <2>3 DEF OpenerOK
    <3>3. replies'[s] = 1
      <4>1. CASE writable
        BY <1>1, <2>3, <3>2, <4>1, RequestKinds DEF OpenReply, Types
      <4>2. CASE ~writable
        BY <1>1, <2>3, <3>2, <4>2, OpenerAnswers DEF OpenReply
      <4> QED BY <4>1, <4>2
    <3> QED BY <2>1, <2>2, <3>2, <3>3 DEF OpenerOK
  <2>4. CASE s # reader.stream
    <3>1. replies'[s] = replies[s] /\ (s \in answered' <=> s \in answered)
      <4>1. CASE writable
        BY <1>1, <2>4, <4>1, RequestKinds DEF OpenReply, Types
      <4>2. CASE ~writable
        BY <1>1, <2>4, <4>2, OpenerAnswers DEF OpenReply
      <4> QED BY <4>1, <4>2
    <3> QED BY <2>1, <2>2, <3>1, OpenerFrame
  <2> QED BY <2>3, <2>4
<1>2. CASE ~OpenReply
  <2>1. reader.at # "openReply" => reader'.at # "openReply"
    <3>1. CASE \E label \in ReaderLabel \ {"openReply"} : Continue(label)
      BY <1>0, <3>1 DEF Continue, ReaderState
    <3>2. CASE Become(Reading)
          \/ Become([Reading EXCEPT !.at = "replenish", !.stream = reader.stream])
      <4>1. Reading.at = "read"
            /\ [Reading EXCEPT !.at = "replenish", !.stream = reader.stream].at = "replenish"
        BY DEF Reading
      <4> QED BY <3>2, <4>1 DEF Become
    <3>3. CASE CloseStreams
      BY <1>0, <3>3 DEF CloseStreams, Become, ReaderState
    <3>4. {"failReply", "restore", "cancelRemote", "publish", "ended"}
             \subseteq ReaderLabel \ {"openReply"}
      BY DEF ReaderLabel
    <3> QED BY <1>2, <3>1, <3>2, <3>3, <3>4
            DEF Handle, OpenPull, FailReply, Acknowledge, SinkWrite, CancelRemote, Restore,
                ReplenishWindow, SignalStreams, PublishLinkFailure
  <2>2. reader.at # "openReply"
    BY <1>2 DEF Handle, OpenPull, FailReply, Acknowledge, SinkWrite, CancelRemote, Restore,
       ReplenishWindow, CloseStreams, SignalStreams, PublishLinkFailure, At
  <2>3. host'.asked = host.asked
    <3>1. UNCHANGED host \/ host' = [host EXCEPT !.opened = @ \cup {reader.stream}]
      BY <1>2 DEF Handle, OpenPull, FailReply, Acknowledge, SinkWrite, CancelRemote,
         Restore, ReplenishWindow, CloseStreams, SignalStreams, PublishLinkFailure
    <3> QED BY <1>0, <3>1 DEF HostState
  <2>4. UNCHANGED replyVars \/ \E w \in SUBSET Writes : Finish(w) \/ Answer(w)
    <3>1. CASE OpenPull \/ ReplenishWindow
      <4>1. SinksOf(consumers[reader.stream]) \in SUBSET Writes
        BY <3>1, ConsumerFacts DEF OpenPull, ReplenishWindow, At, Aim, Types
      <4> QED BY <3>1, <4>1 DEF OpenPull, ReplenishWindow
    <3>2. CASE SinkWrite \/ Restore
      <4>1. reader.consumer.sink \in Writes
        BY <1>0, <3>2, ConsumerFacts DEF SinkWrite, Restore, At, Aim, ReaderState
      <4>2. {reader.consumer.sink} \in SUBSET Writes /\ {} \in SUBSET Writes
        BY <4>1
      <4>3. CASE SinkWrite
        BY <4>2, <4>3 DEF SinkWrite
      <4>4. CASE Restore
        <5>1. Finish({}) \/ Finish({reader.consumer.sink})
          BY <4>4 DEF Restore
        <5> QED BY <4>2, <5>1
      <4> QED BY <3>2, <4>3, <4>4
    <3>3. CASE FailReply \/ SignalStreams
      BY <1>0, <3>3 DEF FailReply, SignalStreams, ReaderState
    <3> QED BY <1>2, <3>1, <3>2, <3>3
            DEF Handle, Acknowledge, CancelRemote, CloseStreams, PublishLinkFailure
  <2>5. replies'[s] = replies[s] /\ (s \in answered' <=> s \in answered)
    BY <2>4, OpenerAnswers DEF replyVars
  <2> QED BY <2>1, <2>2, <2>3, <2>5, OpenerFrame DEF Opens
<1> QED BY <1>1, <1>2

LEMMA OpenerStep == Types /\ Aim /\ OpenerInv /\ [Next]_vars => OpenerInv'
<1> SUFFICES ASSUME Types, Aim, OpenerInv, [Next]_vars, NEW s \in Own
             PROVE  OpenerOK(s)'
  BY DEF OpenerInv
<1>0. OpenerOK(s) /\ Own = Reads \cup Watches
  BY DEF OpenerInv, Own
<1>1. CASE Receive
  BY <1>0, <1>1, OpenerReceive
<1>2. CASE Handle
  BY <1>0, <1>2, OpenerHandle
<1>3. ASSUME NEW x \in Own,
             \/ x \in Reads /\ Producer(x)
             \/ x \in Watches /\ (NextValue(x) \/ EventReacts(x))
      PROVE  OpenerOK(s)'
  <2>1. UNCHANGED <<reader, host>>
    BY <1>3, ThreadFrame
  <2>2. CASE SettleForgotten(x)
    <3>1. SinksOf(forgot[x]) \subseteq Writes
      BY DEF SinksOf, TakenOut, Types
    <3>2. Finish(SinksOf(forgot[x]))
      BY <2>2 DEF SettleForgotten
    <3>3. replies'[s] = replies[s] /\ (s \in answered' <=> s \in answered)
      BY <3>1, <3>2, OpenerAnswers
    <3> QED BY <1>0, <2>1, <3>3, OpenerFrame DEF Opens
  <2>3. CASE ~SettleForgotten(x)
    <3>1. UNCHANGED replyVars
      BY <1>3, <2>3 DEF Producer, EventReacts, ProducerWait, NextChunk, ProducerChunk,
         ForgetStream, ClaimEnding, WriteEnding, CloseHandle, NextValue, EventCancelled,
         EventSpend, EventChunk, ThreadOnly
    <3> QED BY <1>0, <2>1, <3>1, OpenerFrame DEF Opens, replyVars
  <2> QED BY <2>2, <2>3
<1>4. CASE BreakWriter \/ UNCHANGED vars \/ \E c \in Calls : Caller(c)
  <2>1. UNCHANGED <<reader, host, answered, replies>>
    BY <1>4 DEF BreakWriter, vars, replyVars, Caller, CallRegister, CallWrite,
       CallReceive, CallTimeout, CallUnregister, CallOnly
  <2> QED BY <1>0, <2>1, OpenerFrame DEF Opens
<1> QED BY <1>0, <1>1, <1>2, <1>3, <1>4 DEF Next

-----------------------------------------------------------------------------
(* The published failure.                                                  *)

LinkInv == link # "up" => reader.at = "ended"

LEMMA LinkStep == Types /\ LinkInv /\ [Next]_vars => LinkInv'
<1> SUFFICES ASSUME Types, LinkInv, [Next]_vars PROVE LinkInv'
  OBVIOUS
<1> USE DEF LinkInv
<1>1. CASE Receive
  BY <1>1 DEF Receive, RefuseRequest, OpenStream, Cancel, Pull, ConsumeStream, Data,
     HostEnds, HostReplies, EndLink, Arrives, At
<1>2. CASE Handle /\ ~PublishLinkFailure
  BY <1>2 DEF Handle, OpenReply, OpenPull, FailReply, Acknowledge, SinkWrite, CancelRemote,
     Restore, ReplenishWindow, CloseStreams, SignalStreams, At
<1>3. CASE PublishLinkFailure
  <2>1. reader'.at = "ended"
    BY <1>3 DEF PublishLinkFailure, Continue, Types, ReaderState
  <2> QED BY <2>1
<1>4. CASE UNCHANGED <<link, reader>>
  BY <1>4
<1>5. CASE BreakWriter \/ UNCHANGED vars \/ \E c \in Calls : Caller(c)
  BY <1>4, <1>5 DEF BreakWriter, vars, Caller, CallRegister, CallWrite,
     CallReceive, CallTimeout, CallUnregister, CallOnly
<1>6. Own = Reads \cup Watches
  BY DEF Own
<1> QED BY <1>1, <1>2, <1>3, <1>4, <1>5, <1>6, ThreadFrame DEF Next

(* Every sink of a hands.write is somewhere or has been finished, and no   *)
(* request was answered before its time (Consumer, DeferredReply).         *)
THEOREM SinksHold == Spec => [](SinkInv /\ OpenerInv /\ LinkInv)
<1>1. Init => SinkInv /\ OpenerInv /\ LinkInv
  BY ConsumerFacts, RequestKinds
     DEF Init, Reading, SinkInv, OnePlace, SinkOK, OpenerInv, OpenerOK, LinkInv, Owned, Near,
         Forgotten, Single, Tabled, Held, Swept, Failing, Opens
<1> QED BY <1>1, SinkStep, OpenerStep, LinkStep, TypesHold, StreamsHold, PTL DEF Spec

(* One request, one reply, whichever of the handler, the sink, the end of  *)
(* the link and a failing thread come to give it (DeferredReply).          *)
THEOREM AnswersHold == Spec => []AnsweredOnce
<1>1. Types /\ Aim /\ Shut /\ SinkInv /\ OpenerInv /\ LinkInv => AnsweredOnce
  <2> SUFFICES ASSUME Types, Aim, Shut, SinkInv, OpenerInv, LinkInv PROVE AnsweredOnce
    OBVIOUS
  <2>1. OneReply
    BY DEF OneReply, SinkInv, SinkOK, OpenerInv, OpenerOK, Requests
  <2>2. ReplyIsOwed
    BY DEF ReplyIsOwed, SinkInv, SinkOK, Owned, Near, Tabled, Held, Swept, Failing
  <2>3. LinkDownIsQuiet
    <3>0. CASE link = "up"
      BY <3>0 DEF LinkDownIsQuiet
    <3> SUFFICES ASSUME link # "up" PROVE LinkDownIsQuiet
      BY <3>0
    <3>1. reader.at = "ended"
      BY DEF LinkInv
    <3>2. own = {} /\ \A h \in HostStreams : consumers[h] = NoConsumer
      BY <3>1 DEF Shut
    <3>3. \A w \in Writes : ~Near(w) /\ ~Failing(w)
      BY <3>1, <3>2, SinkValues, ConsumerFacts DEF Near, Tabled, Held, Swept, Failing
    <3>4. \A w \in Writes \cap host.asked : w \in answered \/ Forgotten(w)
      BY <3>3 DEF SinkInv, SinkOK, Owned
    <3> QED BY <3>2, <3>4 DEF LinkDownIsQuiet
  <2> QED BY <2>1, <2>2, <2>3 DEF AnsweredOnce
<1> QED BY <1>1, SinksHold, StreamsHold, TypesHold, PTL

(* A sink, a stream and the handle behind it end once (whoever removes the *)
(* entry of the table owns the ending).                                    *)
THEOREM EndingsHold == Spec => []EndsOnce
<1>1. Types /\ StreamInv /\ SinkInv => EndsOnce
  <2> SUFFICES ASSUME Types, StreamInv, SinkInv PROVE EndsOnce
    OBVIOUS
  <2>1. SinkFinishedOnce
    BY DEF SinkFinishedOnce, SinkInv, SinkOK, Owned, Near, Tabled, Held, At
  <2>2. OneEnding
    <3> SUFFICES ASSUME NEW s \in Own
                 PROVE  wire[s].ends <= 1 /\ (Cancelled(s) => wire[s].ends = 0)
      BY DEF OneEnding
    <3>1. wire[s].ends \in Nat /\ Entitled(s)
      BY StreamValues DEF StreamInv, StreamOK
    <3>2. wire[s].ends > 0 => wire[s].ends = 1 /\ ~Cancelled(s)
      BY <3>1 DEF Entitled
    <3> QED BY <3>1, <3>2
  <2>3. HandleClosedOnce
    <3> SUFFICES ASSUME NEW s \in Own
                 PROVE  /\ closed[s] <= 1
                        /\ thread[s] \in {"wait", "next", "value", "chunk", "forget", "settle",
                                           "close"}
                              => closed[s] = 0
                        /\ thread[s] = "gone" => closed[s] = 1 /\ s \notin own
      BY DEF HandleClosedOnce
    <3>1. StreamOK(s) /\ thread[s] \in ThreadLabel
      BY StreamValues DEF StreamInv
    <3> QED BY <3>1 DEF StreamOK, Opening, Entitled, Closing, Over, ThreadLabel
  <2> QED BY <2>1, <2>2, <2>3 DEF EndsOnce
<1> QED BY <1>1, SinksHold, StreamsHold, TypesHold, PTL

-----------------------------------------------------------------------------
(* The window of a consumed stream.                                        *)

(* What the reader is about to add to the window of a stream.              *)
Owing(h) == reader.at \in {"openPull", "replenish"} /\ reader.stream = h

(* What the host may still send, and what the shell counted since it last  *)
(* opened the window, make the credit it began with.                       *)
TableWindow(h) ==
    consumers[h] # NoConsumer =>
        \/ window[h] + consumers[h].since >= InitialCredit
        \/ Owing(h) /\ (reader.at = "replenish" =>
               window[h] + consumers[h].since + Replenish >= InitialCredit)

HandWindow ==
    reader.at \in {"sink", "restore"} =>
        window[reader.stream] + reader.consumer.since
            + (IF reader.due THEN Replenish ELSE 0) >= InitialCredit

WindowInv == HandWindow /\ \A h \in HostStreams : TableWindow(h)

LEMMA WindowValues ==
    ASSUME Types
    PROVE  /\ InitialCredit \in Nat /\ Replenish \in Nat /\ InitialCredit > 0
           /\ Replenish > 0 /\ Replenish <= InitialCredit
           /\ \A h \in HostStreams :
                 /\ window[h] \in Nat /\ consumers[h] \in Consumer
                 /\ consumers[h].since \in Nat /\ consumers[h].since < Replenish
           /\ reader.consumer \in Consumer /\ reader.due \in BOOLEAN
           /\ reader.consumer.since \in Nat /\ reader.consumer.since < Replenish
<1>1. \A c \in Consumer : c.since \in Nat /\ c.since < Replenish
  BY ConsumerFacts, CreditAssumption
<1> QED BY <1>1, CreditAssumption DEF Types, ReaderState

LEMMA WindowFrame ==
    ASSUME Types, WindowInv, UNCHANGED window,
           \A h \in HostStreams : consumers'[h] \in {consumers[h], NoConsumer},
           UNCHANGED reader
           \/ /\ reader'.at \notin {"sink", "restore"}
              /\ reader.at \notin {"openPull", "replenish"}
                 \/ consumers'[reader.stream] = NoConsumer
    PROVE  WindowInv'
<1>1. HandWindow'
  BY DEF WindowInv, HandWindow
<1>2. \A h \in HostStreams : TableWindow(h)'
  BY DEF WindowInv, TableWindow, Owing
<1> QED BY <1>1, <1>2 DEF WindowInv

LEMMA WindowReceive ==
    ASSUME Types, Aim, WindowInv, Receive PROVE WindowInv'
<1>0. reader.at = "read" /\ \A h : ~Owing(h)
  BY DEF Receive, RefuseRequest, OpenStream, Cancel, Pull, ConsumeStream, Data,
     HostEnds, HostReplies, EndLink, Arrives, At, Owing
<1>1. ASSUME UNCHANGED <<window, consumers>>, reader' = reader
                 \/ reader'.at \in {"openReply", "ack", "closeStreams"}
      PROVE  WindowInv'
  BY <1>0, <1>1, WindowFrame
<1>2. ASSUME \/ \E r \in Requests : RefuseRequest(r)
             \/ \E s \in Own : OpenStream(s) \/ Cancel(s)
             \/ \E s \in Own, n \in 1 .. MaxPull : Pull(s, n)
             \/ \E c \in Calls : HostReplies(c)
             \/ \E failure \in LinkFailure : EndLink(failure)
      PROVE  WindowInv'
  <2>1. UNCHANGED <<window, consumers>>
    BY <1>2 DEF RefuseRequest, OpenStream, Cancel, Pull, HostReplies, EndLink, sinkVars
  <2>2. reader' = reader \/ reader'.at \in {"openReply", "ack", "closeStreams"}
    BY <1>2 DEF RefuseRequest, OpenStream, Cancel, Pull, HostReplies, EndLink, Become,
       Reading
  <2> QED BY <1>1, <2>1, <2>2
<1>3. ASSUME NEW w \in Writes, NEW h \in HostStreams, ConsumeStream(w, h)
      PROVE  WindowInv'
  <2>1. CASE consumers[h] # NoConsumer
    BY <1>1, <1>3, <2>1 DEF ConsumeStream
  <2>2. CASE consumers[h] = NoConsumer
    <3>1. /\ UNCHANGED window /\ reader'.at = "openPull" /\ reader'.stream = h
          /\ \A g \in HostStreams : g # h => consumers'[g] = consumers[g]
      BY <1>3, <2>2 DEF ConsumeStream, Become, Reading, Types
    <3>2. HandWindow'
      BY <3>1 DEF HandWindow
    <3>3. ASSUME NEW g \in HostStreams PROVE TableWindow(g)'
      BY <1>0, <3>1 DEF WindowInv, TableWindow, Owing
    <3> QED BY <3>2, <3>3 DEF WindowInv
  <2> QED BY <2>1, <2>2
<1>4. ASSUME NEW h \in HostStreams, Data(h) PROVE WindowInv'
  <2>1. /\ window' = [window EXCEPT ![h] = @ - 1] /\ window[h] > 0
        /\ consumers' = [consumers EXCEPT ![h] = NoConsumer]
    BY <1>4 DEF Data
  <2>2. /\ window'[h] = window[h] - 1 /\ consumers'[h] = NoConsumer
        /\ \A g \in HostStreams : g # h =>
              window'[g] = window[g] /\ consumers'[g] = consumers[g]
    BY <2>1 DEF Types
  <2>3. \A g \in HostStreams : TableWindow(g)'
    BY <1>0, <2>2 DEF WindowInv, TableWindow
  <2>4. HandWindow'
    <3> DEFINE since == consumers[h].since
               due == since + 1 >= Replenish
    <3>1. CASE UNCHANGED reader
      BY <1>0, <3>1 DEF HandWindow
    <3>2. CASE /\ consumers[h] # NoConsumer
               /\ Become([Reading EXCEPT !.at = "sink", !.stream = h, !.due = due,
                     !.consumer = [consumers[h] EXCEPT !.since =
                                      IF due THEN 0 ELSE @ + 1]])
      <4>1. reader'.stream = h /\ reader'.due = due
            /\ reader'.consumer = [consumers[h] EXCEPT !.since = IF due THEN 0 ELSE @ + 1]
        BY <3>2 DEF Become, Reading
      <4>2. reader'.consumer.since = IF due THEN 0 ELSE since + 1
        BY <4>1, ConsumerFacts DEF Types
      <4>3. window[h] + since >= InitialCredit
        BY <1>0, <3>2 DEF WindowInv, TableWindow
      <4>4. CASE due
        <5>1. since + 1 = Replenish
          BY <4>4, WindowValues
        <5>2. window'[reader'.stream] + reader'.consumer.since + Replenish >= InitialCredit
          BY <2>2, <4>1, <4>2, <4>3, <4>4, <5>1, WindowValues
        <5> QED BY <4>1, <4>4, <5>2 DEF HandWindow
      <4>5. CASE ~due
        <5>1. window'[reader'.stream] + reader'.consumer.since + 0 >= InitialCredit
          BY <2>2, <4>1, <4>2, <4>3, <4>5, WindowValues
        <5> QED BY <4>1, <4>5, <5>1 DEF HandWindow
      <4> QED BY <4>4, <4>5
    <3> QED BY <1>4, <3>1, <3>2 DEF Data
  <2> QED BY <2>3, <2>4 DEF WindowInv
<1>5. ASSUME NEW h \in HostStreams, HostEnds(h) PROVE WindowInv'
  <2>1. UNCHANGED <<window, reader>>
    BY <1>5 DEF HostEnds
  <2>2. \A g \in HostStreams : consumers'[g] \in {consumers[g], NoConsumer}
    BY <1>5 DEF HostEnds, Types
  <2> QED BY <2>1, <2>2, WindowFrame
<1> QED BY <1>2, <1>3, <1>4, <1>5 DEF Receive

LEMMA WindowHandle ==
    ASSUME Types, Aim, WindowInv, Handle PROVE WindowInv'
<1>0. reader \in ReaderState
  BY DEF Types
<1>1. CASE OpenReply \/ FailReply \/ Acknowledge \/ CancelRemote \/ CloseStreams
           \/ SignalStreams \/ PublishLinkFailure
  <2>1. UNCHANGED window
    BY <1>1 DEF OpenReply, FailReply, Acknowledge, CancelRemote, CloseStreams,
       SignalStreams, PublishLinkFailure, sinkVars
  <2>2. UNCHANGED consumers \/ consumers' = [h \in HostStreams |-> NoConsumer]
    BY <1>1 DEF OpenReply, FailReply, Acknowledge, CancelRemote, CloseStreams,
       SignalStreams, PublishLinkFailure, sinkVars
  <2>3. reader.at \notin {"openPull", "replenish"}
    BY <1>1 DEF OpenReply, FailReply, Acknowledge, CancelRemote, CloseStreams,
       SignalStreams, PublishLinkFailure, At
  <2>4. reader'.at \notin {"sink", "restore"}
    <3>1. CASE Become(Reading)
      BY <3>1 DEF Become, Reading
    <3>2. CASE Continue("publish") \/ Continue("ended")
      BY <1>0, <3>2 DEF Continue, ReaderState
    <3>3. CASE CloseStreams
      BY <1>0, <3>3 DEF CloseStreams, Become, ReaderState
    <3> QED BY <1>1, <3>1, <3>2, <3>3 DEF OpenReply, FailReply, Acknowledge, CancelRemote,
            SignalStreams, PublishLinkFailure
  <2>5. \A h \in HostStreams : consumers'[h] \in {consumers[h], NoConsumer}
    BY <2>2
  <2> QED BY <2>1, <2>3, <2>4, <2>5, WindowFrame
<1>2. CASE OpenPull
  <2>0. PICK h \in HostStreams : h = reader.stream
    BY <1>2 DEF OpenPull, At, Aim
  <2>1. reader.at = "openPull" /\ h = reader.stream
    BY <1>2, <2>0 DEF OpenPull, At, Aim
  <2>2. CASE writable
    <3>1. /\ UNCHANGED consumers /\ reader'.at = "read"
          /\ window' = [window EXCEPT ![h] = @ + InitialCredit]
      BY <1>2, <2>1, <2>2 DEF OpenPull, Become, Reading
    <3>2. /\ window'[h] = window[h] + InitialCredit
          /\ \A g \in HostStreams : g # h => window'[g] = window[g]
      BY <2>1, <3>1 DEF Types
    <3>3. HandWindow'
      BY <3>1 DEF HandWindow
    <3>4. TableWindow(h)'
      BY <2>1, <3>1, <3>2, WindowValues DEF TableWindow
    <3>5. \A g \in HostStreams : g # h => TableWindow(g)'
      BY <2>1, <3>1, <3>2 DEF WindowInv, TableWindow, Owing
    <3> QED BY <3>3, <3>4, <3>5 DEF WindowInv
  <2>3. CASE ~writable
    <3>1. /\ UNCHANGED window /\ reader'.at = "failReply"
          /\ consumers' = [consumers EXCEPT ![h] = NoConsumer]
      BY <1>0, <1>2, <2>1, <2>3 DEF OpenPull, Continue, ReaderState
    <3>2. \A g \in HostStreams : consumers'[g] \in {consumers[g], NoConsumer}
      BY <3>1 DEF Types
    <3>3. consumers'[h] = NoConsumer
      BY <2>1, <3>1 DEF Types
    <3> QED BY <2>1, <3>1, <3>2, <3>3, WindowFrame
  <2> QED BY <2>2, <2>3
<1>3. CASE SinkWrite
  <2>1. /\ UNCHANGED <<window, consumers>> /\ reader.at = "sink"
        /\ reader'.at \in {"restore", "cancelRemote"} /\ reader'.stream = reader.stream
        /\ reader'.consumer = reader.consumer /\ reader'.due = reader.due
    BY <1>0, <1>3 DEF SinkWrite, At, Continue, ReaderState
  <2>2. HandWindow'
    BY <2>1 DEF WindowInv, HandWindow
  <2>3. \A h \in HostStreams : TableWindow(h)'
    BY <2>1 DEF WindowInv, TableWindow, Owing
  <2> QED BY <2>2, <2>3 DEF WindowInv
<1>4. CASE Restore
  <2>0. PICK h \in HostStreams : h = reader.stream
    BY <1>4 DEF Restore, At, Aim
  <2> DEFINE free == consumers[h] = NoConsumer
  <2>1. /\ reader.at = "restore" /\ h = reader.stream /\ UNCHANGED window
        /\ consumers' = IF free THEN [consumers EXCEPT ![h] = reader.consumer]
                                ELSE consumers
    BY <1>4, <2>0 DEF Restore, At
  <2>2. /\ reader'.at = IF free /\ reader.due THEN "replenish" ELSE "read"
        /\ free /\ reader.due => reader'.stream = h
    BY <1>4, <2>0 DEF Restore, Become, Reading
  <2>3. HandWindow'
    BY <2>2 DEF HandWindow
  <2>4. \A g \in HostStreams : g # h => consumers'[g] = consumers[g]
    BY <2>1 DEF Types
  <2>5. consumers'[h] = IF free THEN reader.consumer ELSE consumers[h]
    BY <2>1 DEF Types
  <2>6. \A g \in HostStreams : g # h => TableWindow(g)'
    BY <2>1, <2>4 DEF WindowInv, TableWindow, Owing
  <2>7. TableWindow(h)'
    <3>1. window[h] + reader.consumer.since
             + (IF reader.due THEN Replenish ELSE 0) >= InitialCredit
      BY <2>1 DEF WindowInv, HandWindow
    <3>2. CASE ~free
      BY <2>1, <2>5, <3>2 DEF WindowInv, TableWindow, Owing
    <3>3. CASE free /\ reader.due
      BY <2>1, <2>2, <2>5, <3>1, <3>3 DEF TableWindow, Owing
    <3>4. CASE free /\ ~reader.due
      <4>1. window[h] + reader.consumer.since >= InitialCredit
        BY <2>1, <3>1, <3>4, WindowValues
      <4> QED BY <2>1, <2>5, <3>4, <4>1 DEF TableWindow
    <3> QED BY <3>2, <3>3, <3>4
  <2> QED BY <2>3, <2>6, <2>7 DEF WindowInv
<1>5. CASE ReplenishWindow
  <2>0. PICK h \in HostStreams : h = reader.stream
    BY <1>5 DEF ReplenishWindow, At, Aim
  <2>1. reader.at = "replenish" /\ h = reader.stream /\ reader'.at = "read"
    BY <1>5, <2>0 DEF ReplenishWindow, At, Become, Reading
  <2>2. CASE writable
    <3>1. UNCHANGED consumers /\ window' = [window EXCEPT ![h] = @ + Replenish]
      BY <1>5, <2>1, <2>2 DEF ReplenishWindow
    <3>2. /\ window'[h] = window[h] + Replenish
          /\ \A g \in HostStreams : g # h => window'[g] = window[g]
      BY <2>1, <3>1 DEF Types
    <3>3. HandWindow'
      BY <2>1 DEF HandWindow
    <3>4. TableWindow(h)'
      <4>1. consumers[h] # NoConsumer =>
                window'[h] + consumers[h].since >= InitialCredit
        BY <2>1, <3>2, WindowValues DEF WindowInv, TableWindow
      <4> QED BY <3>1, <4>1 DEF TableWindow
    <3>5. \A g \in HostStreams : g # h => TableWindow(g)'
      BY <2>1, <3>1, <3>2 DEF WindowInv, TableWindow, Owing
    <3> QED BY <3>3, <3>4, <3>5 DEF WindowInv
  <2>3. CASE ~writable
    <3>1. /\ UNCHANGED window /\ consumers' = [consumers EXCEPT ![h] = NoConsumer]
      BY <1>5, <2>1, <2>3 DEF ReplenishWindow
    <3>2. \A g \in HostStreams : consumers'[g] \in {consumers[g], NoConsumer}
      BY <3>1 DEF Types
    <3>3. consumers'[h] = NoConsumer
      BY <2>1, <3>1 DEF Types
    <3> QED BY <2>1, <3>1, <3>2, <3>3, WindowFrame
  <2> QED BY <2>2, <2>3
<1> QED BY <1>1, <1>2, <1>3, <1>4, <1>5 DEF Handle

LEMMA WindowStep == Types /\ Aim /\ WindowInv /\ [Next]_vars => WindowInv'
<1> SUFFICES ASSUME Types, Aim, WindowInv, [Next]_vars PROVE WindowInv'
  OBVIOUS
<1>1. CASE Receive
  BY <1>1, WindowReceive
<1>2. CASE Handle
  BY <1>2, WindowHandle
<1>3. ASSUME NEW s \in Own,
             \/ s \in Reads /\ Producer(s)
             \/ s \in Watches /\ (NextValue(s) \/ EventReacts(s))
      PROVE  WindowInv'
  <2>1. UNCHANGED <<reader, window>>
    BY <1>3, ThreadFrame
  <2>2. \A h \in HostStreams : consumers'[h] \in {consumers[h], NoConsumer}
    <3>1. CASE ForgetStream(s)
      BY <3>1 DEF ForgetStream, Types
    <3>2. CASE ~ForgetStream(s)
      BY <1>3, <3>2 DEF Producer, EventReacts, ProducerWait, NextChunk, ProducerChunk,
         SettleForgotten, ClaimEnding, WriteEnding, CloseHandle, NextValue, EventCancelled,
         EventSpend, EventChunk, ThreadOnly, sinkVars
    <3> QED BY <3>1, <3>2
  <2> QED BY <2>1, <2>2, WindowFrame
<1>4. CASE BreakWriter \/ UNCHANGED vars \/ \E c \in Calls : Caller(c)
  <2>1. UNCHANGED <<reader, window, consumers>>
    BY <1>4 DEF BreakWriter, vars, sinkVars, Caller, CallRegister, CallWrite,
       CallReceive, CallTimeout, CallUnregister, CallOnly
  <2> QED BY <2>1, WindowFrame
<1>5. Own = Reads \cup Watches
  BY DEF Own
<1> QED BY <1>1, <1>2, <1>3, <1>4, <1>5 DEF Next

(* The window of a consumed stream never shuts for good: whenever the      *)
(* reader waits for a chunk, the host may send one (dispatch_stream_data,  *)
(* Consumer::since_pull).                                                  *)
THEOREM WindowHolds == Spec => []WindowNeverShuts
<1>1. Init => WindowInv
  BY DEF Init, Reading, WindowInv, HandWindow, TableWindow
<1>2. Types /\ WindowInv => WindowNeverShuts
  BY WindowValues DEF WindowInv, TableWindow, WindowNeverShuts, Owing, At
<1> QED BY <1>1, <1>2, WindowStep, TypesHold, PTL DEF Spec

=============================================================================
