----------------------------- MODULE KkrpcPeer -----------------------------
(***************************************************************************)
(* The shell's half of the kkrpc link to the host (src-tauri/src/          *)
(* kkrpc_peer.rs), with the requests that open streams on it               *)
(* (src-tauri/src/hands.rs): hands.read and hands.list answer with a       *)
(* stream that a producer thread feeds on the host's credit, hands.watch   *)
(* with one that an event thread feeds, and hands.write consumes a stream  *)
(* of the host and answers when it ends.  Calls are the shell's own        *)
(* requests to the host.                                                   *)
(*                                                                         *)
(* One reader thread receives every frame and runs every handler.  A step  *)
(* is one region under the stream table's lock, one write, or one call of  *)
(* a producer, source or sink.  A write either succeeds or, once the       *)
(* writer is broken, fails.  What ends the reader (the end of the input, a *)
(* third read error in a row, a megabyte of garbage) is not counted: it    *)
(* may come at any time.                                                   *)
(*                                                                         *)
(* Mut... definitions are mistakes this code could contain, in the place   *)
(* of the definition that follows them.                                    *)
(***************************************************************************)
EXTENDS Integers, FiniteSets

CONSTANTS
    Reads,          \* hands.read and hands.list requests, and their streams
    Watches,        \* hands.watch requests, and their streams
    Writes,         \* hands.write requests
    HostStreams,    \* the streams the host may name in a hands.write
    Calls,          \* calls of the shell to the host
    None,
    InitialCredit,  \* INITIAL_CREDIT
    Replenish,      \* REPLENISH
    MaxPull         \* bound: the credit the host grants to one stream

(* The two ends number their streams independently and in the same form,   *)
(* so the host may well name a stream of its own like one of the shell's.  *)
Own      == Reads \cup Watches
Requests == Own \cup Writes

ASSUME KindsAssumption ==
    /\ Reads \cap Watches = {} /\ Own \cap Writes = {}
    /\ None \notin Writes \cup Calls \cup Own \cup HostStreams
ASSUME CreditAssumption ==
    /\ InitialCredit \in Nat \ {0} /\ Replenish \in 1 .. InitialCredit
    /\ MaxPull \in Nat

LinkFailure == {"Closed", "Read", "Unreadable"}

VARIABLES
    writable,   \* the writer has not failed yet
    link,       \* LinkState: "up" or the published failure
    reader,     \* what the reader thread is in the middle of
    own,        \* the producers and events of the stream table
    consumers,  \* the consumers of the stream table
    control,    \* the control block of every stream of the shell
    thread,     \* where the thread of every stream of the shell is
    forgot,     \* what the thread of a failed stream took out of the table
    closed,     \* how often the handle of a stream was closed
    finished,   \* how often the sink of a write was finished
    answered,   \* DeferredReply.answered
    replies,    \* how many answers a request was given
    wire,       \* what the host received on every stream of the shell
    host,       \* what the host did so far
    window,     \* the credit the host may still spend on its streams
    pending,    \* the calls with a registered sender
    strays,     \* the calls registered once the end of the link had drained them
    call,       \* where every caller is
    mailbox     \* what was sent to a caller

vars == <<writable, link, reader, own, consumers, control, thread, forgot, closed,
          finished, answered, replies, wire, host, window, pending, strays, call, mailbox>>

streamVars == <<own, control, thread, forgot, closed, wire>>
sinkVars   == <<consumers, finished, window>>
replyVars  == <<answered, replies>>
callVars   == <<pending, strays, call, mailbox>>

NoConsumer == [sink |-> None, since |-> 0]

(* The reader between two frames.                                          *)
Reading ==
    [at |-> "read", stream |-> None, consumer |-> NoConsumer, due |-> FALSE,
     taken |-> {}, sinks |-> {}, failure |-> "Closed"]

-----------------------------------------------------------------------------
(* Writes and answers.                                                     *)

MutAnswer(requests) ==
    /\ answered' = answered \cup requests
    /\ replies' = [r \in Requests |->
                      replies[r] + (IF r \in requests THEN 1 ELSE 0)]

(* DeferredReply.send and fail: only the first claims the answer.          *)
Answer(requests) ==
    /\ answered' = answered \cup requests
    /\ replies' = [r \in Requests |->
                      replies[r] + (IF r \in requests \ answered THEN 1 ELSE 0)]

(* StreamSink.finish of hands.write answers its request.                   *)
Finish(writes) ==
    /\ finished' = [w \in Writes |->
                       finished[w] + (IF w \in writes THEN 1 ELSE 0)]
    /\ Answer(writes)

(* The sinks a table entry, or what was taken out of it, stands for: one,  *)
(* or none.                                                                *)
SinksOf(entry) == {entry.sink} \ {None}

Ended(s) == wire[s].ends > 0

(* The host receives a chunk; late is one it gets after its cancel was     *)
(* acknowledged.                                                           *)
Chunk(s) ==
    wire' = [wire EXCEPT ![s].chunks = @ + 1,
                         ![s].late = @ + (IF wire[s].acked THEN 1 ELSE 0)]

BreakWriter ==
    /\ writable
    /\ writable' = FALSE
    /\ UNCHANGED <<link, reader, host, streamVars, sinkVars, replyVars, callVars>>

-----------------------------------------------------------------------------
(* The reader thread: requests of the host.                                *)

At(label) == reader.at = label
Become(next) == reader' = next
Continue(label) == reader' = [reader EXCEPT !.at = label]

(* A request arrives once.                                                 *)
Arrives(r) ==
    /\ At("read")
    /\ r \notin host.asked
    /\ host' = [host EXCEPT !.asked = @ \cup {r}]

(* The file or the directory cannot be opened, or an option is refused.    *)
RefuseRequest(r) ==
    /\ Arrives(r)
    /\ Answer({r})
    /\ UNCHANGED <<writable, link, reader, streamVars, sinkVars, callVars>>

(* open_stream and open_event_stream: register, then reply with the        *)
(* reference, then start the thread.                                       *)
OpenStream(s) ==
    /\ Arrives(s)
    /\ own' = own \cup {s}
    /\ Become([Reading EXCEPT !.at = "openReply", !.stream = s])
    /\ UNCHANGED <<writable, link, control, thread, forgot, closed, wire,
                   sinkVars, replyVars, callVars>>

OpenReply ==
    LET s == reader.stream IN
    /\ At("openReply")
    /\ Become(Reading)
    /\ \/ /\ writable
          /\ thread' = [thread EXCEPT ![s] = "wait"]
          /\ replies' = [replies EXCEPT ![s] = @ + 1]
          /\ UNCHANGED <<own, closed, answered>>
       \/ /\ ~writable
          /\ own' = own \ {s}
          /\ closed' = [closed EXCEPT ![s] = @ + 1]
          /\ Answer({s})
          /\ UNCHANGED thread
    /\ UNCHANGED <<writable, link, control, forgot, wire, host, sinkVars, callVars>>

(* hands.write: consume_stream registers the sink, then opens the window.  *)
ConsumeStream(w, h) ==
    /\ Arrives(w)
    /\ IF consumers[h] # NoConsumer
       THEN /\ Answer({w})
            /\ UNCHANGED <<reader, consumers>>
       ELSE /\ consumers' = [consumers EXCEPT ![h] = [sink |-> w, since |-> 0]]
            /\ Become([Reading EXCEPT !.at = "openPull", !.stream = h, !.sinks = {w}])
            /\ UNCHANGED replyVars
    /\ UNCHANGED <<writable, link, streamVars, finished, window, callVars>>

MutOpenPull ==
    LET h == reader.stream IN
    /\ At("openPull")
    /\ \/ /\ writable
          /\ Become(Reading)
          /\ window' = [window EXCEPT ![h] = @ + InitialCredit]
          /\ host' = [host EXCEPT !.opened = @ \cup {h}]
          /\ UNCHANGED <<consumers, finished, replyVars>>
       \/ /\ ~writable
          /\ Continue("failReply")
          /\ Finish(SinksOf(consumers[h]))
          /\ UNCHANGED <<consumers, window, host>>
    /\ UNCHANGED <<writable, link, streamVars, callVars>>

(* A failed pull takes the consumer out again and finishes it, and then    *)
(* the handler fails the reply, which the sink may have answered.          *)
OpenPull ==
    LET h == reader.stream IN
    /\ At("openPull")
    /\ \/ /\ writable
          /\ Become(Reading)
          /\ window' = [window EXCEPT ![h] = @ + InitialCredit]
          /\ host' = [host EXCEPT !.opened = @ \cup {h}]
          /\ UNCHANGED <<consumers, finished, replyVars>>
       \/ /\ ~writable
          /\ Continue("failReply")
          /\ consumers' = [consumers EXCEPT ![h] = NoConsumer]
          /\ Finish(SinksOf(consumers[h]))
          /\ UNCHANGED <<window, host>>
    /\ UNCHANGED <<writable, link, streamVars, callVars>>

FailReply ==
    /\ At("failReply")
    /\ Become(Reading)
    /\ Answer(reader.sinks)
    /\ UNCHANGED <<writable, link, streamVars, sinkVars, host, callVars>>

-----------------------------------------------------------------------------
(* The reader thread: stream control (dispatch_stream_control).  The host  *)
(* only knows a stream whose reference it was given.                       *)

Known(s) == thread[s] # "none"

Pull(s, n) ==
    /\ At("read")
    /\ Known(s)
    /\ host.pulled[s] + n <= MaxPull
    /\ host' = [host EXCEPT !.pulled[s] = @ + n]
    /\ control' = IF s \in own THEN [control EXCEPT ![s].credit = @ + n]
                               ELSE control
    /\ UNCHANGED <<writable, link, reader, own, thread, forgot, closed, wire,
                   sinkVars, replyVars, callVars>>

MutCancel(s) ==
    /\ At("read")
    /\ Known(s) /\ s \notin host.returned
    /\ host' = [host EXCEPT !.returned = @ \cup {s}]
    /\ own' = own \ {s}
    /\ Become([Reading EXCEPT !.at = "ack", !.stream = s])
    /\ UNCHANGED <<control, writable, link, thread, forgot, closed, wire,
                   sinkVars, replyVars, callVars>>

(* "return" and "throw": whoever removes the entry owns the ending, and    *)
(* the removal and the flag are one region under the table's lock.         *)
Cancel(s) ==
    /\ At("read")
    /\ Known(s) /\ s \notin host.returned
    /\ host' = [host EXCEPT !.returned = @ \cup {s}]
    /\ control' = IF s \in own THEN [control EXCEPT ![s].cancelled = TRUE]
                               ELSE control
    /\ own' = own \ {s}
    /\ Become([Reading EXCEPT !.at = "ack", !.stream = s])
    /\ UNCHANGED <<writable, link, thread, forgot, closed, wire,
                   sinkVars, replyVars, callVars>>

Acknowledge ==
    /\ At("ack")
    /\ Become(Reading)
    /\ wire' = IF writable THEN [wire EXCEPT ![reader.stream].acked = TRUE]
                           ELSE wire
    /\ UNCHANGED <<writable, link, own, control, thread, forgot, closed, host,
                   sinkVars, replyVars, callVars>>

-----------------------------------------------------------------------------
(* The reader thread: stream data (dispatch_stream_data).                  *)

(* A chunk of the host, within the window.  A chunk that does not decode   *)
(* ends the stream; any other takes the consumer out of the table.         *)
Data(h) ==
    LET consumer == consumers[h]
        due      == consumer.since + 1 >= Replenish IN
    /\ At("read")
    /\ window[h] > 0 /\ h \notin host.ended
    /\ window' = [window EXCEPT ![h] = @ - 1]
    /\ consumers' = [consumers EXCEPT ![h] = NoConsumer]
    /\ \/ /\ Finish(SinksOf(consumer))
          /\ UNCHANGED reader
       \/ /\ consumer # NoConsumer
          /\ Become([Reading EXCEPT
                !.at = "sink", !.stream = h, !.due = due,
                !.consumer = [consumer EXCEPT !.since = IF due THEN 0 ELSE @ + 1]])
          /\ UNCHANGED <<finished, replyVars>>
    /\ UNCHANGED <<writable, link, streamVars, host, callVars>>

(* StreamSink.write, with the table unlocked.                              *)
SinkWrite ==
    /\ At("sink")
    /\ \/ /\ Continue("restore")
          /\ UNCHANGED <<finished, replyVars>>
       \/ /\ Continue("cancelRemote")
          /\ Finish({reader.consumer.sink})
    /\ UNCHANGED <<writable, link, streamVars, consumers, window, host, callVars>>

CancelRemote ==
    /\ At("cancelRemote")
    /\ Become(Reading)
    /\ UNCHANGED <<writable, link, streamVars, sinkVars, replyVars, host, callVars>>

MutRestore ==
    LET h == reader.stream IN
    /\ At("restore")
    /\ consumers' = [consumers EXCEPT ![h] = [reader.consumer EXCEPT !.since = 0]]
    /\ Become(IF reader.due
              THEN [Reading EXCEPT !.at = "replenish", !.stream = h]
              ELSE Reading)
    /\ UNCHANGED <<finished, replyVars, writable, link, streamVars, window, host, callVars>>

(* The consumer goes back, unless the stream has been taken over.          *)
Restore ==
    LET h    == reader.stream
        free == consumers[h] = NoConsumer IN
    /\ At("restore")
    /\ consumers' = IF free THEN [consumers EXCEPT ![h] = reader.consumer]
                            ELSE consumers
    /\ Finish(IF free THEN {} ELSE {reader.consumer.sink})
    /\ Become(IF free /\ reader.due
              THEN [Reading EXCEPT !.at = "replenish", !.stream = h]
              ELSE Reading)
    /\ UNCHANGED <<writable, link, streamVars, window, host, callVars>>

(* A replenishment that cannot be written ends the stream.                 *)
ReplenishWindow ==
    LET h == reader.stream IN
    /\ At("replenish")
    /\ Become(Reading)
    /\ \/ /\ writable
          /\ window' = [window EXCEPT ![h] = @ + Replenish]
          /\ UNCHANGED <<consumers, finished, replyVars>>
       \/ /\ ~writable
          /\ consumers' = [consumers EXCEPT ![h] = NoConsumer]
          /\ Finish(SinksOf(consumers[h]))
          /\ UNCHANGED window
    /\ UNCHANGED <<writable, link, streamVars, host, callVars>>

(* The terminal frame of a host stream, a clean end or an error.           *)
HostEnds(h) ==
    /\ At("read")
    /\ h \in host.opened \ host.ended
    /\ host' = [host EXCEPT !.ended = @ \cup {h}]
    /\ consumers' = [consumers EXCEPT ![h] = NoConsumer]
    /\ Finish(SinksOf(consumers[h]))
    /\ UNCHANGED <<writable, link, reader, streamVars, window, callVars>>

-----------------------------------------------------------------------------
(* The reader thread: the end of the link (end_link, close_streams,        *)
(* publish_link_failure).                                                  *)

MutEndLink(failure) ==
    /\ At("read")
    /\ Become([Reading EXCEPT !.at = "closeStreams", !.failure = failure])
    /\ UNCHANGED <<writable, link, callVars, streamVars, sinkVars, replyVars, host>>

(* Every waiter there is is failed at once.                                *)
EndLink(failure) ==
    /\ At("read")
    /\ Become([Reading EXCEPT !.at = "closeStreams", !.failure = failure])
    /\ pending' = {}
    /\ mailbox' = [c \in Calls |-> IF c \in pending THEN "closed" ELSE mailbox[c]]
    /\ UNCHANGED <<writable, link, strays, call, streamVars, sinkVars, replyVars, host>>

(* The table is emptied under its lock ...                                 *)
CloseStreams ==
    /\ At("closeStreams")
    /\ Become([reader EXCEPT
           !.at = "signal", !.taken = own,
           !.sinks = UNION {SinksOf(consumers[h]) : h \in HostStreams}])
    /\ own' = {}
    /\ consumers' = [h \in HostStreams |-> NoConsumer]
    /\ UNCHANGED <<writable, link, control, thread, forgot, closed, wire, finished,
                   window, replyVars, host, callVars>>

(* ... and what was in it is cancelled and finished after it is released.  *)
SignalStreams ==
    /\ At("signal")
    /\ Continue("publish")
    /\ control' = [s \in Own |->
           [control[s] EXCEPT !.cancelled = @ \/ s \in reader.taken]]
    /\ Finish(reader.sinks)
    /\ UNCHANGED <<writable, link, own, thread, forgot, closed, wire, consumers,
                   window, host, callVars>>

PublishLinkFailure ==
    /\ At("publish")
    /\ Continue("ended")
    /\ link' = IF link = "up" THEN reader.failure ELSE link
    /\ UNCHANGED <<writable, streamVars, sinkVars, replyVars, host, callVars>>

-----------------------------------------------------------------------------
(* The thread of a stream.                                                 *)

Step(s, from, to) == thread[s] = from /\ thread' = [thread EXCEPT ![s] = to]

(* What a thread leaves alone besides what its step names.                 *)
ThreadOnly ==
    UNCHANGED <<writable, link, reader, forgot, sinkVars, replyVars, host, callVars>>

Cancelled(s) == control[s].cancelled

MutSpendCredit(s) == UNCHANGED control

SpendCredit(s) == control' = [control EXCEPT ![s].credit = @ - 1]

(* spawn_producer: wait_for_credit and spend_credit, then next_chunk.      *)
ProducerWait(s) ==
    /\ \/ /\ Cancelled(s)
          /\ Step(s, "wait", "close")
          /\ UNCHANGED control
       \/ /\ ~Cancelled(s) /\ control[s].credit > 0
          /\ Step(s, "wait", "next")
          /\ SpendCredit(s)
    /\ UNCHANGED <<own, closed, wire>> /\ ThreadOnly

NextChunk(s) ==
    /\ Step(s, "next", "chunk") \/ Step(s, "next", "claim")
    /\ UNCHANGED <<own, control, closed, wire>> /\ ThreadOnly

ProducerChunk(s) ==
    /\ \/ writable /\ Step(s, "chunk", "wait") /\ Chunk(s)
       \/ ~writable /\ Step(s, "chunk", "forget") /\ UNCHANGED wire
    /\ UNCHANGED <<own, control, closed>> /\ ThreadOnly

(* forget_stream: the entries of this number, in either direction, are     *)
(* removed under the table's lock ...                                      *)
ForgetStream(s) ==
    /\ Step(s, "forget", "settle")
    /\ own' = own \ {s}
    /\ consumers' = [h \in HostStreams |-> IF h = s THEN NoConsumer ELSE consumers[h]]
    /\ forgot' = [forgot EXCEPT ![s] =
           [producer |-> s \in own,
            sink |-> IF s \in HostStreams THEN consumers[s].sink ELSE None]]
    /\ UNCHANGED <<control, closed, wire, writable, link, reader, finished, window,
                   replyVars, host, callVars>>

(* ... and the producer is cancelled and the consumer finished after it is *)
(* released, by this thread: the reader goes on meanwhile.                 *)
SettleForgotten(s) ==
    /\ Step(s, "settle", "close")
    /\ control' = [control EXCEPT ![s].cancelled = @ \/ forgot[s].producer]
    /\ Finish(SinksOf(forgot[s]))
    /\ UNCHANGED <<own, forgot, closed, wire, writable, link, reader, consumers,
                   window, host, callVars>>

(* Whoever still finds the entry owes the terminal frame.                  *)
ClaimEnding(s, unowned) ==
    /\ Step(s, "claim", IF s \in own THEN "lastWrite" ELSE unowned)
    /\ own' = own \ {s}
    /\ UNCHANGED <<control, closed, wire>> /\ ThreadOnly

WriteEnding(s, after) ==
    /\ Step(s, "lastWrite", after)
    /\ wire' = IF writable THEN [wire EXCEPT ![s].ends = @ + 1] ELSE wire
    /\ UNCHANGED <<own, control, closed>> /\ ThreadOnly

CloseHandle(s, after) ==
    /\ Step(s, "close", after)
    /\ closed' = [closed EXCEPT ![s] = @ + 1]
    /\ UNCHANGED <<own, control, wire>> /\ ThreadOnly

Producer(s) ==
    \/ ProducerWait(s) \/ NextChunk(s) \/ ProducerChunk(s)
    \/ ForgetStream(s) \/ SettleForgotten(s)
    \/ ClaimEnding(s, "close") \/ WriteEnding(s, "close")
    \/ CloseHandle(s, "gone")

(* open_event_stream's thread.  A value comes when the world changes; it   *)
(* waits in the thread's hands until the host has granted credit.          *)
NextValue(s) ==
    /\ ~Cancelled(s)
    /\ Step(s, "wait", "value")
    /\ UNCHANGED <<own, control, closed, wire>> /\ ThreadOnly

EventCancelled(s) ==
    /\ Cancelled(s)
    /\ Step(s, "wait", "close") \/ Step(s, "value", "close")
    /\ UNCHANGED <<own, control, closed, wire>> /\ ThreadOnly

EventSpend(s) ==
    /\ ~Cancelled(s) /\ control[s].credit > 0
    /\ Step(s, "value", "chunk")
    /\ SpendCredit(s)
    /\ UNCHANGED <<own, closed, wire>> /\ ThreadOnly

EventChunk(s) ==
    /\ \/ writable /\ Step(s, "chunk", "wait") /\ Chunk(s)
       \/ ~writable /\ Step(s, "chunk", "close") /\ UNCHANGED wire
    /\ UNCHANGED <<own, control, closed>> /\ ThreadOnly

(* The source is closed first; then the entry is claimed.                  *)
EventReacts(s) ==
    \/ EventCancelled(s) \/ EventSpend(s) \/ EventChunk(s)
    \/ CloseHandle(s, "claim") \/ ClaimEnding(s, "gone") \/ WriteEnding(s, "gone")

-----------------------------------------------------------------------------
(* call_timeout, on any other thread, and the reply to it.                 *)

CallGoes(c, from, to) == call[c] = from /\ call' = [call EXCEPT ![c] = to]

CallOnly ==
    UNCHANGED <<writable, link, reader, streamVars, sinkVars, replyVars, host>>

(* The reader has been past the calls for the last time.                   *)
Drained == reader.at \in {"closeStreams", "signal", "publish", "ended"}

(* The sender is registered before the frame is written, and without a     *)
(* look at the link.                                                       *)
CallRegister(c) ==
    /\ CallGoes(c, "idle", "write")
    /\ pending' = pending \cup {c}
    /\ strays' = IF Drained THEN strays \cup {c} ELSE strays
    /\ UNCHANGED mailbox /\ CallOnly

CallWrite(c) ==
    /\ CallGoes(c, "write", IF writable THEN "wait" ELSE "failed")
    /\ UNCHANGED <<pending, strays, mailbox>> /\ CallOnly

(* recv_timeout: an answer that came in time is received.                  *)
CallReceive(c) ==
    /\ mailbox[c] # "empty"
    /\ CallGoes(c, "wait", "answered")
    /\ UNCHANGED <<pending, strays, mailbox>> /\ CallOnly

CallTimeout(c) ==
    /\ mailbox[c] = "empty"
    /\ CallGoes(c, "wait", "timedOut")
    /\ UNCHANGED <<pending, strays, mailbox>> /\ CallOnly

CallUnregister(c) ==
    /\ \/ CallGoes(c, "answered", "done")
       \/ CallGoes(c, "timedOut", "done")
       \/ CallGoes(c, "failed", "aborted")
    /\ pending' = pending \ {c}
    /\ UNCHANGED <<strays, mailbox>> /\ CallOnly

Caller(c) ==
    \/ CallRegister(c) \/ CallWrite(c) \/ CallReceive(c)
    \/ CallTimeout(c) \/ CallUnregister(c)

(* The host's reply, in time or late.  Without a sender it is dropped.     *)
HostReplies(c) ==
    /\ At("read")
    /\ call[c] \in {"wait", "answered", "timedOut", "done"} /\ c \notin host.replied
    /\ host' = [host EXCEPT !.replied = @ \cup {c}]
    /\ pending' = pending \ {c}
    /\ mailbox' = IF c \in pending THEN [mailbox EXCEPT ![c] = "value"] ELSE mailbox
    /\ UNCHANGED <<strays, call, writable, link, reader, streamVars, sinkVars, replyVars>>

-----------------------------------------------------------------------------

Init ==
    /\ writable = TRUE
    /\ link = "up"
    /\ reader = Reading
    /\ own = {}
    /\ consumers = [h \in HostStreams |-> NoConsumer]
    /\ control = [s \in Own |-> [credit |-> 0, cancelled |-> FALSE]]
    /\ thread = [s \in Own |-> "none"]
    /\ forgot = [s \in Own |-> [producer |-> FALSE, sink |-> None]]
    /\ closed = [s \in Own |-> 0]
    /\ finished = [w \in Writes |-> 0]
    /\ answered = {}
    /\ replies = [r \in Requests |-> 0]
    /\ wire = [s \in Own |-> [chunks |-> 0, ends |-> 0, late |-> 0, acked |-> FALSE]]
    /\ host = [asked |-> {}, returned |-> {}, opened |-> {}, ended |-> {},
               replied |-> {}, pulled |-> [s \in Own |-> 0]]
    /\ window = [h \in HostStreams |-> 0]
    /\ pending = {}
    /\ strays = {}
    /\ call = [c \in Calls |-> "idle"]
    /\ mailbox = [c \in Calls |-> "empty"]

(* What the reader does with the frame, or the end, that it received.      *)
Receive ==
    \/ \E r \in Requests : RefuseRequest(r)
    \/ \E s \in Own : OpenStream(s) \/ Cancel(s)
    \/ \E s \in Own, n \in 1 .. MaxPull : Pull(s, n)
    \/ \E w \in Writes, h \in HostStreams : ConsumeStream(w, h)
    \/ \E h \in HostStreams : Data(h) \/ HostEnds(h)
    \/ \E c \in Calls : HostReplies(c)
    \/ \E failure \in LinkFailure : EndLink(failure)

Handle ==
    \/ OpenReply \/ OpenPull \/ FailReply \/ Acknowledge
    \/ SinkWrite \/ CancelRemote \/ Restore \/ ReplenishWindow
    \/ CloseStreams \/ SignalStreams \/ PublishLinkFailure

Next ==
    \/ BreakWriter
    \/ Receive \/ Handle
    \/ \E s \in Reads : Producer(s)
    \/ \E s \in Watches : NextValue(s) \/ EventReacts(s)
    \/ \E c \in Calls : Caller(c)

Spec == Init /\ [][Next]_vars

(* Every thread runs; nothing makes the host, the disk's events or the end *)
(* of the link happen.                                                     *)
Fairness ==
    /\ WF_vars(Handle)
    /\ \A s \in Reads : WF_vars(Producer(s))
    /\ \A s \in Watches : WF_vars(EventReacts(s))
    /\ \A c \in Calls : WF_vars(Caller(c))

FairSpec == Spec /\ Fairness

-----------------------------------------------------------------------------
(* Types.                                                                  *)

Consumer == [sink : Writes, since : 0 .. Replenish - 1] \cup {NoConsumer}

ReaderLabel ==
    {"read", "openReply", "openPull", "failReply", "ack", "sink", "cancelRemote",
     "restore", "replenish", "closeStreams", "signal", "publish", "ended"}

ThreadLabel ==
    {"none", "wait", "next", "value", "chunk", "forget", "settle", "claim",
     "lastWrite", "close", "gone"}

CallLabel ==
    {"idle", "write", "wait", "answered", "timedOut", "failed", "done", "aborted"}

TypeOK ==
    /\ writable \in BOOLEAN
    /\ link \in {"up"} \cup LinkFailure
    /\ reader \in [at : ReaderLabel, stream : Own \cup HostStreams \cup {None},
                   consumer : Consumer, due : BOOLEAN, taken : SUBSET Own,
                   sinks : SUBSET Writes, failure : LinkFailure]
    /\ own \subseteq Own
    /\ consumers \in [HostStreams -> Consumer]
    /\ control \in [Own -> [credit : Nat, cancelled : BOOLEAN]]
    /\ thread \in [Own -> ThreadLabel]
    /\ forgot \in [Own -> [producer : BOOLEAN, sink : Writes \cup {None}]]
    /\ closed \in [Own -> Nat]
    /\ finished \in [Writes -> Nat]
    /\ answered \subseteq Requests
    /\ replies \in [Requests -> Nat]
    /\ wire \in [Own -> [chunks : Nat, ends : Nat, late : Nat, acked : BOOLEAN]]
    /\ host \in [asked : SUBSET Requests, returned : SUBSET Own,
                 opened : SUBSET HostStreams, ended : SUBSET HostStreams,
                 replied : SUBSET Calls, pulled : [Own -> 0 .. MaxPull]]
    /\ window \in [HostStreams -> Nat]
    /\ pending \subseteq Calls /\ strays \subseteq Calls
    /\ call \in [Calls -> CallLabel]
    /\ mailbox \in [Calls -> {"empty", "value", "closed"}]

-----------------------------------------------------------------------------
(* Safety.                                                                 *)

(* One request, one reply: a stream reference, a refusal or the outcome of *)
(* a sink, whichever of the handler, the sink, the reader's end and a      *)
(* failing producer thread come to answer it.                              *)
OneReply == \A r \in Requests : replies[r] <= 1

(* The sink is in the hands of a failed stream's thread, which is about to *)
(* finish it.                                                              *)
Forgotten(w) == \E s \in Own : thread[s] = "settle" /\ forgot[s].sink = w

(* The reply of a hands.write is never lost: until it is given its sink is *)
(* in the table, or the reader holds it and will put it back or finish it, *)
(* or a failed stream's thread holds it and will finish it.                *)
ReplyIsOwed ==
    \A w \in Writes \cap host.asked : w \notin answered =>
        \/ \E h \in HostStreams : consumers[h].sink = w
        \/ reader.consumer.sink = w
        \/ w \in reader.sinks
        \/ Forgotten(w)

(* "Called exactly once": a sink that is finished is nobody's any more, so *)
(* it is neither written to nor finished again.                            *)
SinkFinishedOnce ==
    \A w \in Writes :
        /\ finished[w] <= 1
        /\ finished[w] = 1 => /\ \A h \in HostStreams : consumers[h].sink # w
                              /\ At("sink") => reader.consumer.sink # w
                              /\ ~Forgotten(w)

(* A stream has one ending: the terminal frame of its thread, or the       *)
(* cancel or the end of the link that took its entry, never both.          *)
OneEnding ==
    \A s \in Own : wire[s].ends <= 1 /\ (Cancelled(s) => wire[s].ends = 0)

(* After its cancel was acknowledged a stream delivers at most the chunk   *)
(* its thread had already spent credit for.                                *)
LateChunkIsLast ==
    \A s \in Own : wire[s].late <= 1 /\
        (wire[s].late = 1 /\ Cancelled(s) => thread[s] \notin {"next", "chunk"})

(* The host is never sent more than it granted, cancelled or not.          *)
CreditIsRespected ==
    \A s \in Own : wire[s].chunks + control[s].credit <= host.pulled[s]

(* A handle is closed exactly once, and not before its thread is done      *)
(* with the source.                                                        *)
HandleClosedOnce ==
    \A s \in Own :
        /\ closed[s] <= 1
        /\ thread[s] \in {"wait", "next", "value", "chunk", "forget", "settle", "close"}
              => closed[s] = 0
        /\ thread[s] = "gone" => closed[s] = 1 /\ s \notin own

(* The window of a consumed stream is never shut for good: whenever the    *)
(* reader waits for the next chunk the host may still send one.            *)
WindowNeverShuts ==
    \A h \in HostStreams :
        At("read") /\ consumers[h] # NoConsumer => window[h] > 0

(* A published link failure finds an empty table, and an accepted          *)
(* hands.write is still unanswered only where the thread of a stream that  *)
(* failed by itself took its sink before the end of the link could, and is *)
(* between the table's lock and the answer.                                *)
LinkDownIsQuiet ==
    link # "up" =>
        /\ own = {} /\ \A h \in HostStreams : consumers[h] = NoConsumer
        /\ \A w \in Writes \cap host.asked : w \in answered \/ Forgotten(w)

(* A call that waits for an answer is in the table, and the reader or the  *)
(* end of the link is still to come and look there; the one exception is a *)
(* call registered when the end of the link had already drained the table: *)
(* nobody looks any more, and it waits for its own timeout.  However a     *)
(* call ends it leaves no sender behind.                                   *)
WaitersAreFindable ==
    \A c \in Calls :
        /\ call[c] = "wait" /\ mailbox[c] = "empty" =>
              c \in pending /\ (Drained => c \in strays)
        /\ call[c] \in {"idle", "done", "aborted"} => c \notin pending

(* A request is answered, and once, at the latest by whoever has its sink  *)
(* when the link ends.                                                     *)
AnsweredOnce == OneReply /\ ReplyIsOwed /\ LinkDownIsQuiet

(* What ends ends once: a sink, a stream and the handle behind it, though  *)
(* a cancel, the last chunk and the end of the link come together.         *)
EndsOnce == SinkFinishedOnce /\ OneEnding /\ HandleClosedOnce

(* A sender keeps to what was granted, up to its cancel and beyond.        *)
FlowIsRespected == CreditIsRespected /\ LateChunkIsLast

-----------------------------------------------------------------------------
(* Liveness.                                                               *)

(* A file, directory or watch that was opened is closed once the host has  *)
(* cancelled its stream or the link is down, whatever its thread is doing. *)
HandlesAreReleased ==
    \A s \in Own :
        (Known(s) /\ (s \in host.returned \/ link # "up")) ~> closed[s] = 1

=============================================================================
