------------------------------ MODULE DebugProbe ------------------------------
(***************************************************************************)
(* The debug probe (src-tauri/src/debug_probe.rs): whether it opens at all *)
(* and where its token is published; a loop that accepts one client at a   *)
(* time, reads its token byte by byte, mounts the file capability on the   *)
(* connection and waits until the link ends or the session is too long;    *)
(* and the thread that reads the link, with what it tolerates before it    *)
(* gives the link up (start_reader of kkrpc_peer.rs, which reads the       *)
(* host's link in the same way).                                           *)
(*                                                                         *)
(* A client's bytes are tokens' bytes, ends of lines, and lines of what    *)
(* follows: a frame, a blank line or one that does not parse.  Lines of    *)
(* the link are read whole.                                                *)
(*                                                                         *)
(* Mut... definitions are mistakes this code could contain, in the place   *)
(* of the definition that follows them.                                    *)
(***************************************************************************)
EXTENDS Naturals, Sequences

CONSTANTS
    Scripts,          \* of each client: what it may send before it hangs up or falls silent
    Token,            \* the bytes of the token
    Devices,          \* what the process may find when it starts
    MaxTokenLine,     \* bytes of a token line
    MaxReadFailures,  \* consecutive errors after which a link is given up
    MaxBadLines,      \* consecutive lines that do not parse, likewise
    MaxClients        \* bound: connections

Clients == 1..MaxClients
Links   == {"token byte", "wrong byte", "cr", "nl", "frame", "blank", "junk"}

VARIABLES
    device,   \* what the process finds: its window, what the web view answers
              \* and which of the calls to find out throw, whether a token can
              \* be minted and the name bound, and the directories for it
    loop,     \* the probe's thread: where it is, with whom, the token line so far
    client,   \* of each client: what it is still to send, whether it hung up,
              \* and whether it sends frames for ever after
    socket,   \* of each connection, on the probe's side
    wire,     \* what was sent and not yet read
    reader    \* the thread that reads an admitted client's link

vars == <<device, loop, client, socket, wire, reader>>

Clean  == [failures |-> 0, bad |-> 0]      \* Hiccups
Idle(at) == [at |-> at, with |-> 0, line |-> <<>>, dirs |-> <<>>]
Accept == Idle("accept")
NoLink == [at |-> "none", hiccups |-> Clean, failure |-> "none"]

Init ==
    /\ device \in Devices
    /\ loop = Idle("start")
    /\ client \in [Clients -> [script : UNION {Scripts[c] : c \in Clients},
                               talks : BOOLEAN, hungup : {FALSE}]]
    /\ \A c \in Clients : client[c].script \in Scripts[c]
    /\ socket = [c \in Clients |-> "none"]
    /\ wire = [c \in Clients |-> <<>>]
    /\ reader = [c \in Clients |-> NoLink]

-----------------------------------------------------------------------------
(* start_in_background, on the thread that sets the shell up.              *)

\* with_webview: there is a window, and it takes the post.
Dispatched == device.window = "alive"

Throws(calls) == calls \cap device.throws # {}

\* read_flag_debuggable: what throws has not said anything.
ReadFlagDebuggable ==
    IF Throws({"getApplicationInfo", "flags"}) THEN "unknown"
    ELSE IF "debuggable" \in device.flags THEN "set" ELSE "clear"

\* external_files_dir: null when the storage is not mounted.
ExternalFilesDir ==
    IF Throws({"getExternalFilesDir", "getAbsolutePath"}) \/ ~device.mounted
    THEN <<>> ELSE <<"external">>

\* mint_token reads the random device; is_well_formed_token looks at its shape.
MintToken == IF device.random THEN Token ELSE <<>>

IsWellFormedToken(t) == Len(t) = Len(Token) /\ \A i \in DOMAIN t : t[i] = "token byte"

\* token_candidates: first the directory that can be read from outside, then
\* those private ones that the platform names.
TokenCandidates(external) ==
    external \o SelectSeq(<<"app_data", "app_config", "app_cache">>,
                          LAMBDA d : d \in device.private)

(* The answer of the web view, or none: the post failed, or it was not     *)
(* carried out in time.  An answer after that has nobody who receives it.  *)
Answers(answer, none) ==
    (IF Dispatched /\ device.answers THEN {answer} ELSE {}) \cup {none}

(* is_debuggable and what follows a yes.  A platform that could not be     *)
(* asked has not said yes, and a refusal is no error.                      *)
IsDebuggable ==
    /\ loop.at = "start"
    /\ \E flag \in Answers(ReadFlagDebuggable, "unknown") :
          loop' = Idle(CASE flag # "set" -> "declined"
                         [] flag = "set" /\ ~IsWellFormedToken(MintToken) -> "failed"
                         [] OTHER -> "minted")
    /\ UNCHANGED <<device, client, socket, wire, reader>>

StartInBackground ==
    /\ loop.at = "minted"
    /\ \E external \in Answers(ExternalFilesDir, <<>>) :
          LET dirs == TokenCandidates(external)
          IN  loop' = IF dirs = <<>> THEN Idle("failed")
                      ELSE [Idle("run") EXCEPT !.dirs = dirs]
    /\ UNCHANGED <<device, client, socket, wire, reader>>

-----------------------------------------------------------------------------
(* run, on a thread of its own.                                            *)

\* A bound name has the kernel queue whoever connects.
Listening == loop.at \notin {"start", "minted", "run", "declined", "failed"}

\* start_in_background has asked already, once; the token is looked at again.
ShouldServe(debuggable) == debuggable

Bind ==
    /\ loop.at = "run"
    /\ loop' = IF ShouldServe(TRUE) /\ IsWellFormedToken(Token) /\ device.binds
               THEN [loop EXCEPT !.at = "publish"] ELSE Idle("failed")
    /\ UNCHANGED <<device, client, socket, wire, reader>>

\* publish_token stops at the first directory that takes the file.
Published == \E d \in DOMAIN loop.dirs : loop.dirs[d] \in device.takes

(* Without a token nobody could be admitted: the listener is dropped, and  *)
(* with it the connections the kernel has queued.                          *)
Dropped == [c \in Clients |-> IF socket[c] = "queued" THEN "closed" ELSE socket[c]]

PublishToken ==
    /\ loop.at = "publish"
    /\ IF Published THEN loop' = Accept /\ UNCHANGED socket
       ELSE loop' = Idle("failed") /\ socket' = Dropped
    /\ UNCHANGED <<device, client, wire, reader>>

-----------------------------------------------------------------------------
(* Clients.                                                                *)

Connect(c) ==
    /\ Listening
    /\ socket[c] = "none"
    /\ \A d \in Clients : d < c => socket[d] # "none"
    /\ socket' = [socket EXCEPT ![c] = "queued"]
    /\ UNCHANGED <<device, loop, client, wire, reader>>

Send(c) ==
    /\ socket[c] \in {"queued", "open"} /\ ~client[c].hungup
    /\ client[c].script # <<>>
    /\ wire' = [wire EXCEPT ![c] = Append(@, Head(client[c].script))]
    /\ client' = [client EXCEPT ![c].script = Tail(@)]
    /\ UNCHANGED <<device, loop, socket, reader>>

\* A client that drives the file capability may do so for as long as it likes.
Talk(c) ==
    /\ socket[c] = "open" /\ ~client[c].hungup
    /\ client[c].script = <<>> /\ client[c].talks /\ wire[c] = <<>>
    /\ wire' = [wire EXCEPT ![c] = <<"frame">>]
    /\ UNCHANGED <<device, loop, client, socket, reader>>

HangUp(c) ==
    /\ socket[c] # "none" /\ ~client[c].hungup
    /\ client' = [client EXCEPT ![c].hungup = TRUE]
    /\ UNCHANGED <<device, loop, socket, wire, reader>>

\* The next read finds the end: what was sent before it is read first.
Ended(c) == wire[c] = <<>> /\ (client[c].hungup \/ socket[c] = "shut")

\* The read timeout that handshake sets stays on the socket, and on the
\* reader's clone of it.
TimesOut(c) == wire[c] = <<>> /\ ~Ended(c)

-----------------------------------------------------------------------------
(* accept_loop and handshake.                                              *)

(* accept; an error of accept is the same as no client.                    *)
Admit(c) ==
    /\ loop.at = "accept" /\ socket[c] = "queued"
    /\ \A d \in Clients : d < c => socket[d] # "queued"
    /\ socket' = [socket EXCEPT ![c] = "open"]
    /\ loop' = [Idle("handshake") EXCEPT !.with = c]
    /\ UNCHANGED <<device, client, wire, reader>>

\* Rejected or Unreadable: the connection is dropped without a reply.
Refuse(c) ==
    /\ socket' = [socket EXCEPT ![c] = "closed"]
    /\ loop' = Accept

(* trim_end_matches and token_matches.                                     *)
Trimmed(line) ==
    CHOOSE n \in 0..Len(line) :
        /\ \A i \in n + 1..Len(line) : line[i] = "cr"
        /\ n > 0 => line[n] # "cr"
Matches(line) == SubSeq(line, 1, Trimmed(line)) = Token

(* One turn of handshake's loop; serve_hands registers the handlers before *)
(* it starts the reader, and greets after it.  A connection that can not   *)
(* be cloned is dropped.                                                   *)
ReadByte(c) ==
    /\ loop.at = "handshake" /\ loop.with = c
    /\ wire[c] # <<>>
    /\ wire' = [wire EXCEPT ![c] = Tail(@)]
    /\ IF Head(wire[c]) # "nl"
       THEN /\ UNCHANGED reader
            /\ IF Len(loop.line) >= MaxTokenLine THEN Refuse(c)
               ELSE /\ loop' = [loop EXCEPT !.line = Append(@, Head(wire[c]))]
                    /\ UNCHANGED socket
       ELSE \/ /\ Matches(loop.line)
               /\ reader' = [reader EXCEPT ![c].at = "reading"]
               /\ loop' = [loop EXCEPT !.at = "serve", !.line = <<>>]
               /\ UNCHANGED socket
            \/ /\ Refuse(c)
               /\ UNCHANGED reader
    /\ UNCHANGED <<device, client>>

(* The client has hung up, or was silent for too long.                     *)
MutGivesUp(c) == Ended(c)

GivesUp(c) == Ended(c) \/ TimesOut(c)

HandshakeEnds(c) ==
    /\ loop.at = "handshake" /\ loop.with = c
    /\ GivesUp(c)
    /\ Refuse(c)
    /\ UNCHANGED <<device, client, wire, reader>>

(* serve_hands_with_timeout: the link is down, and what is left of the     *)
(* connection goes with the last handle to it; or the session has lasted   *)
(* too long, and the connection is shut down under its reader.             *)
MutShut(c) == socket

Shut(c) == [socket EXCEPT ![c] = "shut"]

SessionEnds(c) ==
    /\ loop.at = "serve" /\ loop.with = c
    /\ \/ /\ reader[c].failure # "none"
          /\ socket' = [socket EXCEPT ![c] = "closed"]
       \/ socket' = Shut(c)
    /\ loop' = Accept
    /\ UNCHANGED <<device, client, wire, reader>>

-----------------------------------------------------------------------------
(* start_reader.                                                           *)

(* What the counters are after a read.                                     *)
Heard(hiccups, read) ==
    CASE read = "error"       -> [failures |-> hiccups.failures + 1, bad |-> 0]
      [] read = "interrupted" -> Clean
      [] read = "blank"       -> [hiccups EXCEPT !.failures = 0]
      [] read = "junk"        -> [failures |-> 0, bad |-> hiccups.bad + 1]
      [] OTHER                -> Clean

(* Whether the link is given up then.                                      *)
Failure(hiccups, read) ==
    CASE read = "eof" -> "closed"
      [] read = "error" /\ hiccups.failures >= MaxReadFailures -> "read"
      [] read = "junk" /\ hiccups.bad >= MaxBadLines -> "unreadable"
      [] OTHER -> "none"

\* end_link fails what is pending, closes the streams and publishes why.
Reads(c, read) ==
    LET hiccups == Heard(reader[c].hiccups, read)
        failure == Failure(hiccups, read)
    IN  reader' = [reader EXCEPT ![c] =
            [at |-> IF failure # "none" THEN "ended"
                    ELSE IF read = "frame" THEN "busy" ELSE "reading",
             hiccups |-> hiccups, failure |-> failure]]

(* A line: what is no line of the link does not parse.                     *)
Line(c) ==
    /\ reader[c].at = "reading" /\ wire[c] # <<>>
    /\ Reads(c, IF Head(wire[c]) \in {"frame", "blank"} THEN Head(wire[c]) ELSE "junk")
    /\ wire' = [wire EXCEPT ![c] = Tail(@)]
    /\ UNCHANGED <<device, loop, client, socket>>

\* Nothing to read: the end, or the read fails.
Hiccup(c) ==
    /\ reader[c].at = "reading"
    /\ \/ Ended(c) /\ Reads(c, "eof")
       \/ TimesOut(c) /\ \E read \in {"error", "interrupted"} : Reads(c, read)
    /\ UNCHANGED <<device, loop, client, socket, wire>>

\* The handler of a frame returns.
Handled(c) ==
    /\ reader[c].at = "busy"
    /\ reader' = [reader EXCEPT ![c].at = "reading"]
    /\ UNCHANGED <<device, loop, client, socket, wire>>

ServeStep(c) == Admit(c) \/ ReadByte(c) \/ HandshakeEnds(c) \/ SessionEnds(c)
ReadStep(c)  == Line(c) \/ Hiccup(c) \/ Handled(c)

StartStep == IsDebuggable \/ StartInBackground \/ Bind \/ PublishToken

Next == StartStep \/ \E c \in Clients :
    \/ Connect(c) \/ Send(c) \/ Talk(c) \/ HangUp(c)
    \/ ServeStep(c) \/ ReadStep(c)

\* The loop and the readers are threads, every read has its timeout, the
\* session has its limit, and a handler returns.  Clients need do nothing.
Fairness ==
    /\ WF_vars(StartStep)
    /\ \A c \in Clients : WF_vars(ServeStep(c)) /\ WF_vars(ReadStep(c))

Spec == Init /\ [][Next]_vars /\ Fairness

-----------------------------------------------------------------------------
(* Every client has its turn or is turned away, whatever those before it   *)
(* do or leave undone and however the start of the probe ends; and the     *)
(* start does end, whatever the web view leaves unanswered                 *)
(* (debug_probe.rs:296-303, 496-498, 666-680, 790-795).                    *)
EveryClientHasItsTurn ==
    /\ loop.at \in {"start", "minted", "run", "publish"} ~>
          loop.at \in {"declined", "failed", "accept"}
    /\ \A c \in Clients : socket[c] = "queued" ~> socket[c] # "queued"

(* A session that is over is over: the thread that read it ends, even if   *)
(* the client never stops talking (debug_probe.rs:666-680).                *)
OldReadersEnd ==
    \A c \in Clients :
        reader[c].at # "none" /\ loop.with # c ~> reader[c].at = "ended"
=============================================================================
