------------------------------ MODULE HandsFiles ------------------------------
(***************************************************************************)
(* The file capability of the shell, src-tauri/src/hands.rs: one call of   *)
(* stat, list, read, write or watch on a path that other programs change   *)
(* while the call goes from one system call to the next.  The frames of    *)
(* its stream are KkrpcPeer's; here a chunk is sent or taken in one step.  *)
(*                                                                         *)
(* A file is a sequence of bytes of which only the writer is kept, a       *)
(* directory a sequence of entries that can be read or can not.  A hole    *)
(* that a seek leaves is filled with "nul".                                *)
(*                                                                         *)
(* Mut... definitions are mistakes this code could contain, in the place   *)
(* of the definition that follows them.                                    *)
(***************************************************************************)
EXTENDS Naturals, Sequences, FiniteSets

CONSTANTS
    Offsets,     \* the offsets that calls ask for
    Batches,     \* the batch sizes that calls ask for
    Preview,     \* STAT_PREVIEW_MAX
    Chunks,      \* the chunks (of one byte) that the caller writes
    Carriers,    \* what a chunk may come in: [shape, entries]
    Files,       \* what a file may hold at first: its lengths
    Directories, \* what a directory may hold: sequences of "good" and "bad"
    Errnos,      \* the errors of the system that may strike at any call
    MaxFiles,    \* bound: the files that come to be at the path
    MaxDeeds     \* bound: how often other programs act

HandsBounds ==
    /\ Offsets \subseteq Nat /\ Batches \subseteq Nat /\ Files \subseteq Nat
    /\ Preview \in Nat /\ Chunks \in Nat
    /\ MaxFiles \in Nat \ {0} /\ MaxDeeds \in Nat
    /\ Directories \subseteq Seq({"good", "bad"})
ASSUME HandsAssumption == HandsBounds

Gone  == 0
Inode == 1..MaxFiles

VARIABLES
    path,     \* the file at the path, or Gone
    kind,     \* of each file: "file", "dir", "other", or "free"
    content,  \* of each file
    platform, \* whether files have ids here, and how a watch says "absent"
    job,      \* the call, and how far it has come
    result,   \* what the caller was told, of which the last is the end
    alive,    \* the plugin that called is loaded
    watch,    \* the registration of the watcher and the events it was sent
    deeds,    \* how often other programs acted
    emptied,  \* history: the call emptied a file that held something
    harmed,   \* history: the offsets at which it overwrote a byte not its own
    cut,      \* history: a file was shortened in place since the call began
    slipped,  \* history: the path changed while the call was opening it
    moved     \* history: the path was changed since it was opened

disk    == <<path, kind, content>>
history == <<emptied, harmed, cut, slipped, moved>>
handsVars == <<disk, platform, job, result, alive, watch, deeds, history>>

-----------------------------------------------------------------------------
(* Options are JSON: what is absent, null, a number, a flag or anything    *)
(* else.                                                                   *)
Absent     == [is |-> "absent", of |-> 0]
NullOption == [is |-> "null",   of |-> 0]
Wrong      == [is |-> "wrong",  of |-> 0]
Number(n)  == [is |-> "number", of |-> n]
Yes        == [is |-> "flag",   of |-> 1]
No         == [is |-> "flag",   of |-> 0]

Given(o)        == o.is \notin {"absent", "null"}
Fits(o, type)   == Given(o) => o.is = type
NumberOr(o, n)  == IF Given(o) THEN o.of ELSE n
Asked(o)        == o = Yes

(* write_intent.                                                           *)
MutTruncates(opts) == IF Given(opts.truncate) THEN Asked(opts.truncate) ELSE TRUE

Truncates(opts) ==
    IF Given(opts.truncate) THEN Asked(opts.truncate) ELSE ~Given(opts.offset)

Contradicts(opts) ==
    \/ Asked(opts.append) /\ NumberOr(opts.offset, 0) > 0
    \/ Asked(opts.append) /\ Truncates(opts) /\ opts.truncate # Absent
    \/ Truncates(opts) /\ NumberOr(opts.offset, 0) > 0

IntentIsRefused(opts) ==
    \/ opts.mode # Absent
    \/ ~Fits(opts.offset, "number")
    \/ ~Fits(opts.truncate, "flag") \/ ~Fits(opts.append, "flag")
    \/ Contradicts(opts)

WriteIntent(opts) ==
    [offset |-> NumberOr(opts.offset, 0), append |-> Asked(opts.append),
     truncate |-> Truncates(opts) /\ ~Asked(opts.append)]

(* What was accepted, where null is no other than absent.                  *)
Plain(opts) ==
    [opts EXCEPT !.offset   = IF Given(@) THEN @ ELSE Absent,
                 !.truncate = IF Given(@) THEN @ ELSE Absent,
                 !.append   = IF Asked(@) THEN @ ELSE Absent]

Label(intent) ==
    IF intent.append THEN "append"
    ELSE IF intent.truncate THEN "truncate" ELSE "overwrite"

(* classify and classify_errno: the codes of the wire.                     *)
Code(errno) ==
    CASE errno \in {"ENOENT", "ENOTDIR", "EISDIR", "ENOSPC", "EEXIST", "EINTR"} -> errno
      [] errno \in {"EACCES", "EPERM"} -> "EACCES"
      [] errno \in {"ELOOP", "ENAMETOOLONG", "EINVAL"} -> "EINVAL"
      [] OTHER -> "EUNSUPPORTED"

-----------------------------------------------------------------------------
(* The file system and the notifier.  External. *)

Exists == path # Gone
IsDir  == Exists /\ kind[path] = "dir"
IsFile == Exists /\ kind[path] = "file"

(* identity: empty when there is no file or its file system has no ids.    *)
Identity == IF Exists /\ platform.ids THEN path ELSE Gone

Write(bytes, at, byte) ==
    IF at < Len(bytes) THEN [bytes EXCEPT ![at + 1] = byte]
    ELSE bytes \o [i \in 1..(at - Len(bytes)) |-> "nul"] \o <<byte>>

\* The entries that can be read, of those from one place to another.
ReadableIn(entries, from, to) == Cardinality({i \in from..to : entries[i] = "good"})
Readable(entries) == ReadableIn(entries, 1, Len(entries))

(* An event reaches a watcher of the directory, or of the very file.       *)
FileEvent(what, names) == [kind |-> what, paths |-> names]
Notified(event, file) ==
    IF watch.on = "parent" \/ (watch.on = "target" /\ watch.file = file)
    THEN watch' = [watch EXCEPT
            !.queue = Append(@, IF watch.on = "parent" THEN event
                                ELSE [event EXCEPT !.paths = <<"target">>]),
            !.owed  = @ + (IF "target" \in {event.paths[i] : i \in DOMAIN event.paths}
                             /\ event.kind # "access" THEN 1 ELSE 0)]
    ELSE UNCHANGED watch

-----------------------------------------------------------------------------
NoCall == [op |-> "none", at |-> "idle", opts |-> Absent, file |-> Gone, seen |-> Gone,
           start |-> 0, count |-> 0, left |-> 0, why |-> "none"]
NoWatch == [on |-> "none", file |-> Gone, queue |-> <<>>, owed |-> 0, told |-> <<>>]
NoAnswer == [code |-> "none"]

\* What is at the path: nothing, or a file, a directory or something else.
Begins(first, k, length, entries, plain) ==
    /\ path = first
    /\ kind = [i \in Inode |-> IF i = first THEN k ELSE "free"]
    /\ content = [i \in Inode |->
          CASE i # first  -> <<>>
            [] k = "file" -> [b \in 1..length |-> "old"]
            [] k = "dir"  -> entries
            [] OTHER      -> <<>>]
    /\ platform = [ids |-> plain, generic |-> ~plain]
    /\ job = NoCall /\ result = NoAnswer /\ alive = TRUE /\ watch = NoWatch
    /\ deeds = 0
    /\ emptied = FALSE /\ harmed = {} /\ cut = FALSE /\ slipped = FALSE /\ moved = FALSE

HandsInit ==
    \E first \in {Gone, 1}, k \in {"file", "dir", "other"},
       length \in Files, entries \in Directories, plain \in BOOLEAN :
          Begins(first, k, length, entries, plain)

(* Steps of the call that leave the disk alone.                            *)
Quietly == UNCHANGED <<disk, platform, alive, deeds, history>>

Open(op, opts, at) ==
    job' = [NoCall EXCEPT !.op = op, !.opts = opts, !.at = at, !.left = Chunks]

Concludes(reply) ==
    /\ job' = [job EXCEPT !.at = "done"]
    /\ result' = reply
Fails(code) == Concludes([code |-> code])
Refuses(op, opts, code) ==
    /\ job' = [NoCall EXCEPT !.op = op, !.opts = opts, !.at = "done"]
    /\ result' = [code |-> code]

(* A call of the system fails: the first one, or one that is under way.    *)
(* What can not be identified or previewed is left out of the answer, and  *)
(* an entry that can not be read is left out of a listing.                 *)
Unreachable(op) ==
    /\ job.at = "idle"
    /\ \E errno \in Errnos : Refuses(op, Absent, Code(errno))
    /\ UNCHANGED watch /\ Quietly

Strikes ==
    /\ \/ job.op \in {"list", "read", "write"} /\ job.at = "opening"
       \/ job.op = "read" /\ job.at = "reading"
       \/ job.op = "write" /\ job.at = "writing" /\ alive /\ job.left > 0
    /\ \E errno \in Errnos : Fails(Code(errno))
    /\ UNCHANGED watch /\ Quietly

-----------------------------------------------------------------------------
(* stat. *)

Stat ==
    /\ job.at = "idle"
    /\ IF Exists
       THEN Open("stat", Absent, "identifying") /\ UNCHANGED result
       ELSE Refuses("stat", Absent, "null")
    /\ UNCHANGED watch /\ Quietly

(* The preview says `more` when there is an entry it has no room for.      *)
StatPreview ==
    /\ job.op = "stat" /\ job.at = "identifying"
    /\ LET items == IF IsDir THEN Readable(content[path]) ELSE 0 IN
       Concludes([code |-> "ok", id |-> Identity, more |-> items > Preview,
                items |-> IF items > Preview THEN Preview ELSE items])
    /\ UNCHANGED watch /\ Quietly

(* list.                                                                   *)
List(batch) ==
    /\ job.at = "idle"
    /\ CASE ~Fits(batch, "number") -> Refuses("list", batch, "EUNSUPPORTED")
         [] ~Exists                -> Refuses("list", batch, "ENOENT")
         [] Exists /\ ~IsDir       -> Refuses("list", batch, "ENOTDIR")
         [] OTHER -> Open("list", batch, "opening") /\ UNCHANGED result
    /\ UNCHANGED watch /\ Quietly

OpenDirectory ==
    /\ job.op = "list" /\ job.at = "opening"
    /\ CASE ~Exists -> Fails("ENOENT")
         [] Exists /\ ~IsDir -> Fails("ENOTDIR")
         [] OTHER -> /\ job' = [job EXCEPT !.at = "reading", !.file = path]
                     /\ UNCHANGED result
    /\ UNCHANGED watch /\ Quietly

(* next_chunk: entries from `start` on until the batch is full or there    *)
(* are no more.                                                            *)
BatchSize(opts) == LET n == NumberOr(opts, Preview) IN IF n = 0 THEN 1 ELSE n

BatchEnd(entries, from, size) ==
    LET Enough == {e \in (from + 1)..Len(entries) : ReadableIn(entries, from + 1, e) >= size}
    IN IF Enough = {} THEN Len(entries) ELSE CHOOSE e \in Enough : \A f \in Enough : e <= f

NextBatch ==
    /\ job.op = "list" /\ job.at = "reading"
    /\ LET entries == content[job.file]
           end     == BatchEnd(entries, job.start, BatchSize(job.opts))
           sent    == ReadableIn(entries, job.start + 1, end)
       IN IF sent = 0
          THEN Fails("ok")
          ELSE /\ job' = [job EXCEPT !.start = end, !.count = @ + sent]
               /\ UNCHANGED result
    /\ UNCHANGED watch /\ Quietly

-----------------------------------------------------------------------------
(* read. *)

Read(offset) ==
    /\ job.at = "idle"
    /\ CASE ~Fits(offset, "number") -> Refuses("read", offset, "EUNSUPPORTED")
         [] ~Exists                 -> Refuses("read", offset, "ENOENT")
         [] IsDir                   -> Refuses("read", offset, "EISDIR")
         [] Exists /\ ~IsDir /\ ~IsFile -> Refuses("read", offset, "EUNSUPPORTED")
         [] IsFile /\ NumberOr(offset, 0) > Len(content[path]) ->
                Refuses("read", offset, "ESTALE")
         [] OTHER -> Open("read", offset, "opening") /\ UNCHANGED result
    /\ UNCHANGED watch /\ Quietly

OpenForRead ==
    /\ job.op = "read" /\ job.at = "opening"
    /\ IF Exists
       THEN /\ job' = [job EXCEPT !.at = "identifying", !.file = path,
                                    !.start = NumberOr(job.opts, 0)]
            /\ UNCHANGED result
       ELSE Fails("ENOENT")
    /\ UNCHANGED watch /\ Quietly

Identify ==
    /\ job.op = "read" /\ job.at = "identifying"
    /\ job' = [job EXCEPT !.at = "checking", !.seen = Identity]
    /\ UNCHANGED <<result, watch>> /\ Quietly

(* next_chunk, before it reads...                                          *)
MutCheck ==
    /\ job.op = "read" /\ job.at = "checking"
    /\ IF Identity # Gone /\ job.seen # Gone /\ Identity # job.seen
       THEN Fails("ESTALE")
       ELSE job' = [job EXCEPT !.at = "reading"] /\ UNCHANGED result
    /\ moved' = (path # job.file)
    /\ UNCHANGED <<disk, platform, alive, deeds, watch, emptied, harmed, cut, slipped>>

Check ==
    /\ job.op = "read" /\ job.at = "checking"
    /\ IF Identity = Gone /\ ~Exists
       THEN Fails("ENOENT")
       ELSE IF Identity # Gone /\ job.seen # Gone /\ Identity # job.seen
       THEN Fails("ESTALE")
       ELSE job' = [job EXCEPT !.at = "reading"] /\ UNCHANGED result
    /\ moved' = (path # job.file)
    /\ UNCHANGED <<disk, platform, alive, deeds, watch, emptied, harmed, cut, slipped>>

(* ... and when it does.  The read after the last chunk finds no byte.     *)
ReadChunk ==
    /\ job.op = "read" /\ job.at = "reading"
    /\ IF kind[job.file] = "dir" THEN Fails("EISDIR")
       ELSE IF job.start + job.count >= Len(content[job.file]) THEN Fails("ok")
       ELSE /\ job' = [job EXCEPT !.at = "checking", !.count = @ + 1]
            /\ UNCHANGED result
    /\ UNCHANGED watch /\ Quietly

-----------------------------------------------------------------------------
(* write. *)

StartWrite(opts) ==
    /\ job.at = "idle"
    /\ CASE ~opts.stream \/ IntentIsRefused(opts) -> Refuses("write", opts, "EUNSUPPORTED")
         [] opts.stream /\ ~IntentIsRefused(opts) ->
              IF IsDir THEN Refuses("write", opts, "EISDIR")
              ELSE IF Exists /\ ~IsFile THEN Refuses("write", opts, "EUNSUPPORTED")
              ELSE Open("write", Plain(opts), "opening") /\ UNCHANGED result
    /\ UNCHANGED watch /\ Quietly

(* FileWriter::open.  The file is created, or emptied, here.               *)
OpenForWrite ==
    LET intent == WriteIntent(job.opts)
        free   == {i \in Inode : kind[i] = "free"}
        opened(file) ==
            /\ job' = [job EXCEPT !.at = "consuming", !.file = file,
                                    !.start = intent.offset]
            /\ UNCHANGED result
    IN
    /\ job.op = "write" /\ job.at = "opening"
    /\ CASE IsDir -> Fails("EISDIR") /\ UNCHANGED <<disk, emptied>>
         [] Exists /\ ~IsDir ->
              /\ opened(path)
              /\ content' = IF intent.truncate THEN [content EXCEPT ![path] = <<>>]
                                               ELSE content
              /\ emptied' = (intent.truncate /\ content[path] # <<>>)
              /\ UNCHANGED <<path, kind>>
         [] ~Exists ->
              \E file \in free :
                 /\ \A f \in free : file <= f
                 /\ opened(file)
                 /\ path' = file /\ kind' = [kind EXCEPT ![file] = "file"]
                 /\ UNCHANGED <<content, emptied>>
    /\ UNCHANGED <<platform, alive, watch, deeds, harmed, cut, slipped, moved>>

(* Why consume_stream refused.  A link that is down has no code: it is no  *)
(* matter of the file.                                                     *)
ConsumeRefusal(refusal) ==
    CASE refusal = "consumed" -> "EUNSUPPORTED"
      [] refusal = "poisoned" -> "EINTERNAL"
      [] OTHER                -> "closed"

Consume(refusal) ==
    /\ job.op = "write" /\ job.at = "consuming"
    /\ IF refusal = "none"
       THEN job' = [job EXCEPT !.at = "writing"] /\ UNCHANGED result
       ELSE Fails(ConsumeRefusal(refusal))
    /\ UNCHANGED watch /\ Quietly

(* decode_chunk of kkrpc_peer.rs: text, a Buffer, a list or an object from *)
(* places to what is there, which is a byte, a larger number or none.      *)
(* Nothing is skipped, and no place is missing.                            *)
DecodeByteSequence(entries) == \A place \in DOMAIN entries : entries[place] = "byte"

Decodes(carrier) ==
    LET places == DOMAIN carrier.entries IN
    /\ carrier.shape \in {"text", "Buffer", "map", "list"}
    /\ DecodeByteSequence(carrier.entries)
    /\ carrier.shape = "map" => places = 0..(Cardinality(places) - 1)

(* Where the next byte goes: O_APPEND ignores the cursor.                  *)
Position ==
    IF WriteIntent(job.opts).append THEN Len(content[job.file])
    ELSE job.start + job.count

WriteChunk(carrier) ==
    LET at    == Position
        bytes == content[job.file]
    IN
    /\ job.op = "write" /\ job.at = "writing" /\ job.left > 0 /\ alive
    /\ Decodes(carrier)
    /\ content' = [content EXCEPT ![job.file] = Write(bytes, at, "own")]
    /\ harmed' = harmed \cup (IF at < Len(bytes) /\ bytes[at + 1] # "own" THEN {at} ELSE {})
    /\ job' = [job EXCEPT !.count = @ + 1, !.left = @ - 1, !.seen = at + 1]
    /\ UNCHANGED <<path, kind, platform, alive, watch, deeds, result,
                   emptied, cut, slipped, moved>>

(* DeferredWriter::finish.  `seen` is the cursor of the file.              *)
EndOffset == IF job.count = 0 THEN job.start ELSE job.seen

Finish ==
    /\ job.op = "write" /\ job.at = "writing"
    /\ job.left = 0 \/ ~alive
    /\ Concludes([code |-> "ok", bytes |-> job.count, endOffset |-> EndOffset,
                mode |-> Label(WriteIntent(job.opts))])
    /\ UNCHANGED watch /\ Quietly

(* A chunk that does not decode ends the stream; so does an error of the   *)
(* host's, or the end of the link.                                         *)
ChunkFails(carrier) ==
    /\ job.op = "write" /\ job.at = "writing" /\ job.left > 0 /\ alive
    /\ ~Decodes(carrier)
    /\ Fails("stream")
    /\ UNCHANGED watch /\ Quietly

StreamFails ==
    /\ job.op = "write" /\ job.at = "writing"
    /\ Fails("stream")
    /\ UNCHANGED watch /\ Quietly

(* write of host/src/hands.ts: transferWhileCallerAlive ends the stream    *)
(* of a plugin that is unloaded, and not with an error.                    *)
Unload ==
    /\ alive /\ job.op = "write" /\ job.at # "done"
    /\ alive' = FALSE
    /\ UNCHANGED <<disk, platform, job, result, watch, deeds, history>>

-----------------------------------------------------------------------------
(* watch. *)

(* What the notifier may say of a path that is there: a fault of its own,  *)
(* or an error of the system's.                                            *)
Refusals == Errnos \cup {"Generic", "MaxFilesWatch"}

ClassifyAnyhow(refusal) ==
    CASE refusal = "PathNotFound" -> "ENOENT"
      [] refusal \in {"Generic", "MaxFilesWatch"} -> "EUNSUPPORTED"
      [] OTHER -> Code(refusal)

(* A platform that has no word for absence is believed when the path is    *)
(* absent still.                                                           *)
RefusalIsAbsent(refusal) ==
    refusal = "PathNotFound" \/ (refusal = "Generic" /\ ~Exists)

(* What is no absence is reported as what it is.                           *)
ClassifyWatchRefusal(refusal) ==
    IF RefusalIsAbsent(refusal) THEN "try parent" ELSE ClassifyAnyhow(refusal)

Watch(recursive) ==
    /\ job.at = "idle"
    /\ \/ Refuses("watch", recursive, "EUNSUPPORTED") /\ UNCHANGED watch
       \/ /\ Fits(recursive, "flag") /\ Exists
          /\ Open("watch", recursive, "watching") /\ UNCHANGED result
          /\ watch' = [watch EXCEPT !.on = "target", !.file = path]
       \/ /\ Fits(recursive, "flag")
          /\ \E refusal \in IF Exists THEN Refusals
                            ELSE {IF platform.generic THEN "Generic" ELSE "PathNotFound"} :
                job' = [NoCall EXCEPT !.op = "watch", !.opts = recursive,
                                       !.at = "refused", !.why = refusal]
          /\ UNCHANGED <<result, watch>>
    /\ Quietly

(* The directory takes the watch instead, unless it is missing or refuses. *)
WatchParent ==
    LET verdict == ClassifyWatchRefusal(job.why) IN
    /\ job.op = "watch" /\ job.at = "refused"
    /\ \/ /\ verdict # "try parent"
          /\ Fails(verdict) /\ UNCHANGED watch
       \/ /\ verdict = "try parent"
          /\ \/ ~Exists /\ Fails("ENOENT") /\ UNCHANGED watch
             \/ \E refusal \in Refusals : Fails(ClassifyAnyhow(refusal)) /\ UNCHANGED watch
             \/ /\ job' = [job EXCEPT !.at = "watching"] /\ UNCHANGED result
                /\ watch' = [watch EXCEPT !.on = "parent"]
    /\ Quietly

(* next_value, and change_of for what it lets through.                     *)
Concerns(event) == \E i \in DOMAIN event.paths : event.paths[i] = "target"

MutChangeOf(event) == [kind |-> event.kind, path |-> event.paths[1]]

ChangeOf(event) ==
    [kind |-> event.kind, path |-> IF Concerns(event) THEN "target" ELSE event.paths[1]]

NextValue ==
    /\ job.op = "watch" /\ job.at = "watching" /\ watch.queue # <<>>
    /\ LET event == Head(watch.queue)
           kept  == /\ watch.on = "parent" => Concerns(event)
                    /\ event.kind # "access"
       IN watch' = [watch EXCEPT !.queue = Tail(@),
                                 !.told = IF kept THEN Append(@, ChangeOf(event)) ELSE @]
    /\ UNCHANGED <<job, result>> /\ Quietly

(* close: the stream is cancelled or its link is down.  What is unwatched  *)
(* is the path that was registered.                                        *)
CloseWatch ==
    /\ job.op = "watch" /\ job.at = "watching"
    /\ job' = [job EXCEPT !.at = "ended"]
    /\ watch' = [watch EXCEPT !.on = "none"]
    /\ UNCHANGED result /\ Quietly

-----------------------------------------------------------------------------
(* Other programs, while a call is under way.                              *)

Meddles ==
    /\ job.at \notin {"idle", "done", "ended"} /\ deeds < MaxDeeds
    /\ deeds' = deeds + 1
    /\ UNCHANGED <<platform, job, result, alive, emptied, harmed>>

Opening == job.at \in {"opening", "identifying"}

Grow ==
    /\ Meddles /\ IsFile
    /\ content' = [content EXCEPT ![path] = Append(@, "other")]
    /\ Notified(FileEvent("modify", <<"target">>), path)
    /\ UNCHANGED <<path, kind, cut, slipped, moved>>

Cut ==
    /\ Meddles /\ IsFile /\ content[path] # <<>>
    /\ content' = [content EXCEPT ![path] = <<>>]
    /\ cut' = TRUE
    /\ Notified(FileEvent("modify", <<"target">>), path)
    /\ UNCHANGED <<path, kind, slipped, moved>>

Remove ==
    /\ Meddles /\ Exists
    /\ path' = Gone
    /\ slipped' = (slipped \/ Opening)
    /\ Notified(FileEvent("remove", <<"target">>), path)
    /\ UNCHANGED <<kind, content, cut, moved>>

(* Another file comes to the path, over the old one if there is one.       *)
Rename(length) ==
    LET file == Cardinality({i \in Inode : kind[i] # "free"}) + 1 IN
    /\ Meddles /\ file \in Inode
    /\ path' = file
    /\ kind' = [kind EXCEPT ![file] = "file"]
    /\ content' = [content EXCEPT ![file] = [b \in 1..length |-> "other"]]
    /\ slipped' = (slipped \/ Opening)
    /\ Notified(FileEvent("replace", <<"sibling", "target">>), path)
    /\ UNCHANGED <<cut, moved>>

(* Something happens beside the path, or the path is only read.            *)
Aside(what, name) ==
    /\ Meddles /\ watch.on = "parent"
    /\ Notified(FileEvent(what, <<name>>), Gone)
    /\ UNCHANGED <<disk, cut, slipped, moved>>

-----------------------------------------------------------------------------
BatchOptions  == {Absent, NullOption, Wrong} \cup {Number(n) : n \in Batches}
OffsetOptions == {Absent, NullOption, Wrong} \cup {Number(n) : n \in Offsets}
FlagOptions   == {Absent, NullOption, Wrong, Yes, No}
WriteOptions  ==
    [mode : {Absent, Wrong}, offset : OffsetOptions, truncate : FlagOptions,
     append : FlagOptions, stream : BOOLEAN]

Others ==
    \/ Grow \/ Cut \/ Remove
    \/ \E length \in Files : Rename(length)
    \/ Aside("modify", "sibling") \/ Aside("access", "target")

HandsNext ==
    \/ Stat \/ StatPreview
    \/ \E batch \in BatchOptions : List(batch)
    \/ OpenDirectory \/ NextBatch
    \/ \E offset \in OffsetOptions : Read(offset)
    \/ OpenForRead \/ Identify \/ Check \/ ReadChunk
    \/ job.at = "idle" /\ \E opts \in WriteOptions : StartWrite(opts)
    \/ OpenForWrite
    \/ \E refusal \in {"none", "consumed", "poisoned", "closed"} : Consume(refusal)
    \/ \E carrier \in Carriers : WriteChunk(carrier) \/ ChunkFails(carrier)
    \/ Finish \/ StreamFails \/ Unload
    \/ \E recursive \in FlagOptions : Watch(recursive)
    \/ WatchParent \/ NextValue \/ CloseWatch
    \/ \E op \in {"stat", "list", "read", "write"} : Unreachable(op)
    \/ Strikes \/ Others

HandsSpec == HandsInit /\ [][HandsNext]_handsVars

-----------------------------------------------------------------------------
(* Properties. *)

Held    == {"old", "own", "other", "nul", "good", "bad"}
Sorts   == {"modify", "access", "remove", "replace"}
Notices == [kind : Sorts, paths : {<<"target">>, <<"sibling">>, <<"sibling", "target">>}]
Told    == [kind : Sorts, path : {"target", "sibling"}]
Jobs    ==
    [op    : {"none", "stat", "list", "read", "write", "watch"},
     at    : {"idle", "opening", "identifying", "checking", "reading", "consuming", "writing",
              "refused", "watching", "done", "ended"},
     opts  : BatchOptions \cup OffsetOptions \cup FlagOptions \cup WriteOptions,
     file  : Inode \cup {Gone}, seen : Nat, start : Nat, count : Nat, left : Nat,
     why   : Refusals \cup {"PathNotFound", "none"}]
Watches ==
    [on : {"none", "target", "parent"}, file : Inode \cup {Gone}, queue : Seq(Notices),
     owed : Nat, told : Seq(Told)]

(* The values the variables take.                                          *)
HandsTypeOK ==
    /\ path \in Inode \cup {Gone}
    /\ kind \in [Inode -> {"file", "dir", "other", "free"}]
    /\ content \in [Inode -> Seq(Held)]
    /\ platform \in [ids : BOOLEAN, generic : BOOLEAN]
    /\ job \in Jobs /\ alive \in BOOLEAN /\ watch \in Watches
    /\ deeds \in 0..MaxDeeds
    /\ emptied \in BOOLEAN /\ cut \in BOOLEAN /\ slipped \in BOOLEAN /\ moved \in BOOLEAN
    /\ harmed \subseteq Nat

Ended(op) == job.op = op /\ job.at = "done" /\ result.code = "ok"

(* A write destroys what it was asked to and nothing else: a file is       *)
(* emptied only by a call that gives no place to write at or asks for it,  *)
(* an append overwrites nothing whoever else appends, and any other write  *)
(* overwrites the bytes from its offset on, as many as it writes.          *)
AsksForRewrite(opts) ==
    /\ opts.mode = Absent /\ ~Asked(opts.append)
    /\ Asked(opts.truncate) \/ (~Given(opts.truncate) /\ ~Given(opts.offset))

KeepsTheRest ==
    job.op = "write" /\ job.at \notin {"idle"} /\ job.opts # Absent =>
        /\ emptied => AsksForRewrite(job.opts)
        /\ Asked(job.opts.append) => harmed = {}
        /\ \A at \in harmed :
              /\ at >= NumberOr(job.opts.offset, 0)
              /\ at < NumberOr(job.opts.offset, 0) + job.count

(* Nobody else cutting the file, a write that is answered with success     *)
(* while its plugin is loaded has written every chunk, reports their       *)
(* number, and its endOffset is where the last of them ended: a transfer   *)
(* resumed there goes on behind its own data.                              *)
EndOffsetResumes ==
    Ended("write") =>
        /\ alive => result.bytes = Chunks
        /\ ~cut => /\ result.bytes =
                         Cardinality({i \in DOMAIN content[job.file] :
                                          content[job.file][i] = "own"})
                   /\ result.bytes > 0 => content[job.file][result.endOffset] = "own"
                   /\ \A i \in DOMAIN content[job.file] :
                         content[job.file][i] = "own" => i <= result.endOffset

WritesGoOn == KeepsTheRest /\ EndOffsetResumes

(* What ends well is complete.  A read that is done has delivered the file *)
(* from its offset to its end, and at the last look the path had that file *)
(* still, unless the file was cut in place or swapped while it was opened, *)
(* or has no id and was replaced; a listing has delivered every entry that *)
(* can be read; a preview says when there are more entries than it shows.  *)
DoneIsWhole ==
    /\ Ended("read") /\ ~cut /\ ~slipped =>
          /\ job.start + job.count = Len(content[job.file])
          /\ platform.ids => ~moved
    /\ Ended("list") => job.count = Readable(content[job.file])
    /\ Ended("stat") /\ IsDir /\ ~slipped =>
          result.items = Readable(content[path]) \/ (result.more /\ result.items = Preview)

(* A watcher tells of the path that was asked for, also when it sits on    *)
(* the directory and the event names two paths; nothing that it was sent   *)
(* about the path is dropped.  Only a path that is not there is watched    *)
(* from its directory: any other refusal is told.                          *)
WatchIsFaithful ==
    /\ watch.on = "parent" => job.why \in {"PathNotFound", "Generic"}
    /\ \A i \in DOMAIN watch.told : watch.told[i].path = "target"
    /\ watch.queue = <<>> => Len(watch.told) = watch.owed
=============================================================================
